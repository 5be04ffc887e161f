----------------------------- MODULE AccountDB -----------------------------
(***************************************************************************)
(* AccountDB: the account table and the one ODBC statement handle through  *)
(* which every query goes.  CreateAccount and SelectAccount are used as    *)
(* sub-actions by ChatLogic; ret is what the C++ call returns.             *)
(*                                                                         *)
(* The table, the stored procedures and the ODBC rules for a statement     *)
(* with an open cursor are outside the C++ code: usp_Account_Create ends   *)
(* by selecting the new row, so a successful call leaves a cursor open,    *)
(* and SQLExecDirect on such a statement fails (SQLSTATE 24000).           *)
(***************************************************************************)
EXTENDS Naturals, FiniteSets

CONSTANTS
    Id,           \* user ids a request may carry
    NoId,         \* the empty id "", which no code path refuses
    Pw,           \* passwords a request may carry
    NoPw,         \* marks an id without an account
    Truncated,    \* a password as SQLGetData returns it: 9 characters at most
    InitialId     \* ids with an account from the start (04_Account_Init.sql)

ASSUME AccountAssumption ==
    /\ NoId \in Id /\ InitialId \subseteq Id /\ NoPw \notin Pw
    /\ Truncated \in [Pw -> Pw]

VARIABLES
    accounts,     \* the Account table: the password stored for each LoginID
    cursorOpen    \* hstmt has a result set that nobody has closed

dbVars == <<accounts, cursorOpen>>

DbTypeOK == accounts \in [Id -> Pw \cup {NoPw}] /\ cursorOpen \in BOOLEAN

\* The password of an initial account is one of its own choosing.
DbInit ==
    /\ accounts \in {a \in [Id -> Pw \cup {NoPw}] :
                        \A i \in Id : a[i] # NoPw <=> i \in InitialId}
    /\ cursorOpen = FALSE

\* Mutant: an empty result set counts as a match.
SelectAccountEmptyMatches(id, pw, ret) ==
    /\ ret = (~cursorOpen /\ (accounts[id] = NoPw \/ Truncated[accounts[id]] = pw))
    /\ cursorOpen' = FALSE
    /\ UNCHANGED accounts

\* The result of the query is not fetched and the cursor not closed.  That the
\* id exists already is the procedure's return value, which is not looked at.
CreateAccount(id, pw, ret) ==
    \/ /\ cursorOpen
       /\ ret = FALSE
       /\ UNCHANGED dbVars
    \/ /\ ~cursorOpen /\ accounts[id] # NoPw
       /\ ret = TRUE
       /\ UNCHANGED dbVars
    \/ /\ ~cursorOpen /\ accounts[id] = NoPw
       /\ ret = TRUE
       /\ accounts' = [accounts EXCEPT ![id] = pw]
       /\ cursorOpen' = TRUE

\* Every path closes the cursor, the path of a failed SQLExecDirect too.
SelectAccount(id, pw, ret) ==
    /\ ret = (~cursorOpen /\ accounts[id] # NoPw /\ Truncated[accounts[id]] = pw)
    /\ cursorOpen' = FALSE
    /\ UNCHANGED accounts
=============================================================================
