------------------------------ MODULE MCTables ------------------------------
(***************************************************************************)
(* What the tables of the database hold while requests and workers change  *)
(* them: the batches and their URLs, the alerts, the accounts.  The three  *)
(* share no state, so a behaviour runs one and leaves the others alone.    *)
(***************************************************************************)
EXTENDS MCBatchStore, Alerts, Accounts

VARIABLE table

tablesVars == <<storeVars, alertsVars, accountVars, table>>

TablesInit ==
  /\ Init /\ AlertsInit /\ AccountsInit
  /\ table \in {"batches", "alerts", "accounts"}

TablesNext ==
  /\ UNCHANGED table
  /\ \/ table = "batches" /\ Next /\ UNCHANGED <<alertsVars, accountVars>>
     \/ table = "alerts" /\ AlertsNext /\ UNCHANGED <<storeVars, accountVars>>
     \/ table = "accounts" /\ AccountsNext /\ UNCHANGED <<storeVars, alertsVars>>

\* The types of failure and the clicks are interchangeable, and so are the
\* browsers, for which the .cfg takes the same model values as for the clicks.
TablesSymm == Permutations(Failure) \cup Permutations(Browser)

TablesSpec == TablesInit /\ [][TablesNext]_tablesVars
=============================================================================
