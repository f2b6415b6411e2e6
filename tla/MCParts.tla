------------------------------ MODULE MCParts ------------------------------
(***************************************************************************)
(* Four parts that are cut into single statements, processes and clicks    *)
(* and share no state: the transactions on the batch tables, the launcher, *)
(* the pages, an uploaded file.  A behaviour runs one and leaves the       *)
(* others as they were.                                                    *)
(*                                                                         *)
(* The transactions run on one batch of two URLs: the smallest in which    *)
(* two of them can hold one row each and want the other's.                 *)
(***************************************************************************)
EXTENDS BatchTx, Launcher, Pages, Csv, TLC

CONSTANTS u1, u2, b1

VARIABLE part

partsVars == <<vars, launcherVars, pagesVars, csvVars, part>>

MCBatchOf == (u1 :> b1) @@ (u2 :> b1)
Symm == Permutations({u1, u2}) \cup Permutations(Tx)

\* Pages and files start in several states; a behaviour of another part needs
\* only one of them.
PartsInit ==
  /\ Init /\ LauncherInit /\ PagesInit /\ CsvInit
  /\ part \in {"transactions", "launcher", "pages", "csv"}
  /\ part # "pages" => ~authed
  /\ part # "csv" => break = "lf"

PartsNext ==
  /\ UNCHANGED part
  /\ \/ part = "transactions" /\ UNCHANGED <<launcherVars, pagesVars, csvVars>> /\ Next
     \/ part = "launcher" /\ LauncherNext /\ UNCHANGED <<vars, pagesVars, csvVars>>
     \/ part = "pages" /\ PagesNext /\ UNCHANGED <<vars, launcherVars, csvVars>>
     \/ part = "csv" /\ CsvNext /\ UNCHANGED <<vars, launcherVars, pagesVars>>

PartsSpec == PartsInit /\ [][PartsNext]_partsVars
=============================================================================
