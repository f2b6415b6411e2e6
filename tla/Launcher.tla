------------------------------ MODULE Launcher ------------------------------
(***************************************************************************)
(* scripts/start.mjs, run by several people against one database: the      *)
(* checks before the start, the migration runner it spawns, the services,  *)
(* and how all of them end.                                                *)
(*                                                                         *)
(* A service is two processes: the wrapper that was spawned (pnpm, tsx     *)
(* watch), whose exit the launcher sees, and the server behind it.         *)
(***************************************************************************)
EXTENDS Naturals, Sequences, FiniteSets

CONSTANTS
  Launch,
  Service, Listener,    \* the services, and those that bind a port
  NFiles                \* number of migration files, numbered in name order

ASSUME LauncherAssumption == Listener \subseteq Service /\ NFiles \in Nat \ {0}

File == 1 .. NFiles

VARIABLES
  stage,      \* stage[l]: how far main() of l is
  runner,     \* runner[l]: the migration process of l
  recorded,   \* the table schema_migrations
  effects,    \* the files whose statements were committed, in that order
  wrapper, server,   \* of l's service s
  cause       \* the reasons a service may outlive its launcher

launcherVars == <<stage, runner, recorded, effects, wrapper, server, cause>>

NoRunner == [step |-> "none", seen |-> {}]
Starting == {"env", "postgres", "redis", "ports"}

LauncherInit ==
  /\ stage = [l \in Launch |-> "env"]
  /\ runner = [l \in Launch |-> NoRunner]
  /\ recorded = {} /\ effects = <<>>
  /\ wrapper = [l \in Launch |-> [s \in Service |-> "none"]]
  /\ server = [l \in Launch |-> [s \in Service |-> "none"]]
  /\ cause = {}

\* Somebody listens on the port of s: the launches share one host.
Taken(s) == s \in Listener /\ \E l \in Launch : server[l][s] \in {"up", "told"}

-----------------------------------------------------------------------------
(* main(), up to the start *)

\* A check passes, or die() ends the launcher: a variable is missing and there
\* is no terminal to ask; PostgreSQL does not answer in time; Redis does not
\* accept PING, or over TLS answers the doubled AUTH in two pieces.
Passes(l, from, to) ==
  /\ stage[l] = from
  /\ stage' \in {[stage EXCEPT ![l] = to], [stage EXCEPT ![l] = "exited"]}
  /\ UNCHANGED <<runner, recorded, effects, wrapper, server, cause>>

CheckEnv(l)      == Passes(l, "env", "postgres")
CheckPostgres(l) == Passes(l, "postgres", "redis")
CheckRedis(l)    == Passes(l, "redis", "ports")

\* Then the migration runner is spawned.
CheckPorts(l) ==
  /\ stage[l] = "ports"
  /\ IF \E s \in Service : Taken(s)
       THEN stage' = [stage EXCEPT ![l] = "exited"] /\ UNCHANGED runner
       ELSE /\ stage' = [stage EXCEPT ![l] = "migrate"]
            /\ runner' = [runner EXCEPT ![l] = [step |-> "read", seen |-> {}]]
  /\ UNCHANGED <<recorded, effects, wrapper, server, cause>>

-----------------------------------------------------------------------------
(* The migration runner *)

\* SELECT name FROM schema_migrations, which it has created if need be.
ReadApplied(l) ==
  /\ runner[l].step = "read"
  /\ runner' = [runner EXCEPT ![l] = [step |-> "apply", seen |-> recorded]]
  /\ UNCHANGED <<stage, recorded, effects, wrapper, server, cause>>

\* The files that are not in the list it read, in order.
Unapplied(l) == File \ runner[l].seen
NextFile(l)  == CHOOSE f \in Unapplied(l) : \A g \in Unapplied(l) : f <= g

\* The file is recorded after its transaction, not in it.
BadApplyFile(l) ==
  /\ runner[l].step = "apply" /\ Unapplied(l) # {}
  /\ LET f == NextFile(l) IN
       /\ effects' = Append(effects, f)
       /\ recorded' = recorded \cup {f}
       /\ runner' = [runner EXCEPT ![l].seen = @ \cup {f}]
  /\ UNCHANGED <<stage, wrapper, server, cause>>

\* One transaction: the file's statements and its row.  Where another runner
\* has inserted the row meanwhile the key conflicts, and all is rolled back.
ApplyFile(l) ==
  /\ runner[l].step = "apply" /\ Unapplied(l) # {}
  /\ LET f == NextFile(l) IN
       IF f \in recorded
         THEN /\ runner' = [runner EXCEPT ![l].step = "failed"]
              /\ UNCHANGED <<recorded, effects>>
         ELSE /\ effects' = Append(effects, f)
              /\ recorded' = recorded \cup {f}
              /\ runner' = [runner EXCEPT ![l].seen = @ \cup {f}]
  /\ UNCHANGED <<stage, wrapper, server, cause>>

RunnerEnds(l) ==
  /\ \/ /\ runner[l].step = "apply" /\ Unapplied(l) = {}
        /\ runner' = [runner EXCEPT ![l].step = "ok"]
     \/ /\ runner[l].step \in {"read", "apply"}
        /\ runner' = [runner EXCEPT ![l].step = "failed"]
  /\ UNCHANGED <<stage, recorded, effects, wrapper, server, cause>>

-----------------------------------------------------------------------------
(* The services *)

\* Exit code 0: the signal handlers are installed and the services spawned,
\* in one go.  Any other code ends the launcher.
Start(l) ==
  /\ stage[l] = "migrate"
  /\ \/ /\ runner[l].step = "ok"
        /\ stage' = [stage EXCEPT ![l] = "up"]
        /\ wrapper' = [wrapper EXCEPT ![l] = [s \in Service |-> "up"]]
        /\ server' = [server EXCEPT ![l] = [s \in Service |-> "starting"]]
     \/ /\ runner[l].step = "failed"
        /\ stage' = [stage EXCEPT ![l] = "exited"]
        /\ UNCHANGED <<wrapper, server>>
  /\ UNCHANGED <<runner, recorded, effects, cause>>

\* A spawn that fails emits an 'error' that nothing handles: the launcher dies
\* of it and leaves the others alone.
SpawnFails(l, s) ==
  /\ stage[l] = "up" /\ wrapper[l][s] = "up" /\ server[l][s] = "starting"
  /\ stage' = [stage EXCEPT ![l] = "exited"]
  /\ wrapper' = [wrapper EXCEPT ![l][s] = "gone"]
  /\ server' = [server EXCEPT ![l][s] = "gone"]
  /\ cause' = cause \cup {<<"spawn", l>>}
  /\ UNCHANGED <<runner, recorded, effects>>

\* listen(): on a port somebody else has bound meanwhile it exits.  tsx watch
\* stays and waits for an edit, so the launcher is told nothing.
Listen(l, s) ==
  /\ server[l][s] = "starting"
  /\ server' = [server EXCEPT ![l][s] = IF Taken(s) THEN "gone" ELSE "up"]
  /\ UNCHANGED <<stage, runner, recorded, effects, wrapper, cause>>

\* The server ends by itself, with its wrapper or without; or the wrapper
\* alone is killed.
ServiceDies(l, s) ==
  /\ wrapper[l][s] = "up" /\ server[l][s] \in {"starting", "up"}
  /\ \/ /\ server' = [server EXCEPT ![l][s] = "gone"]
        /\ \/ UNCHANGED wrapper
           \/ wrapper' = [wrapper EXCEPT ![l][s] = "gone"]
        /\ UNCHANGED cause
     \/ /\ wrapper' = [wrapper EXCEPT ![l][s] = "gone"]
        /\ cause' = cause \cup {<<"wrapper", l, s>>}
        /\ UNCHANGED server
  /\ UNCHANGED <<stage, runner, recorded, effects>>

\* Only the service that has not failed yet and comes first is stopped.
BadTold(l) == [s \in Service |->
  IF wrapper[l][s] = "up" /\ server[l][s] \in {"starting", "up"} /\ s \in Listener
  THEN "told" ELSE server[l][s]]

\* killChild: SIGTERM to the process group of each wrapper that has not exited.
Told(l) == [s \in Service |->
  IF wrapper[l][s] = "up" /\ server[l][s] \in {"starting", "up"} THEN "told"
  ELSE server[l][s]]

Shutdown(l) ==
  /\ stage' = [stage EXCEPT ![l] = "stopping"]
  /\ server' = [server EXCEPT ![l] = Told(l)]
  /\ UNCHANGED <<runner, recorded, effects, wrapper, cause>>

\* The exit of a wrapper takes the others down.
ChildExit(l) ==
  /\ stage[l] = "up" /\ \E s \in Service : wrapper[l][s] = "gone"
  /\ Shutdown(l)

\* Ctrl+C or SIGTERM.  The handlers exist once the services do; before, the
\* launcher dies at once, as of any other signal or a crash, and the runner
\* with it (Ctrl+C, a closed terminal) or not.
Interrupt(l) ==
  \/ stage[l] = "up" /\ Shutdown(l)
  \/ /\ stage[l] \in Starting \cup {"migrate"}
     /\ stage' = [stage EXCEPT ![l] = "exited"]
     /\ \/ UNCHANGED runner
        \/ runner[l].step \in {"read", "apply"} /\ runner' = [runner EXCEPT ![l] = NoRunner]
     /\ UNCHANGED <<recorded, effects, wrapper, server, cause>>

\* Any other signal (SIGHUP of a closed terminal, SIGKILL) or a crash: the
\* detached services hear nothing of it, unless they have been told before.
Killed(l) ==
  /\ stage[l] \in {"up", "stopping"}
  /\ stage' = [stage EXCEPT ![l] = "exited"]
  /\ cause' = IF stage[l] = "up" THEN cause \cup {<<"killed", l>>} ELSE cause
  /\ UNCHANGED <<runner, recorded, effects, wrapper, server>>

\* 800 ms later, whatever still runs.
Exit(l) ==
  /\ stage[l] = "stopping"
  /\ stage' = [stage EXCEPT ![l] = "exited"]
  /\ UNCHANGED <<runner, recorded, effects, wrapper, server, cause>>

\* A server that was told drains, closes its connections and exits.
Drained(l, s) ==
  /\ server[l][s] = "told"
  /\ server' = [server EXCEPT ![l][s] = "gone"]
  /\ wrapper' = [wrapper EXCEPT ![l][s] = "gone"]
  /\ UNCHANGED <<stage, runner, recorded, effects, cause>>

-----------------------------------------------------------------------------

LauncherNext ==
  \E l \in Launch :
    \/ CheckEnv(l) \/ CheckPostgres(l) \/ CheckRedis(l) \/ CheckPorts(l)
    \/ ReadApplied(l) \/ ApplyFile(l) \/ RunnerEnds(l)
    \/ Start(l) \/ ChildExit(l) \/ Interrupt(l) \/ Killed(l) \/ Exit(l)
    \/ \E s \in Service :
         SpawnFails(l, s) \/ Listen(l, s) \/ ServiceDies(l, s) \/ Drained(l, s)

LauncherSpec == LauncherInit /\ [][LauncherNext]_launcherVars

-----------------------------------------------------------------------------
(* Properties *)

\* migrate.ts:7-8, start.mjs:352: with any number of runners, killed at any
\* point, each file takes effect at most once, in order, and exactly the
\* recorded files do; and a service only runs on the whole schema.
SchemaFirst ==
  /\ \A i \in DOMAIN effects : effects[i] = i
  /\ recorded = {effects[i] : i \in DOMAIN effects}
  /\ (\E l \in Launch, s \in Service : server[l][s] # "none") => recorded = File

\* start.mjs:9: a service that outlives its launcher has been told to stop,
\* unless its wrapper was killed alone, a spawn failed, or the launcher ended
\* otherwise than by Ctrl+C, SIGTERM and the exit of a service.
StraysHaveCause ==
  \A l \in Launch, s \in Service :
    stage[l] = "exited" /\ server[l][s] \in {"starting", "up"} =>
      \/ <<"spawn", l>> \in cause \/ <<"wrapper", l, s>> \in cause
      \/ <<"killed", l>> \in cause
=============================================================================
