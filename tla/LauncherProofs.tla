--------------------------- MODULE LauncherProofs ---------------------------
(***************************************************************************)
(* SchemaFirst and StraysHaveCause of Launcher, for any number of people   *)
(* who launch, of services and of migration files; and CsvKeepsTable of    *)
(* Csv, for tables and texts of any size.                                  *)
(***************************************************************************)
EXTENDS Launcher, Csv, TLAPS

Stages      == Starting \cup {"migrate", "up", "stopping", "exited"}
RunnerSteps == {"none", "read", "apply", "ok", "failed"}
States      == {"none", "starting", "up", "told", "gone"}

LauncherTypes ==
  /\ stage \in [Launch -> Stages]
  /\ runner \in [Launch -> [step : RunnerSteps, seen : SUBSET File]]
  /\ wrapper \in [Launch -> [Service -> {"none", "up", "gone"}]]
  /\ server \in [Launch -> [Service -> States]]

\* The table records a prefix of the files, as they took effect.
Prefix ==
  /\ effects \in Seq(File)
  /\ Len(effects) <= NFiles
  /\ \A i \in 1 .. Len(effects) : effects[i] = i
  /\ recorded = 1 .. Len(effects)

\* What a runner has seen is a shorter prefix; one that ended well saw it all,
\* and services run only after one did.
Runners ==
  /\ \A l \in Launch : runner[l].step \in {"apply", "ok"} =>
       \E m \in 0 .. Len(effects) : runner[l].seen = 1 .. m
  /\ \A l \in Launch : runner[l].step = "ok" => recorded = File
  /\ \A l \in Launch, s \in Service : server[l][s] # "none" => recorded = File

\* Nothing runs before the start; a server whose wrapper is gone, or whose
\* launcher has stopped its services or died, has its reason.
Tended ==
  \A l \in Launch, s \in Service :
    /\ stage[l] \in Starting \cup {"migrate"} => wrapper[l][s] = "none" /\ server[l][s] = "none"
    /\ server[l][s] \in {"starting", "up"} /\ wrapper[l][s] # "up" => <<"wrapper", l, s>> \in cause
    /\ stage[l] \in {"stopping", "exited"} /\ server[l][s] \in {"starting", "up"} =>
         \/ <<"spawn", l>> \in cause \/ <<"wrapper", l, s>> \in cause
         \/ <<"killed", l>> \in cause

LauncherIInv == LauncherTypes /\ Prefix /\ Runners /\ Tended

-----------------------------------------------------------------------------

LEMMA InitHolds == LauncherInit => LauncherIInv
<1> SUFFICES ASSUME LauncherInit PROVE LauncherIInv  OBVIOUS
<1> USE DEF LauncherInit, NoRunner, Starting
<1>1. LauncherTypes  BY DEF LauncherTypes, Stages, RunnerSteps, States
<1>2. Prefix  BY LauncherAssumption DEF Prefix
<1>3. Runners  BY DEF Runners
<1>4. Tended  BY DEF Tended
<1> QED  BY <1>1, <1>2, <1>3, <1>4 DEF LauncherIInv

\* The next file of a runner that has seen 1 .. m is m + 1.
LEMMA NextIsNext ==
  ASSUME NEW l \in Launch, NEW m \in Nat, runner[l].seen = 1 .. m, Unapplied(l) # {}, m <= NFiles
  PROVE  NextFile(l) = m + 1 /\ m + 1 \in File
<1> USE LauncherAssumption DEF Unapplied, File
<1>1. m + 1 \in Unapplied(l) /\ \A g \in Unapplied(l) : m + 1 <= g  OBVIOUS
<1>2. NextFile(l) \in Unapplied(l) /\ \A g \in Unapplied(l) : NextFile(l) <= g
  BY <1>1 DEF NextFile
<1> QED  BY <1>1, <1>2

\* A step of l's migration runner, and one of l's service s.
RunnerStep(l) == ReadApplied(l) \/ ApplyFile(l) \/ RunnerEnds(l)
ServiceStep(l, s) == SpawnFails(l, s) \/ Listen(l, s) \/ ServiceDies(l, s) \/ Drained(l, s)
MainStep(l) ==
  \/ CheckEnv(l) \/ CheckPostgres(l) \/ CheckRedis(l) \/ CheckPorts(l)
  \/ Start(l) \/ ChildExit(l) \/ Interrupt(l) \/ Killed(l) \/ Exit(l)

LEMMA Steps ==
  LauncherNext <=> \E l \in Launch :
    MainStep(l) \/ RunnerStep(l) \/ \E s \in Service : ServiceStep(l, s)
BY DEF LauncherNext, MainStep, RunnerStep, ServiceStep

-----------------------------------------------------------------------------
(* The migration runners *)

LEMMA RunnerKeepsAll ==
  ASSUME LauncherIInv, NEW l \in Launch, RunnerStep(l)
  PROVE  LauncherIInv'
<1> USE DEF LauncherIInv
<1>0. recorded \subseteq File  BY LauncherAssumption DEF Prefix, File
<1>1. CASE ReadApplied(l)
  <2>1. LauncherTypes'  BY <1>0, <1>1 DEF ReadApplied, LauncherTypes, RunnerSteps
  <2>2. Prefix'  BY <1>1 DEF ReadApplied, Prefix
  <2>3. Runners'
    <3>1. runner'[l] = [step |-> "apply", seen |-> recorded]
      BY <1>1 DEF ReadApplied, LauncherTypes
    <3>2. \A k \in Launch \ {l} : runner'[k] = runner[k]
      BY <1>1 DEF ReadApplied, LauncherTypes
    <3>3. effects' = effects /\ recorded' = recorded /\ server' = server
      BY <1>1 DEF ReadApplied
    <3>4. Len(effects) \in 0 .. Len(effects)  BY DEF Prefix
    <3> QED  BY <3>1, <3>2, <3>3, <3>4 DEF Runners, Prefix
  <2>4. Tended'  BY <1>1 DEF ReadApplied, Tended
  <2> QED  BY <2>1, <2>2, <2>3, <2>4
<1>2. CASE ApplyFile(l)
  <2>1. PICK m \in 0 .. Len(effects) : runner[l].seen = 1 .. m
    BY <1>2 DEF ApplyFile, Runners
  <2>2. m \in Nat /\ m <= NFiles /\ Len(effects) \in Nat
    BY LauncherAssumption DEF Prefix
  <2>3. NextFile(l) = m + 1 /\ m + 1 \in File
    BY <1>2, <2>1, <2>2, NextIsNext DEF ApplyFile
  <2>4. UNCHANGED <<stage, wrapper, server, cause>>  BY <1>2 DEF ApplyFile
  <2>5. CASE m + 1 \in recorded
    <3>1. runner' = [runner EXCEPT ![l].step = "failed"] /\ UNCHANGED <<recorded, effects>>
      BY <1>2, <2>3, <2>5 DEF ApplyFile
    <3>2. LauncherTypes'  BY <2>4, <3>1 DEF LauncherTypes, RunnerSteps
    <3>3. Prefix' /\ Tended'  BY <2>4, <3>1 DEF Prefix, Tended
    <3>4. Runners'  BY <2>4, <3>1 DEF Runners, LauncherTypes
    <3> QED  BY <3>2, <3>3, <3>4
  <2>6. CASE m + 1 \notin recorded
    <3>1. /\ effects' = Append(effects, m + 1)
          /\ recorded' = recorded \cup {m + 1}
          /\ runner' = [runner EXCEPT ![l].seen = @ \cup {m + 1}]
      BY <1>2, <2>3, <2>6 DEF ApplyFile
    <3>2. Len(effects) = m  BY <2>2, <2>6 DEF Prefix
    <3>3. Prefix'
      <4>1. effects' \in Seq(File) /\ Len(effects') = m + 1
        BY <2>3, <3>1, <3>2 DEF Prefix
      <4>2. \A i \in 1 .. m + 1 : effects'[i] = i
        BY <2>2, <3>1, <3>2 DEF Prefix
      <4>3. recorded' = 1 .. m + 1  BY <2>2, <3>1, <3>2 DEF Prefix
      <4> QED  BY <2>3, <4>1, <4>2, <4>3 DEF Prefix, File
    <3>4. LauncherTypes'
      <4>1. runner[l].seen \cup {m + 1} \in SUBSET File
        BY <2>3 DEF LauncherTypes
      <4>2. runner' \in [Launch -> [step : RunnerSteps, seen : SUBSET File]]
        BY <3>1, <4>1 DEF LauncherTypes
      <4> QED  BY <2>4, <4>2 DEF LauncherTypes
    <3>5. Runners'
      <4>0. runner'[l].step = "apply" /\ runner'[l].seen = runner[l].seen \cup {m + 1}
        BY <1>2, <3>1 DEF ApplyFile, LauncherTypes
      <4>1. runner'[l].seen = 1 .. m + 1
        BY <2>1, <2>2, <4>0
      <4>2. \A k \in Launch \ {l} : runner'[k] = runner[k]
        BY <3>1 DEF LauncherTypes
      <4>3. recorded = File => recorded' = File
        BY <2>3, <3>1
      <4>4. m + 1 \in 0 .. Len(effects') /\ \A i \in 0 .. Len(effects) : i \in 0 .. Len(effects')
        BY <2>2, <3>1, <3>2 DEF Prefix
      <4> QED  BY <2>4, <4>0, <4>1, <4>2, <4>3, <4>4 DEF Runners
    <3>6. Tended'  BY <2>4 DEF Tended
    <3> QED  BY <3>3, <3>4, <3>5, <3>6
  <2> QED  BY <2>5, <2>6
<1>3. CASE RunnerEnds(l)
  <2>1. UNCHANGED <<stage, recorded, effects, wrapper, server, cause>>  BY <1>3 DEF RunnerEnds
  <2>2. LauncherTypes'  BY <1>3, <2>1 DEF RunnerEnds, LauncherTypes, RunnerSteps
  <2>3. Prefix' /\ Tended'  BY <2>1 DEF Prefix, Tended
  <2>4. \A k \in Launch : runner'[k].seen = runner[k].seen
    BY <1>3 DEF RunnerEnds, LauncherTypes
  <2>5. \A k \in Launch \ {l} : runner'[k] = runner[k]
    BY <1>3 DEF RunnerEnds, LauncherTypes
  <2>6. CASE runner[l].step = "apply" /\ Unapplied(l) = {} /\ runner'[l].step = "ok"
    <3>1. PICK m \in 0 .. Len(effects) : runner[l].seen = 1 .. m  BY <2>6 DEF Runners
    <3>2. File \subseteq 1 .. m  BY <2>6, <3>1 DEF Unapplied
    <3>3. 1 .. m \subseteq recorded  BY DEF Prefix
    <3>4. recorded = File  BY <1>0, <3>2, <3>3
    <3> QED  BY <2>1, <2>2, <2>3, <2>4, <2>5, <2>6, <3>1, <3>4 DEF Runners
  <2>7. CASE runner'[l].step = "failed"
    <3>1. Runners'  BY <2>1, <2>4, <2>5, <2>7 DEF Runners
    <3> QED  BY <2>2, <2>3, <3>1
  <2> QED  BY <1>3, <2>6, <2>7 DEF RunnerEnds, LauncherTypes
<1> QED  BY <1>1, <1>2, <1>3 DEF RunnerStep

-----------------------------------------------------------------------------
(* The services *)

LEMMA ServiceKeepsAll ==
  ASSUME LauncherIInv, NEW l \in Launch, NEW s \in Service, ServiceStep(l, s)
  PROVE  LauncherIInv'
<1> USE DEF LauncherIInv
<1>1. UNCHANGED <<runner, recorded, effects>>
  BY DEF ServiceStep, SpawnFails, Listen, ServiceDies, Drained
<1>2. Prefix'  BY <1>1 DEF Prefix
<1>3. server[l][s] # "none"
  BY DEF ServiceStep, SpawnFails, Listen, ServiceDies, Drained
<1>4. LauncherTypes'
  <2>1. stage' \in [Launch -> Stages]
    BY DEF ServiceStep, SpawnFails, Listen, ServiceDies, Drained, LauncherTypes, Stages
  <2>2. wrapper' = wrapper \/ wrapper' = [wrapper EXCEPT ![l][s] = "gone"]
    BY DEF ServiceStep, SpawnFails, Listen, ServiceDies, Drained
  <2>3. PICK x \in States : server' = server \/ server' = [server EXCEPT ![l][s] = x]
    BY DEF ServiceStep, SpawnFails, Listen, ServiceDies, Drained, States
  <2>4. wrapper' \in [Launch -> [Service -> {"none", "up", "gone"}]]
    <3>1. [wrapper[l] EXCEPT ![s] = "gone"] \in [Service -> {"none", "up", "gone"}]
      BY DEF LauncherTypes
    <3>2. wrapper' = wrapper \/ wrapper' = [wrapper EXCEPT ![l] = [wrapper[l] EXCEPT ![s] = "gone"]]
      BY <2>2
    <3> QED  BY <3>1, <3>2 DEF LauncherTypes
  <2>5. server' \in [Launch -> [Service -> States]]
    <3>1. [server[l] EXCEPT ![s] = x] \in [Service -> States]
      BY DEF LauncherTypes
    <3>2. server' = server \/ server' = [server EXCEPT ![l] = [server[l] EXCEPT ![s] = x]]
      BY <2>3
    <3> QED  BY <3>1, <3>2 DEF LauncherTypes
  <2> QED  BY <1>1, <2>1, <2>4, <2>5 DEF LauncherTypes
<1>5. Runners'  BY <1>1, <1>3 DEF Runners
<1>6. Tended'
  <2>1. CASE SpawnFails(l, s)
    <3>1. /\ stage[l] = "up" /\ stage'[l] = "exited" /\ cause' = cause \cup {<<"spawn", l>>}
          /\ \A k \in Launch \ {l} : stage'[k] = stage[k]
          /\ server'[l][s] = "gone"
          /\ \A k \in Launch, t \in Service : <<k, t>> # <<l, s>> =>
               wrapper'[k][t] = wrapper[k][t] /\ server'[k][t] = server[k][t]
      BY <2>1 DEF SpawnFails, LauncherTypes
    <3> SUFFICES ASSUME NEW k \in Launch, NEW t \in Service
        PROVE  /\ stage'[k] \in Starting \cup {"migrate"} => wrapper'[k][t] = "none" /\ server'[k][t] = "none"
               /\ server'[k][t] \in {"starting", "up"} /\ wrapper'[k][t] # "up" => <<"wrapper", k, t>> \in cause'
               /\ stage'[k] \in {"stopping", "exited"} /\ server'[k][t] \in {"starting", "up"} =>
                    \/ <<"spawn", k>> \in cause' \/ <<"wrapper", k, t>> \in cause'
                    \/ <<"killed", k>> \in cause'
      BY DEF Tended
    <3>2. CASE k = l  BY <3>1, <3>2 DEF Tended, Starting
    <3>3. CASE k # l  BY <3>1, <3>3 DEF Tended
    <3> QED  BY <3>2, <3>3
  <2>2. CASE Listen(l, s)
    BY <2>2 DEF Listen, Tended, LauncherTypes, Starting
  <2>3. CASE ServiceDies(l, s)
    <3>1. stage' = stage /\ cause \subseteq cause' /\ wrapper[l][s] = "up" /\ server[l][s] # "none"
      BY <2>3 DEF ServiceDies
    <3>2. \A k \in Launch, t \in Service : <<k, t>> # <<l, s>> =>
            wrapper'[k][t] = wrapper[k][t] /\ server'[k][t] = server[k][t]
      BY <2>3 DEF ServiceDies, LauncherTypes
    <3>3. \/ server'[l][s] = "gone"
          \/ server'[l][s] = server[l][s] /\ <<"wrapper", l, s>> \in cause'
      BY <2>3 DEF ServiceDies, LauncherTypes
    <3>4. SUFFICES ASSUME NEW k \in Launch, NEW t \in Service
          PROVE  /\ stage'[k] \in Starting \cup {"migrate"} => wrapper'[k][t] = "none" /\ server'[k][t] = "none"
                 /\ server'[k][t] \in {"starting", "up"} /\ wrapper'[k][t] # "up" => <<"wrapper", k, t>> \in cause'
                 /\ stage'[k] \in {"stopping", "exited"} /\ server'[k][t] \in {"starting", "up"} =>
                      \/ <<"spawn", k>> \in cause' \/ <<"wrapper", k, t>> \in cause'
                      \/ <<"killed", k>> \in cause'
      BY DEF Tended
    <3>5. CASE k = l /\ t = s
      <4>1. stage[l] \notin Starting \cup {"migrate"}  BY <3>1 DEF Tended
      <4> QED  BY <3>1, <3>3, <3>5, <4>1
    <3>6. CASE <<k, t>> # <<l, s>>
      <4>1. wrapper'[k][t] = wrapper[k][t] /\ server'[k][t] = server[k][t]  BY <3>2, <3>6
      <4> QED  BY <3>1, <4>1 DEF Tended
    <3> QED  BY <3>5, <3>6
  <2>4. CASE Drained(l, s)
    <3>1. /\ server'[l][s] = "gone" /\ server[l][s] = "told" /\ UNCHANGED <<stage, cause>>
          /\ \A k \in Launch, t \in Service : <<k, t>> # <<l, s>> =>
               wrapper'[k][t] = wrapper[k][t] /\ server'[k][t] = server[k][t]
      BY <2>4 DEF Drained, LauncherTypes
    <3> SUFFICES ASSUME NEW k \in Launch, NEW t \in Service
        PROVE  /\ stage'[k] \in Starting \cup {"migrate"} => wrapper'[k][t] = "none" /\ server'[k][t] = "none"
               /\ server'[k][t] \in {"starting", "up"} /\ wrapper'[k][t] # "up" => <<"wrapper", k, t>> \in cause'
               /\ stage'[k] \in {"stopping", "exited"} /\ server'[k][t] \in {"starting", "up"} =>
                    \/ <<"spawn", k>> \in cause' \/ <<"wrapper", k, t>> \in cause'
                    \/ <<"killed", k>> \in cause'
      BY DEF Tended
    <3>2. CASE k = l /\ t = s  BY <3>1, <3>2 DEF Tended
    <3>3. CASE <<k, t>> # <<l, s>>
      <4>1. wrapper'[k][t] = wrapper[k][t] /\ server'[k][t] = server[k][t]  BY <3>1, <3>3
      <4> QED  BY <3>1, <4>1 DEF Tended
    <3> QED  BY <3>2, <3>3
  <2> QED  BY <2>1, <2>2, <2>3, <2>4 DEF ServiceStep
<1> QED  BY <1>2, <1>4, <1>5, <1>6

-----------------------------------------------------------------------------
(* main() *)

\* Until the services are started, only the stage and the runner change.
LEMMA ChecksKeepAll ==
  ASSUME LauncherIInv, NEW l \in Launch,
         CheckEnv(l) \/ CheckPostgres(l) \/ CheckRedis(l) \/ CheckPorts(l)
  PROVE  LauncherIInv'
<1> USE DEF LauncherIInv
<1>1. UNCHANGED <<recorded, effects, wrapper, server, cause>>
  BY DEF CheckEnv, CheckPostgres, CheckRedis, CheckPorts, Passes
<1>2. /\ stage[l] \in Starting
      /\ stage' \in {[stage EXCEPT ![l] = x] : x \in Starting \cup {"migrate", "exited"}}
  BY DEF CheckEnv, CheckPostgres, CheckRedis, CheckPorts, Passes, Starting
<1>3. runner' = runner \/ runner' = [runner EXCEPT ![l] = [step |-> "read", seen |-> {}]]
  BY DEF CheckEnv, CheckPostgres, CheckRedis, CheckPorts, Passes
<1>4. LauncherTypes'
  BY <1>1, <1>2, <1>3 DEF LauncherTypes, Stages, RunnerSteps
<1>5. Prefix'  BY <1>1 DEF Prefix
<1>6. Runners'
  <2>1. \A k \in Launch : runner'[k] = runner[k] \/ runner'[k].step = "read"
    BY <1>3 DEF LauncherTypes
  <2> QED  BY <1>1, <2>1 DEF Runners
<1>7. Tended'
  <2>1. \A k \in Launch : stage'[k] = stage[k] \/ k = l
    BY <1>2 DEF LauncherTypes
  <2>2. \A s \in Service : wrapper[l][s] = "none" /\ server[l][s] = "none"
    BY <1>2 DEF Tended
  <2> QED  BY <1>1, <2>1, <2>2 DEF Tended
<1> QED  BY <1>4, <1>5, <1>6, <1>7

LEMMA StartKeepsAll ==
  ASSUME LauncherIInv, NEW l \in Launch, Start(l)
  PROVE  LauncherIInv'
<1> USE DEF LauncherIInv
<1>1. UNCHANGED <<runner, recorded, effects, cause>> /\ stage[l] = "migrate"  BY DEF Start
<1>2. Prefix'  BY <1>1 DEF Prefix
<1>3. LauncherTypes'
  <2>1. stage' \in [Launch -> Stages]  BY DEF Start, LauncherTypes, Stages
  <2>2. wrapper' \in [Launch -> [Service -> {"none", "up", "gone"}]]
    BY DEF Start, LauncherTypes
  <2>3. server' \in [Launch -> [Service -> States]]
    BY DEF Start, LauncherTypes, States
  <2> QED  BY <1>1, <2>1, <2>2, <2>3 DEF LauncherTypes
<1>4. Runners'  BY <1>1 DEF Start, Runners, LauncherTypes
<1>5. Tended'
  <2>1. CASE runner[l].step = "ok"
    <3>1. /\ stage' = [stage EXCEPT ![l] = "up"]
          /\ wrapper' = [wrapper EXCEPT ![l] = [s \in Service |-> "up"]]
          /\ server' = [server EXCEPT ![l] = [s \in Service |-> "starting"]]
      BY <2>1 DEF Start
    <3> QED  BY <1>1, <3>1 DEF Tended, LauncherTypes, Starting
  <2>2. CASE runner[l].step # "ok"
    <3>1. stage' = [stage EXCEPT ![l] = "exited"] /\ UNCHANGED <<wrapper, server>>
      BY <2>2 DEF Start
    <3> QED  BY <1>1, <3>1 DEF Tended, LauncherTypes, Starting
  <2> QED  BY <2>1, <2>2
<1> QED  BY <1>2, <1>3, <1>4, <1>5

\* shutdown() leaves no server alone that it has no reason to.
LEMMA ShutdownKeepsAll ==
  ASSUME LauncherIInv, NEW l \in Launch, stage[l] = "up", Shutdown(l)
  PROVE  LauncherIInv'
<1> USE DEF LauncherIInv
<1>1. UNCHANGED <<runner, recorded, effects, wrapper, cause>>  BY DEF Shutdown
<1>2. stage' = [stage EXCEPT ![l] = "stopping"] /\ server' = [server EXCEPT ![l] = Told(l)]
  BY DEF Shutdown
<1>3. \A s \in Service :
        server'[l][s] = IF wrapper[l][s] = "up" /\ server[l][s] \in {"starting", "up"}
                        THEN "told" ELSE server[l][s]
  BY <1>2 DEF LauncherTypes, Told
<1>4. \A k \in Launch \ {l} : server'[k] = server[k] /\ stage'[k] = stage[k]
  BY <1>2 DEF LauncherTypes
<1>5. LauncherTypes'  BY <1>1, <1>2 DEF LauncherTypes, Stages, States, Told
<1>6. Prefix'  BY <1>1 DEF Prefix
<1>7. Runners'  BY <1>1, <1>3, <1>4 DEF Runners
<1>8. Tended'
  <2> SUFFICES ASSUME NEW k \in Launch, NEW s \in Service
      PROVE  /\ stage'[k] \in Starting \cup {"migrate"} => wrapper'[k][s] = "none" /\ server'[k][s] = "none"
             /\ server'[k][s] \in {"starting", "up"} /\ wrapper'[k][s] # "up" => <<"wrapper", k, s>> \in cause'
             /\ stage'[k] \in {"stopping", "exited"} /\ server'[k][s] \in {"starting", "up"} =>
                  \/ <<"spawn", k>> \in cause' \/ <<"wrapper", k, s>> \in cause'
                  \/ <<"killed", k>> \in cause'
    BY DEF Tended
  <2>1. CASE k = l
    <3>1. stage'[l] = "stopping"  BY <1>2 DEF LauncherTypes
    <3> QED  BY <1>1, <1>3, <2>1, <3>1 DEF Tended, Starting
  <2>2. CASE k # l  BY <1>1, <1>4, <2>2 DEF Tended
  <2> QED  BY <2>1, <2>2
<1> QED  BY <1>5, <1>6, <1>7, <1>8

LEMMA EndKeepsAll ==
  ASSUME LauncherIInv, NEW l \in Launch, ChildExit(l) \/ Interrupt(l) \/ Killed(l) \/ Exit(l)
  PROVE  LauncherIInv'
<1> USE DEF LauncherIInv
<1>1. CASE stage[l] = "up" /\ Shutdown(l)  BY <1>1, ShutdownKeepsAll
<1>2. CASE /\ stage' = [stage EXCEPT ![l] = "exited"]
           /\ stage[l] \in Starting \cup {"migrate", "stopping"}
           /\ runner' = runner \/ runner' = [runner EXCEPT ![l] = NoRunner]
           /\ UNCHANGED <<recorded, effects, wrapper, server, cause>>
  <2>0. \A k \in Launch : runner'[k] = runner[k] \/ runner'[k] = NoRunner
    BY <1>2 DEF LauncherTypes
  <2>1. LauncherTypes'
    <3>1. NoRunner \in [step : RunnerSteps, seen : SUBSET File]  BY DEF NoRunner, RunnerSteps
    <3>2. runner' \in [Launch -> [step : RunnerSteps, seen : SUBSET File]]
      BY <1>2, <3>1 DEF LauncherTypes
    <3>3. stage' \in [Launch -> Stages]  BY <1>2 DEF LauncherTypes, Stages
    <3> QED  BY <1>2, <3>2, <3>3 DEF LauncherTypes
  <2>2. Prefix'  BY <1>2 DEF Prefix
  <2>3. Runners'
    <3>1. \A k \in Launch : runner'[k] = runner[k] \/ runner'[k].step = "none"
      BY <2>0 DEF NoRunner
    <3> QED  BY <1>2, <3>1 DEF Runners
  <2>4. Tended'  BY <1>2 DEF Tended, LauncherTypes, Starting
  <2> QED  BY <2>1, <2>2, <2>3, <2>4
<1>3. CASE stage[l] = "up" /\ Killed(l)
  <2>1. /\ stage' = [stage EXCEPT ![l] = "exited"] /\ cause' = cause \cup {<<"killed", l>>}
        /\ UNCHANGED <<runner, recorded, effects, wrapper, server>>
    BY <1>3 DEF Killed
  <2>2. LauncherTypes'  BY <2>1 DEF LauncherTypes, Stages
  <2>3. Prefix' /\ Runners'  BY <2>1 DEF Prefix, Runners
  <2>4. Tended'  BY <1>3, <2>1 DEF Tended, LauncherTypes, Starting
  <2> QED  BY <2>2, <2>3, <2>4
<1>4. Killed(l) /\ stage[l] # "up" =>
        stage[l] = "stopping" /\ UNCHANGED <<runner, recorded, effects, wrapper, server, cause>>
        /\ stage' = [stage EXCEPT ![l] = "exited"]
  BY DEF Killed
<1> QED  BY <1>1, <1>2, <1>3, <1>4 DEF ChildExit, Interrupt, Exit

-----------------------------------------------------------------------------

\* The inductive invariant holds in every reachable state.
THEOREM LaunchesInvariant == LauncherSpec => []LauncherIInv
<1>1. LauncherInit => LauncherIInv  BY InitHolds
<1>2. LauncherIInv /\ [LauncherNext]_launcherVars => LauncherIInv'
  <2> SUFFICES ASSUME LauncherIInv, [LauncherNext]_launcherVars PROVE LauncherIInv'
    OBVIOUS
  <2>1. CASE UNCHANGED launcherVars
    BY <2>1 DEF launcherVars, LauncherIInv, LauncherTypes, Prefix, Runners, Tended
  <2>2. ASSUME NEW l \in Launch, MainStep(l) PROVE LauncherIInv'
    BY <2>2, ChecksKeepAll, StartKeepsAll, EndKeepsAll DEF MainStep
  <2>3. ASSUME NEW l \in Launch, RunnerStep(l) PROVE LauncherIInv'
    BY <2>3, RunnerKeepsAll
  <2>4. ASSUME NEW l \in Launch, NEW s \in Service, ServiceStep(l, s) PROVE LauncherIInv'
    BY <2>4, ServiceKeepsAll
  <2> QED  BY <2>1, <2>2, <2>3, <2>4, Steps
<1> QED  BY <1>1, <1>2, PTL DEF LauncherSpec

\* migrate.ts:7-8, start.mjs:352: each file takes effect once, in order and
\* together with its record, and services only run on the whole schema.
THEOREM SchemaComesFirst == LauncherSpec => []SchemaFirst
<1>1. LauncherIInv => SchemaFirst
  <2> SUFFICES ASSUME LauncherIInv PROVE SchemaFirst  OBVIOUS
  <2>1. DOMAIN effects = 1 .. Len(effects)  BY DEF LauncherIInv, Prefix
  <2>2. \A i \in DOMAIN effects : effects[i] = i  BY <2>1 DEF LauncherIInv, Prefix
  <2>3. recorded = {effects[i] : i \in DOMAIN effects}  BY <2>1, <2>2 DEF LauncherIInv, Prefix
  <2> QED  BY <2>2, <2>3 DEF SchemaFirst, LauncherIInv, Runners
<1> QED  BY <1>1, LaunchesInvariant, PTL

\* start.mjs:9: no launcher ends and leaves a service behind without a cause.
THEOREM NoStrayServices == LauncherSpec => []StraysHaveCause
<1>1. LauncherIInv => StraysHaveCause  BY DEF LauncherIInv, Tended, StraysHaveCause
<1> QED  BY <1>1, LaunchesInvariant, PTL

-----------------------------------------------------------------------------
(***************************************************************************)
(* Csv.  CsvKeepsTable speaks of the end of the file.  The invariant says  *)
(* what holds at every character: once the loop has turned on the last one *)
(* (Now), whatever comes next but for two pairs of characters, it holds    *)
(* the table written so far, and is within quotes when the writer is.      *)
(***************************************************************************)

Loop == [rows : Seq(Seq(Seq(Letter))), row : Seq(Seq(Letter)), field : Seq(Letter),
         quoted : BOOLEAN, content : BOOLEAN, skip : BOOLEAN]
Sheet == [rows : Seq(Seq(Seq(Letter))), row : Seq(Seq(Letter)), cell : Seq(Letter)]
Pens == {"start", "plain", "quoted", "double", "closed", "feed", "wild"}

CsvTypeOK ==
  /\ sheet \in Sheet /\ break \in {"lf", "cr", "crlf"} /\ pen \in Pens
  /\ odd \in BOOLEAN /\ wild \in Nat
  /\ unread \in Letter \cup {"none", "end"} /\ reader \in Loop
  /\ answer.given \in BOOLEAN

\* What the loop holds once it has turned on the last character and the next is c.
After(c) == IF unread = "none" THEN reader ELSE Turned(reader, unread, c)
Now == After("end")

\* The loop has read what the writer has written.
Read(s) ==
  /\ s.rows = sheet.rows /\ s.row = sheet.row /\ s.field = sheet.cell
  /\ s.quoted = (pen = "quoted")
  /\ s.content = (pen \in {"quoted", "double"} \/ Seen)

\* What the writer has just written, by where it is.
LastChar ==
  /\ pen = "start" => unread \in {"none", "comma", "lf", "cr"} /\ (unread = "cr" => break = "cr")
  /\ pen = "plain" => unread \in Plain
  /\ pen = "double" => unread = "quote" /\ reader.quoted /\ ~reader.skip
  /\ pen = "closed" => unread = "quote"
  /\ pen = "feed" => unread = "cr" /\ break = "crlf" /\ sheet.row = <<>> /\ sheet.cell = <<>>
  /\ pen = "start" => sheet.cell = <<>>

CsvInv ==
  /\ CsvTypeOK
  /\ unread = "none" => reader = NewReader /\ pen = "start"
  /\ unread # "end" =>
       /\ odd <=> Now.quoted
       /\ pen # "wild" => Read(Now) /\ LastChar
  /\ unread = "end" =>
       /\ odd <=> reader.quoted
       /\ pen # "wild" => ~reader.quoted /\ ParseRows(reader) = sheet.rows
  /\ answer.given =>
       /\ unread = "end" /\ answer.refused = reader.quoted
       /\ answer.urls = IF reader.quoted THEN <<>> ELSE UrlsOf(ParseRows(reader))


-----------------------------------------------------------------------------
(* One turn of the loop *)

LEMMA LoopFields ==
  ASSUME NEW s \in Loop
  PROVE  /\ s.rows \in Seq(Seq(Seq(Letter))) /\ s.row \in Seq(Seq(Letter))
         /\ s.field \in Seq(Letter)
         /\ s.quoted \in BOOLEAN /\ s.content \in BOOLEAN /\ s.skip \in BOOLEAN
BY DEF Loop

LEMMA EndFieldType ==
  ASSUME NEW s \in Loop
  PROVE  /\ EndField(s) \in Loop
         /\ EndField(s).rows = s.rows /\ EndField(s).row = Append(s.row, s.field)
         /\ EndField(s).field = <<>> /\ EndField(s).quoted = s.quoted
         /\ EndField(s).content = s.content /\ EndField(s).skip = s.skip
<1>1. EndField(s) = [s EXCEPT !.row = Append(@, s.field), !.field = <<>>]
  BY DEF EndField
<1>2. Append(s.row, s.field) \in Seq(Seq(Letter)) /\ <<>> \in Seq(Letter)
  BY DEF Loop
<1> QED
  BY <1>1, <1>2 DEF Loop

LEMMA EndRowType ==
  ASSUME NEW s \in Loop
  PROVE  /\ EndRow(s) \in Loop
         /\ EndRow(s).rows = IF s.content THEN Append(s.rows, Append(s.row, s.field)) ELSE s.rows
         /\ EndRow(s).row = <<>> /\ EndRow(s).field = <<>>
         /\ EndRow(s).quoted = FALSE /\ EndRow(s).content = FALSE /\ EndRow(s).skip = FALSE
<1>1. s.rows \in Seq(Seq(Seq(Letter))) /\ Append(s.row, s.field) \in Seq(Seq(Letter))
  BY DEF Loop
<1>2. EndField(s).row = Append(s.row, s.field)
  BY EndFieldType
<1>3. (IF s.content THEN Append(s.rows, EndField(s).row) ELSE s.rows) \in Seq(Seq(Seq(Letter)))
  BY <1>1, <1>2
<1>4. NewReader \in Loop
  BY DEF NewReader, Loop
<1> QED
  BY <1>2, <1>3, <1>4 DEF EndRow, NewReader, Loop

\* A turn leaves the loop in a state of the loop.
LEMMA TurnedType ==
  ASSUME NEW s \in Loop, NEW ch \in Letter, NEW next
  PROVE  Turned(s, ch, next) \in Loop
<1>0. Append(s.field, ch) \in Seq(Letter) /\ (s.content \/ ch # "space") \in BOOLEAN
  BY DEF Loop
<1>1. CASE s.skip
  BY <1>1 DEF Turned, Loop
<1>2. CASE ~s.skip /\ s.quoted
  <2>1. Turned(s, ch, next) = Inside(s, ch, next)
    BY <1>2 DEF Turned
  <2>2. \/ Inside(s, ch, next) = [s EXCEPT !.field = Append(@, ch)]
        \/ Inside(s, ch, next) = [s EXCEPT !.field = Append(@, ch), !.skip = TRUE]
        \/ Inside(s, ch, next) = [s EXCEPT !.quoted = FALSE]
    BY DEF Inside
  <2> QED
    BY <2>1, <2>2, <1>0 DEF Loop
<1>3. CASE ~s.skip /\ ~s.quoted
  <2>1. Turned(s, ch, next) = Outside(s, ch, next)
    BY <1>3 DEF Turned
  <2>2. CASE ch = "comma"
    <3> DEFINE t == [s EXCEPT !.content = TRUE]
    <3>1. t \in Loop
      BY DEF Loop
    <3>2. Outside(s, ch, next) = EndField(t)
      BY <2>2 DEF Outside, Plain
    <3> HIDE DEF t
    <3> QED
      BY <2>1, <3>1, <3>2, EndFieldType
  <2>3. CASE ch = "lf"
    BY <2>1, <2>3, EndRowType DEF Outside, Plain
  <2>4. CASE ch = "cr"
    <3>1. Outside(s, ch, next) = [EndRow(s) EXCEPT !.skip = (next = "lf")]
      BY <2>4 DEF Outside, Plain
    <3>2. EndRow(s) \in Loop
      BY EndRowType
    <3>3. (next = "lf") \in BOOLEAN
      OBVIOUS
    <3>4. [EndRow(s) EXCEPT !.skip = (next = "lf")] \in Loop
      BY <3>2, <3>3 DEF Loop
    <3> QED
      BY <2>1, <3>1, <3>4
  <2>5. CASE ch \in Plain \/ ch = "quote"
    <3>1. \/ Outside(s, ch, next) = [s EXCEPT !.quoted = TRUE, !.content = TRUE]
          \/ Outside(s, ch, next)
               = [s EXCEPT !.field = Append(@, ch), !.content = @ \/ ch # "space"]
      BY <2>5 DEF Outside, Plain
    <3> QED
      BY <2>1, <3>1, <1>0 DEF Loop
  <2> QED
    BY <2>2, <2>3, <2>4, <2>5 DEF Letter
<1> QED
  BY <1>1, <1>2, <1>3, LoopFields

\* The look-ahead matters for two pairs of characters alone.
LEMMA Ahead ==
  ASSUME NEW s \in Loop, NEW ch \in Letter, NEW c \in Letter,
         ~(ch = "quote" /\ c = "quote" /\ s.quoted /\ ~s.skip),
         ~(ch = "cr" /\ c = "lf" /\ ~s.quoted /\ ~s.skip)
  PROVE  Turned(s, ch, c) = Turned(s, ch, "end")
<1>1. CASE s.skip
  BY <1>1 DEF Turned
<1>2. CASE ~s.skip /\ s.quoted
  BY <1>2 DEF Turned, Inside
<1>3. CASE ~s.skip /\ ~s.quoted
  <2>1. Turned(s, ch, c) = Outside(s, ch, c) /\ Turned(s, ch, "end") = Outside(s, ch, "end")
    BY <1>3 DEF Turned
  <2>2. CASE ch = "cr"
    <3>1. c # "lf"
      BY <1>3, <2>2
    <3>2. Outside(s, ch, c) = [EndRow(s) EXCEPT !.skip = (c = "lf")]
      BY <2>2 DEF Outside, Plain
    <3>3. Outside(s, ch, "end") = [EndRow(s) EXCEPT !.skip = ("end" = "lf")]
      BY <2>2 DEF Outside, Plain
    <3>4. (c = "lf") = ("end" = "lf")
      BY <3>1
    <3> QED
      BY <2>1, <3>2, <3>3, <3>4
  <2>3. CASE ch # "cr"
    BY <2>1, <2>3 DEF Outside, Plain, Letter
  <2> QED
    BY <2>2, <2>3
<1> QED
  BY <1>1, <1>2, <1>3, LoopFields

LEMMA NoSkip ==
  ASSUME NEW s \in Loop, NEW ch \in Letter
  PROVE  Turned(s, ch, "end").skip = FALSE
<1>1. CASE s.skip
  BY <1>1 DEF Turned, Loop
<1>2. CASE ~s.skip /\ s.quoted
  <2>1. s.skip = FALSE
    BY <1>2, LoopFields
  <2>2. Turned(s, ch, "end") = Inside(s, ch, "end")
    BY <1>2 DEF Turned
  <2> QED
    BY <2>1, <2>2 DEF Inside, Loop
<1>3. CASE ~s.skip /\ ~s.quoted
  <2>1. s.skip = FALSE
    BY <1>3, LoopFields
  <2>2. Turned(s, ch, "end") = Outside(s, ch, "end")
    BY <1>3 DEF Turned
  <2>3. CASE ch = "comma"
    <3> DEFINE t == [s EXCEPT !.content = TRUE]
    <3>1. t \in Loop /\ t.skip = FALSE
      BY <2>1 DEF Loop
    <3>2. Outside(s, ch, "end") = EndField(t)
      BY <2>3 DEF Outside, Plain
    <3> HIDE DEF t
    <3> QED
      BY <2>2, <3>1, <3>2, EndFieldType
  <2>4. CASE ch = "lf"
    BY <2>2, <2>4, EndRowType DEF Outside, Plain
  <2>5. CASE ch = "cr"
    <3>1. Outside(s, ch, "end") = [EndRow(s) EXCEPT !.skip = FALSE]
      BY <2>5 DEF Outside, Plain
    <3>2. EndRow(s) \in Loop
      BY EndRowType
    <3> QED
      BY <2>2, <3>1, <3>2 DEF Loop
  <2>6. CASE ch \in Plain \/ ch = "quote"
    BY <2>1, <2>2, <2>6 DEF Outside, Plain, Loop
  <2> QED
    BY <2>3, <2>4, <2>5, <2>6 DEF Letter
<1> QED
  BY <1>1, <1>2, <1>3, LoopFields

LEMMA TurnPlain ==
  ASSUME NEW s \in Loop, ~s.skip, ~s.quoted, NEW ch \in Plain, NEW t,
         t = Turned(s, ch, "end")
  PROVE  /\ t.rows = s.rows /\ t.row = s.row /\ t.field = Append(s.field, ch)
         /\ t.quoted = FALSE /\ t.content = (s.content \/ ch # "space")
<1>1. t = [s EXCEPT !.field = Append(@, ch), !.content = @ \/ ch # "space"]
  BY DEF Turned, Outside, Plain
<1>2. s.quoted = FALSE
  BY LoopFields
<1> QED
  BY <1>1, <1>2 DEF Loop

LEMMA TurnOpen ==
  ASSUME NEW s \in Loop, ~s.skip, ~s.quoted, NEW t, t = Turned(s, "quote", "end")
  PROVE  /\ t.rows = s.rows /\ t.row = s.row /\ t.field = s.field
         /\ t.quoted = TRUE /\ t.content = TRUE
<1>1. t = [s EXCEPT !.quoted = TRUE, !.content = TRUE]
  BY DEF Turned, Outside, Plain
<1> QED
  BY <1>1 DEF Loop

LEMMA TurnComma ==
  ASSUME NEW s \in Loop, ~s.skip, ~s.quoted, NEW t, t = Turned(s, "comma", "end")
  PROVE  /\ t.rows = s.rows /\ t.row = Append(s.row, s.field) /\ t.field = <<>>
         /\ t.quoted = FALSE /\ t.content = TRUE
<1> DEFINE v == [s EXCEPT !.content = TRUE]
<1>1. t = EndField(v)
  BY DEF Turned, Outside, Plain
<1>2. s.quoted = FALSE
  BY LoopFields
<1>3. v \in Loop /\ v.rows = s.rows /\ v.row = s.row /\ v.field = s.field /\ v.quoted = FALSE /\ v.content = TRUE
  BY <1>2 DEF Loop
<1> HIDE DEF v
<1> QED
  BY <1>1, <1>3, EndFieldType

LEMMA TurnBreak ==
  ASSUME NEW s \in Loop, ~s.skip, ~s.quoted, NEW ch \in {"lf", "cr"}, NEW t,
         t = Turned(s, ch, "end")
  PROVE  /\ t.rows = IF s.content THEN Append(s.rows, Append(s.row, s.field)) ELSE s.rows
         /\ t.row = <<>> /\ t.field = <<>> /\ t.quoted = FALSE /\ t.content = FALSE
<1>1. t = EndRow(s) \/ t = [EndRow(s) EXCEPT !.skip = FALSE]
  BY DEF Turned, Outside, Plain
<1> QED
  BY <1>1, EndRowType DEF Loop

LEMMA TurnInside ==
  ASSUME NEW s \in Loop, ~s.skip, s.quoted, NEW ch \in Letter \ {"quote"}, NEW t,
         t = Turned(s, ch, "end")
  PROVE  /\ t.rows = s.rows /\ t.row = s.row /\ t.field = Append(s.field, ch)
         /\ t.quoted = TRUE /\ t.content = s.content
<1>1. t = [s EXCEPT !.field = Append(@, ch)]
  BY DEF Turned, Inside
<1>2. s.quoted = TRUE
  BY LoopFields
<1> QED
  BY <1>1, <1>2 DEF Loop

LEMMA TurnClose ==
  ASSUME NEW s \in Loop, ~s.skip, s.quoted, NEW t, t = Turned(s, "quote", "end")
  PROVE  /\ t.rows = s.rows /\ t.row = s.row /\ t.field = s.field
         /\ t.quoted = FALSE /\ t.content = s.content
<1>1. t = [s EXCEPT !.quoted = FALSE]
  BY DEF Turned, Inside
<1> QED
  BY <1>1 DEF Loop

\* A quote turns the quoting on or off, and nothing else does.
LEMMA TurnQuoting ==
  ASSUME NEW s \in Loop, ~s.skip, NEW ch \in Letter
  PROVE  Turned(s, ch, "end").quoted = (s.quoted # (ch = "quote"))
<1> DEFINE t == Turned(s, ch, "end")
<1>1. s.quoted \in BOOLEAN
  BY LoopFields
<1>2. CASE s.quoted /\ ch = "quote"
  <2>1. t.quoted = FALSE
    BY <1>2, TurnClose
  <2> QED
    BY <1>2, <2>1
<1>3. CASE s.quoted /\ ch # "quote"
  <2>1. t.quoted = TRUE
    BY <1>3, TurnInside
  <2> QED
    BY <1>3, <2>1
<1>4. CASE ~s.quoted /\ ch = "quote"
  <2>1. t.quoted = TRUE
    BY <1>4, TurnOpen
  <2> QED
    BY <1>1, <1>4, <2>1
<1>5. CASE ~s.quoted /\ ch # "quote"
  <2>1. t.quoted = FALSE
    <3>1. CASE ch \in Plain
      BY <1>5, <3>1, TurnPlain
    <3>2. CASE ch = "comma"
      BY <1>5, <3>2, TurnComma
    <3>3. CASE ch \in {"lf", "cr"}
      BY <1>5, <3>3, TurnBreak
    <3> QED
      BY <1>5, <3>1, <3>2, <3>3 DEF Letter
  <2> QED
    BY <1>1, <1>5, <2>1
<1> QED
  BY <1>1, <1>2, <1>3, <1>4, <1>5

-----------------------------------------------------------------------------
(* One character more *)

LEMMA NowType ==
  ASSUME CsvInv, unread # "end"
  PROVE  Now \in Loop /\ Now.skip = FALSE
<1>1. reader \in Loop /\ unread \in Letter \cup {"none"}
  BY DEF CsvInv, CsvTypeOK
<1>2. CASE unread = "none"
  BY <1>1, <1>2 DEF CsvInv, Now, After, NewReader
<1>3. CASE unread \in Letter
  <2>1. Now = Turned(reader, unread, "end")
    BY <1>3 DEF Now, After, Letter, Plain
  <2> QED
    BY <1>1, <1>3, <2>1, TurnedType, NoSkip
<1> QED
  BY <1>1, <1>2, <1>3

\* But for the two pairs, the loop is where it was going whatever came next.
LEMMA PutNow ==
  ASSUME CsvInv, NEW c \in Letter, Put(c),
         ~(unread = "quote" /\ c = "quote" /\ reader.quoted /\ ~reader.skip),
         ~(unread = "cr" /\ c = "lf" /\ ~reader.quoted /\ ~reader.skip)
  PROVE  Now \in Loop /\ ~Now.skip /\ Now' = Turned(Now, c, "end")
<1>1. unread # "end" /\ unread' = c /\ reader' = After(c) /\ c # "none"
  BY DEF Put, After, Letter, Plain
<1>2. Now' = Turned(reader', c, "end")
  BY <1>1 DEF Now, After
<1>3. reader' = Now
  <2>1. CASE unread = "none"
    BY <1>1, <2>1 DEF Now, After
  <2>2. CASE unread # "none"
    <3>1. unread \in Letter /\ reader \in Loop
      BY <1>1, <2>2 DEF CsvInv, CsvTypeOK
    <3>2. Turned(reader, unread, c) = Turned(reader, unread, "end")
      BY <3>1, Ahead
    <3> QED
      BY <1>1, <2>2, <3>2 DEF Now, After
  <2> QED
    BY <2>1, <2>2
<1> QED
  BY <1>1, <1>2, <1>3, NowType

\* The second of two quotes is taken together with the first.
LEMMA PutQuotes ==
  ASSUME CsvInv, Put("quote"), unread = "quote", reader.quoted, ~reader.skip
  PROVE  /\ Now'.rows = Now.rows /\ Now'.row = Now.row
         /\ Now'.field = Append(Now.field, "quote") /\ Now'.quoted = TRUE
         /\ Now'.content = Now.content /\ Now.quoted = FALSE
<1>1. reader \in Loop /\ reader.quoted = TRUE /\ reader.skip = FALSE
  <2>1. reader \in Loop
    BY DEF CsvInv, CsvTypeOK
  <2> QED
    BY <2>1, LoopFields
<1>2. Now = [reader EXCEPT !.quoted = FALSE]
  BY DEF Now, After, Turned, Inside
<1>3. reader' = [reader EXCEPT !.field = Append(@, "quote"), !.skip = TRUE] /\ unread' = "quote"
  BY DEF Put, Turned, Inside
<1>4. reader'.skip = TRUE
  BY <1>1, <1>3 DEF Loop
<1>5. Now' = [reader' EXCEPT !.skip = FALSE]
  BY <1>3, <1>4 DEF Now, After, Turned
<1>6. /\ Now.rows = reader.rows /\ Now.row = reader.row /\ Now.field = reader.field
      /\ Now.content = reader.content /\ Now.quoted = FALSE
  BY <1>1, <1>2 DEF Loop
<1>7. reader' \in Loop
  <2>1. Append(reader.field, "quote") \in Seq(Letter)
    BY <1>1 DEF Loop, Letter
  <2> QED
    BY <1>1, <1>3, <2>1 DEF Loop
<1>8. /\ reader'.rows = reader.rows /\ reader'.row = reader.row
      /\ reader'.field = Append(reader.field, "quote") /\ reader'.content = reader.content
      /\ reader'.quoted = TRUE
  BY <1>1, <1>3 DEF Loop
<1>9. /\ Now'.rows = reader'.rows /\ Now'.row = reader'.row /\ Now'.field = reader'.field
      /\ Now'.content = reader'.content /\ Now'.quoted = reader'.quoted
  BY <1>5, <1>7 DEF Loop
<1> QED
  BY <1>6, <1>8, <1>9

\* The line feed after a carriage return changes nothing.
LEMMA PutBreak ==
  ASSUME CsvInv, Put("lf"), unread = "cr", ~reader.quoted, ~reader.skip
  PROVE  /\ Now'.rows = Now.rows /\ Now'.row = Now.row /\ Now'.field = Now.field
         /\ Now'.quoted = Now.quoted /\ Now'.content = Now.content /\ Now.quoted = FALSE
<1>1. reader \in Loop
  BY DEF CsvInv, CsvTypeOK
<1> DEFINE t == EndRow(reader)
<1>2. t \in Loop /\ t.quoted = FALSE /\ t.skip = FALSE
  BY <1>1, EndRowType
<1>3. Now = [t EXCEPT !.skip = ("end" = "lf")]
  BY DEF Now, After, Turned, Outside, Plain
<1>4. reader' = [t EXCEPT !.skip = TRUE] /\ unread' = "lf"
  BY DEF Put, Turned, Outside, Plain
<1> HIDE DEF t
<1>5. reader' \in Loop /\ reader'.skip = TRUE
  BY <1>2, <1>4 DEF Loop
<1>6. Now' = [reader' EXCEPT !.skip = FALSE]
  BY <1>4, <1>5 DEF Now, After, Turned
<1>7. /\ Now.rows = t.rows /\ Now.row = t.row /\ Now.field = t.field
      /\ Now.content = t.content /\ Now.quoted = t.quoted
  BY <1>2, <1>3 DEF Loop
<1>8. /\ reader'.rows = t.rows /\ reader'.row = t.row /\ reader'.field = t.field
      /\ reader'.content = t.content /\ reader'.quoted = t.quoted
  BY <1>2, <1>4 DEF Loop
<1>9. /\ Now'.rows = reader'.rows /\ Now'.row = reader'.row /\ Now'.field = reader'.field
      /\ Now'.content = reader'.content /\ Now'.quoted = reader'.quoted
  BY <1>5, <1>6 DEF Loop
<1> QED
  BY <1>2, <1>7, <1>8, <1>9

\* Whoever writes, the loop is within quotes after an odd number of them.
LEMMA PutParity ==
  ASSUME CsvInv, NEW c \in Letter, Put(c)
  PROVE  odd' <=> Now'.quoted
<1>1. /\ unread # "end" /\ odd' = (odd # (c = "quote")) /\ odd \in BOOLEAN
      /\ reader.quoted \in BOOLEAN /\ reader.skip \in BOOLEAN
  <2>1. reader \in Loop
    BY DEF CsvInv, CsvTypeOK
  <2> QED
    BY <2>1, LoopFields DEF Put, CsvInv, CsvTypeOK
<1>2. odd <=> Now.quoted
  BY <1>1 DEF CsvInv
<1>3. CASE unread = "quote" /\ c = "quote" /\ reader.quoted /\ ~reader.skip
  <2>1. Now'.quoted = TRUE /\ Now.quoted = FALSE
    BY <1>3, PutQuotes
  <2> QED
    BY <1>1, <1>2, <1>3, <2>1
<1>4. CASE unread = "cr" /\ c = "lf" /\ ~reader.quoted /\ ~reader.skip
  <2>1. Now'.quoted = FALSE /\ Now.quoted = FALSE
    BY <1>4, PutBreak
  <2> QED
    BY <1>1, <1>2, <1>4, <2>1
<1>5. CASE /\ ~(unread = "quote" /\ c = "quote" /\ reader.quoted /\ ~reader.skip)
           /\ ~(unread = "cr" /\ c = "lf" /\ ~reader.quoted /\ ~reader.skip)
  <2>1. Now \in Loop /\ ~Now.skip /\ Now' = Turned(Now, c, "end")
    BY <1>5, PutNow
  <2>2. Now'.quoted = (Now.quoted # (c = "quote"))
    BY <2>1, TurnQuoting
  <2>3. Now.quoted \in BOOLEAN
    BY <2>1, LoopFields
  <2> QED
    BY <1>1, <1>2, <2>2, <2>3
<1> QED
  BY <1>3, <1>4, <1>5

LEMMA PutInv ==
  ASSUME CsvInv, NEW c \in Letter, Put(c), sheet' \in Sheet, pen' \in Pens, wild' \in Nat,
         pen' # "wild" => Read(Now)' /\ LastChar'
  PROVE  CsvInv'
<1>1. /\ unread # "end" /\ unread' = c /\ c \notin {"none", "end"}
      /\ reader' = After(c) /\ answer' = answer /\ break' = break /\ odd' = (odd # (c = "quote"))
  BY DEF Put, After, Letter, Plain
<1>2. odd' <=> Now'.quoted
  BY PutParity
<1>3. reader' \in Loop
  <2>1. reader \in Loop /\ unread \in Letter \cup {"none"}
    BY <1>1 DEF CsvInv, CsvTypeOK
  <2>2. CASE unread = "none"
    BY <1>1, <2>1, <2>2 DEF After
  <2>3. CASE unread # "none"
    BY <1>1, <2>1, <2>3, TurnedType DEF After
  <2> QED
    BY <2>2, <2>3
<1>4. odd' \in BOOLEAN
  BY <1>1
<1>5. CsvTypeOK'
  BY <1>1, <1>3, <1>4 DEF CsvInv, CsvTypeOK
<1>6. ~answer'.given
  BY <1>1 DEF CsvInv
<1> QED
  BY <1>1, <1>2, <1>5, <1>6 DEF CsvInv

-----------------------------------------------------------------------------
(* The writer's table *)

LEMMA InkAppended ==
  ASSUME NEW cell \in Seq(Letter), NEW c \in Letter
  PROVE  (\E i \in DOMAIN Append(cell, c) : Append(cell, c)[i] # "space")
           <=> (\E i \in DOMAIN cell : cell[i] # "space") \/ c # "space"
<1>1. /\ Len(cell) \in Nat /\ DOMAIN cell = 1 .. Len(cell)
      /\ DOMAIN Append(cell, c) = 1 .. Len(cell) + 1
      /\ \A i \in 1 .. Len(cell) : Append(cell, c)[i] = cell[i]
      /\ Append(cell, c)[Len(cell) + 1] = c
  OBVIOUS
<1>2. 1 .. Len(cell) + 1 = 1 .. Len(cell) \cup {Len(cell) + 1}
  BY <1>1
<1> QED
  BY <1>1, <1>2, Zenon

LEMMA SheetFields ==
  ASSUME CsvInv
  PROVE  /\ sheet \in Sheet /\ sheet.rows \in Seq(Seq(Seq(Letter)))
         /\ sheet.row \in Seq(Seq(Letter)) /\ sheet.cell \in Seq(Letter)
BY DEF CsvInv, CsvTypeOK, Sheet

LEMMA IntoCell ==
  ASSUME CsvInv, NEW c \in Letter, Into(c)
  PROVE  /\ sheet' \in Sheet /\ sheet'.rows = sheet.rows /\ sheet'.row = sheet.row
         /\ sheet'.cell = Append(sheet.cell, c)
<1>1. Append(sheet.cell, c) \in Seq(Letter)
  BY SheetFields
<1> QED
  BY <1>1, SheetFields DEF Into, Sheet

LEMMA Rows ==
  ASSUME CsvInv, NEW is \in BOOLEAN, sheet' = [Blank EXCEPT !.rows = RowsWith(is)]
  PROVE  /\ sheet' \in Sheet /\ sheet'.rows = RowsWith(is)
         /\ sheet'.row = <<>> /\ sheet'.cell = <<>>
<1>1. RowsWith(is) \in Seq(Seq(Seq(Letter)))
  <2>1. Append(sheet.row, sheet.cell) \in Seq(Seq(Letter))
    BY SheetFields
  <2> QED
    BY <2>1, SheetFields DEF RowsWith
<1>2. <<>> \in Seq(Letter) /\ <<>> \in Seq(Seq(Letter))
  OBVIOUS
<1> QED
  BY <1>1, <1>2 DEF Blank, Sheet

-----------------------------------------------------------------------------
(* Every action preserves the invariant *)

LEMMA TableFacts ==
  ASSUME CsvInv, pen # "wild", unread # "end"
  PROVE  /\ Read(Now) /\ LastChar /\ Now \in Loop /\ Now.skip = FALSE
         /\ wild \in Nat /\ pen \in Pens /\ reader.quoted \in BOOLEAN /\ reader.skip \in BOOLEAN
BY NowType DEF CsvInv, CsvTypeOK, Loop

LEMMA WritePlainInv ==
  ASSUME CsvInv, NEW c \in Plain, WritePlain(c)
  PROVE  CsvInv'
<1>1. /\ pen \in {"start", "plain"} /\ Put(c) /\ Into(c) /\ pen' = "plain" /\ wild' = wild
      /\ c \in Letter /\ c \notin {"quote", "lf"} /\ unread # "end" /\ unread' = c
  BY DEF WritePlain, Put, Letter, Plain
<1>2. Read(Now) /\ LastChar /\ Now \in Loop /\ wild \in Nat
  BY <1>1, TableFacts
<1>3. ~Now.skip /\ Now' = Turned(Now, c, "end")
  BY <1>1, PutNow
<1>4. ~Now.quoted /\ Now.content = (sheet.row # <<>> \/ \E i \in DOMAIN sheet.cell : sheet.cell[i] # "space")
  BY <1>1, <1>2 DEF Read, Seen
<1>5. /\ Now'.rows = Now.rows /\ Now'.row = Now.row /\ Now'.field = Append(Now.field, c)
      /\ Now'.quoted = FALSE /\ Now'.content = (Now.content \/ c # "space")
  BY <1>2, <1>3, <1>4, TurnPlain
<1>6. /\ sheet' \in Sheet /\ sheet'.rows = sheet.rows /\ sheet'.row = sheet.row
      /\ sheet'.cell = Append(sheet.cell, c)
  BY <1>1, IntoCell
<1>7. (\E i \in DOMAIN sheet'.cell : sheet'.cell[i] # "space")
        <=> (\E i \in DOMAIN sheet.cell : sheet.cell[i] # "space") \/ c # "space"
  BY <1>1, <1>6, SheetFields, InkAppended
<1>8. Seen' <=> Now'.content
  BY <1>1, <1>4, <1>5, <1>6, <1>7, Zenon DEF Seen
<1>9. Now'.content \in BOOLEAN /\ Seen' \in BOOLEAN
  BY <1>4, <1>5 DEF Seen
<1>10. Read(Now)'
  <2>1. Now'.content = (pen' \in {"quoted", "double"} \/ Seen')
    BY <1>1, <1>8, <1>9
  <2> QED
    BY <1>1, <1>2, <1>5, <1>6, <2>1 DEF Read
<1>11. LastChar'
  BY <1>1 DEF LastChar
<1> QED
  BY <1>1, <1>2, <1>6, <1>10, <1>11, PutInv DEF Pens

LEMMA OpenQuoteInv ==
  ASSUME CsvInv, OpenQuote
  PROVE  CsvInv'
<1>1. /\ pen = "start" /\ Put("quote") /\ pen' = "quoted" /\ wild' = wild /\ sheet' = sheet
      /\ "quote" \in Letter /\ unread # "end" /\ unread' = "quote"
  BY DEF OpenQuote, Put, Letter
<1>2. Read(Now) /\ LastChar /\ Now \in Loop /\ wild \in Nat
  BY <1>1, TableFacts
<1>3. unread # "quote"
  BY <1>1, <1>2 DEF LastChar
<1>4. ~Now.skip /\ Now' = Turned(Now, "quote", "end")
  BY <1>1, <1>3, PutNow
<1>5. ~Now.quoted
  BY <1>1, <1>2 DEF Read
<1>6. /\ Now'.rows = Now.rows /\ Now'.row = Now.row /\ Now'.field = Now.field
      /\ Now'.quoted = TRUE /\ Now'.content = TRUE
  BY <1>2, <1>4, <1>5, TurnOpen
<1>7. Read(Now)'
  BY <1>1, <1>2, <1>6 DEF Read
<1>8. LastChar'
  BY <1>1 DEF LastChar
<1> QED
  BY <1>1, <1>2, <1>7, <1>8, SheetFields, PutInv DEF Pens

\* Within quotes the last character was not a quote the loop takes for the end.
LEMMA StillQuoted ==
  ASSUME CsvInv, pen = "quoted", unread # "end"
  PROVE  /\ Now.quoted = TRUE /\ Now.content = TRUE
         /\ ~(unread = "quote" /\ reader.quoted /\ ~reader.skip)
         /\ ~(unread = "cr" /\ ~reader.quoted /\ ~reader.skip)
<1>1. Now.quoted = TRUE /\ Now.content = TRUE
  BY TableFacts DEF Read
<1>2. reader \in Loop
  BY DEF CsvInv, CsvTypeOK
<1>3. ASSUME unread = "quote", reader.quoted, ~reader.skip PROVE FALSE
  <2>1. Now = Turned(reader, "quote", "end")
    BY <1>3 DEF Now, After
  <2> QED
    BY <1>1, <1>2, <1>3, <2>1, TurnClose
<1>4. ASSUME unread = "cr", ~reader.quoted, ~reader.skip PROVE FALSE
  <2>1. Now = Turned(reader, "cr", "end")
    BY <1>4 DEF Now, After
  <2>2. Now.quoted = FALSE
    BY <1>2, <1>4, <2>1, TurnBreak
  <2> QED
    BY <1>1, <2>2
<1> QED
  BY <1>1, <1>3, <1>4

LEMMA WriteQuotedInv ==
  ASSUME CsvInv, NEW c \in Letter \ {"quote"}, WriteQuoted(c)
  PROVE  CsvInv'
<1>1. /\ pen = "quoted" /\ Put(c) /\ Into(c) /\ pen' = "quoted" /\ wild' = wild
      /\ unread # "end" /\ unread' = c
  BY DEF WriteQuoted, Put
<1>2. Read(Now) /\ Now \in Loop /\ wild \in Nat
  BY <1>1, TableFacts
<1>3. ~Now.skip /\ Now' = Turned(Now, c, "end")
  BY <1>1, StillQuoted, PutNow
<1>4. Now.quoted = TRUE /\ Now.content = TRUE
  BY <1>1, StillQuoted
<1>5. /\ Now'.rows = Now.rows /\ Now'.row = Now.row /\ Now'.field = Append(Now.field, c)
      /\ Now'.quoted = TRUE /\ Now'.content = TRUE
  BY <1>2, <1>3, <1>4, TurnInside
<1>6. /\ sheet' \in Sheet /\ sheet'.rows = sheet.rows /\ sheet'.row = sheet.row
      /\ sheet'.cell = Append(sheet.cell, c)
  BY <1>1, IntoCell
<1>7. Read(Now)'
  BY <1>1, <1>2, <1>5, <1>6 DEF Read
<1>8. LastChar'
  BY <1>1 DEF LastChar
<1> QED
  BY <1>1, <1>2, <1>6, <1>7, <1>8, PutInv DEF Pens

\* A quote within quotes, the first half of two or the end of the quoting.
LEMMA QuoteInv ==
  ASSUME CsvInv, HalfQuote \/ CloseQuote
  PROVE  CsvInv'
<1>1. /\ pen = "quoted" /\ Put("quote") /\ pen' \in {"double", "closed"} /\ wild' = wild
      /\ sheet' = sheet /\ "quote" \in Letter /\ unread # "end" /\ unread' = "quote"
  BY DEF HalfQuote, CloseQuote, Put, Letter
<1>2. Read(Now) /\ Now \in Loop /\ wild \in Nat
  BY <1>1, TableFacts
<1>3. ~Now.skip /\ Now' = Turned(Now, "quote", "end")
  BY <1>1, StillQuoted, PutNow
<1>4. Now.quoted = TRUE /\ Now.content = TRUE
  BY <1>1, StillQuoted
<1>5. /\ Now'.rows = Now.rows /\ Now'.row = Now.row /\ Now'.field = Now.field
      /\ Now'.quoted = FALSE /\ Now'.content = TRUE
  BY <1>2, <1>3, <1>4, TurnClose
<1>6. Read(Now)'
  BY <1>1, <1>2, <1>5 DEF Read, Seen
<1>7. reader' = Now
  <2>1. reader' = After("quote")
    BY <1>1 DEF Put, After
  <2>2. CASE unread = "none"
    BY <2>1, <2>2 DEF After, Now
  <2>3. CASE unread # "none"
    <3>1. unread \in Letter /\ reader \in Loop
      BY <1>1, <2>3 DEF CsvInv, CsvTypeOK
    <3>2. Turned(reader, unread, "quote") = Turned(reader, unread, "end")
      BY <1>1, <3>1, StillQuoted, Ahead
    <3> QED
      BY <2>1, <2>3, <3>2 DEF After, Now
  <2> QED
    BY <2>2, <2>3
<1>8. LastChar'
  BY <1>1, <1>3, <1>4, <1>7 DEF LastChar
<1> QED
  BY <1>1, <1>2, <1>6, <1>8, SheetFields, PutInv DEF Pens

LEMMA OtherHalfInv ==
  ASSUME CsvInv, OtherHalf
  PROVE  CsvInv'
<1>1. /\ pen = "double" /\ Put("quote") /\ Into("quote") /\ pen' = "quoted" /\ wild' = wild
      /\ "quote" \in Letter /\ unread # "end" /\ unread' = "quote"
  BY DEF OtherHalf, Put, Letter
<1>2. Read(Now) /\ LastChar /\ wild \in Nat
  BY <1>1, TableFacts
<1>3. unread = "quote" /\ reader.quoted /\ ~reader.skip
  BY <1>1, <1>2 DEF LastChar
<1>4. /\ Now'.rows = Now.rows /\ Now'.row = Now.row /\ Now'.field = Append(Now.field, "quote")
      /\ Now'.quoted = TRUE /\ Now'.content = Now.content
  BY <1>1, <1>3, PutQuotes
<1>5. Now.content = TRUE
  BY <1>1, <1>2 DEF Read
<1>6. /\ sheet' \in Sheet /\ sheet'.rows = sheet.rows /\ sheet'.row = sheet.row
      /\ sheet'.cell = Append(sheet.cell, "quote")
  BY <1>1, IntoCell
<1>7. Read(Now)'
  BY <1>1, <1>2, <1>4, <1>5, <1>6 DEF Read
<1>8. LastChar'
  BY <1>1 DEF LastChar
<1> QED
  BY <1>1, <1>2, <1>6, <1>7, <1>8, PutInv DEF Pens

\* Between cells the loop is not within quotes, and knows what it has seen.
LEMMA AtCellEndFacts ==
  ASSUME CsvInv, AtCellEnd, unread # "end"
  PROVE  /\ Read(Now) /\ LastChar /\ Now \in Loop /\ wild \in Nat
         /\ Now.quoted = FALSE /\ Now.content = Seen /\ pen # "wild"
<1>1. pen \in {"start", "plain", "closed"}
  BY DEF AtCellEnd
<1>2. Read(Now) /\ LastChar /\ Now \in Loop /\ wild \in Nat
  BY <1>1, TableFacts
<1>3. Seen \in BOOLEAN
  BY DEF Seen
<1> QED
  BY <1>1, <1>2, <1>3 DEF Read

LEMMA NextCellInv ==
  ASSUME CsvInv, NextCell
  PROVE  CsvInv'
<1>1. /\ AtCellEnd /\ Put("comma") /\ pen' = "start" /\ wild' = wild
      /\ sheet' = [sheet EXCEPT !.row = Append(@, sheet.cell), !.cell = <<>>]
      /\ "comma" \in Letter /\ unread # "end" /\ unread' = "comma"
  BY DEF NextCell, Put, Letter
<1>2. /\ Read(Now) /\ Now \in Loop /\ wild \in Nat /\ Now.quoted = FALSE
  BY <1>1, AtCellEndFacts
<1>3. ~Now.skip /\ Now' = Turned(Now, "comma", "end")
  BY <1>1, PutNow
<1>4. /\ Now'.rows = Now.rows /\ Now'.row = Append(Now.row, Now.field) /\ Now'.field = <<>>
      /\ Now'.quoted = FALSE /\ Now'.content = TRUE
  BY <1>2, <1>3, TurnComma
<1>5. Append(sheet.row, sheet.cell) \in Seq(Seq(Letter)) /\ Append(sheet.row, sheet.cell) # <<>>
  <2>1. sheet.row \in Seq(Seq(Letter)) /\ sheet.cell \in Seq(Letter)
    BY SheetFields
  <2>2. \A q \in Seq(Seq(Letter)), x \in Seq(Letter) :
           Append(q, x) \in Seq(Seq(Letter)) /\ Len(Append(q, x)) = Len(q) + 1 /\ Len(q) \in Nat
    OBVIOUS
  <2>3. Len(Append(sheet.row, sheet.cell)) # 0
    BY <2>1, <2>2
  <2> QED
    BY <2>1, <2>2, <2>3
<1>6. /\ sheet' \in Sheet /\ sheet'.rows = sheet.rows
      /\ sheet'.row = Append(sheet.row, sheet.cell) /\ sheet'.cell = <<>>
  <2>1. <<>> \in Seq(Letter) /\ sheet \in Sheet
    BY SheetFields
  <2> QED
    BY <1>1, <1>5, <2>1 DEF Sheet
<1>7. Read(Now)'
  BY <1>1, <1>2, <1>4, <1>5, <1>6 DEF Read, Seen
<1>8. LastChar'
  BY <1>1, <1>6 DEF LastChar
<1> QED
  BY <1>1, <1>2, <1>6, <1>7, <1>8, PutInv DEF Pens

LEMMA EndLineInv ==
  ASSUME CsvInv, EndLine
  PROVE  CsvInv'
<1> DEFINE c == IF break = "lf" THEN "lf" ELSE "cr"
<1>1. /\ AtCellEnd /\ Put(c) /\ wild' = wild /\ break' = break
      /\ pen' = (IF break = "crlf" THEN "feed" ELSE "start")
      /\ sheet' = [Blank EXCEPT !.rows = RowsWith(Seen)]
      /\ c \in Letter /\ c \in {"lf", "cr"} /\ unread # "end" /\ unread' = c
      /\ break \in {"lf", "cr", "crlf"}
  BY DEF EndLine, Put, Letter, CsvInv, CsvTypeOK
<1>2. /\ Read(Now) /\ LastChar /\ Now \in Loop /\ wild \in Nat
      /\ Now.quoted = FALSE /\ Now.content = Seen
  BY <1>1, AtCellEndFacts
<1>3. ~(unread = "cr" /\ c = "lf") /\ c # "quote"
  BY <1>1, <1>2 DEF LastChar, AtCellEnd, Plain
<1>4. ~Now.skip /\ Now' = Turned(Now, c, "end")
  BY <1>1, <1>3, PutNow
<1>5. /\ Now'.rows = IF Now.content THEN Append(Now.rows, Append(Now.row, Now.field)) ELSE Now.rows
      /\ Now'.row = <<>> /\ Now'.field = <<>> /\ Now'.quoted = FALSE /\ Now'.content = FALSE
  BY <1>1, <1>2, <1>4, TurnBreak
<1>6. Seen \in BOOLEAN
  BY DEF Seen
<1>7. /\ sheet' \in Sheet /\ sheet'.rows = RowsWith(Seen)
      /\ sheet'.row = <<>> /\ sheet'.cell = <<>>
  BY <1>1, <1>6, Rows
<1>8. Now'.rows = sheet'.rows
  BY <1>2, <1>5, <1>7 DEF Read, RowsWith
<1>9. Read(Now)'
  <2>1. ~Seen'
    BY <1>1, <1>7 DEF Seen
  <2>2. Now'.content = (pen' \in {"quoted", "double"} \/ Seen') /\ Now'.quoted = (pen' = "quoted")
    BY <1>1, <1>5, <2>1
  <2> QED
    BY <1>5, <1>7, <1>8, <2>2 DEF Read
<1>10. LastChar'
  BY <1>1, <1>7 DEF LastChar
<1> QED
  BY <1>1, <1>2, <1>7, <1>9, <1>10, PutInv DEF Pens

LEMMA LineFeedInv ==
  ASSUME CsvInv, LineFeed
  PROVE  CsvInv'
<1>1. /\ pen = "feed" /\ Put("lf") /\ pen' = "start" /\ wild' = wild /\ sheet' = sheet
      /\ "lf" \in Letter /\ unread # "end" /\ unread' = "lf" /\ break' = break
  BY DEF LineFeed, Put, Letter
<1>2. /\ Read(Now) /\ LastChar /\ Now \in Loop /\ wild \in Nat
  BY <1>1, TableFacts
<1>3. sheet.row = <<>> /\ sheet.cell = <<>> /\ unread = "cr"
  BY <1>1, <1>2 DEF LastChar
<1>4. ~Seen
  BY <1>1, <1>3 DEF Seen
<1>5. Now.quoted = FALSE /\ Now.content = FALSE
  BY <1>1, <1>2, <1>4 DEF Read
<1>6. /\ Now'.rows = Now.rows /\ Now'.row = Now.row /\ Now'.field = Now.field
      /\ Now'.quoted = FALSE /\ Now'.content = FALSE
  <2>1. CASE ~reader.quoted /\ ~reader.skip
    BY <1>1, <1>3, <1>5, <2>1, PutBreak
  <2>2. CASE ~(~reader.quoted /\ ~reader.skip)
    <3>1. ~Now.skip /\ Now' = Turned(Now, "lf", "end")
      BY <1>1, <2>2, PutNow
    <3> QED
      BY <1>2, <1>3, <1>5, <3>1, TurnBreak DEF Read
  <2> QED
    BY <2>1, <2>2
<1>7. Read(Now)'
  <2>1. ~Seen'
    BY <1>1, <1>3 DEF Seen
  <2> QED
    BY <1>1, <1>2, <1>6, <2>1 DEF Read
<1>8. LastChar'
  BY <1>1, <1>3 DEF LastChar
<1> QED
  BY <1>1, <1>2, <1>7, <1>8, SheetFields, PutInv DEF Pens

\* At the end of the file the loop turns on the last character.
LEMMA AtEnd ==
  ASSUME CsvInv, Put("end")
  PROVE  /\ reader' = Now /\ unread' = "end" /\ odd' = odd /\ Now \in Loop
         /\ odd <=> Now.quoted
         /\ answer' = answer /\ ~answer.given /\ break' = break /\ unread # "end"
<1>1. unread # "end" /\ unread' = "end" /\ answer' = answer /\ break' = break
  BY DEF Put
<1>2. odd' = odd
  BY DEF Put, CsvInv, CsvTypeOK
<1>3. reader' = Now
  BY DEF Put, Now, After
<1> QED
  BY <1>1, <1>2, <1>3, NowType DEF CsvInv

LEMMA EndTableInv ==
  ASSUME CsvInv, EndTable
  PROVE  CsvInv'
<1> DEFINE is == Seen /\ (sheet.row # <<>> \/ sheet.cell # <<>>)
<1>1. /\ AtCellEnd /\ Put("end") /\ pen' = pen /\ wild' = wild
      /\ sheet' = [Blank EXCEPT !.rows = RowsWith(is)]
  BY DEF EndTable
<1>2. /\ reader' = Now /\ unread' = "end" /\ odd' = odd /\ (odd <=> Now.quoted)
      /\ answer' = answer /\ ~answer.given /\ break' = break /\ unread # "end"
  BY <1>1, AtEnd
<1>3. /\ Read(Now) /\ Now \in Loop /\ Now.quoted = FALSE /\ Now.content = Seen
  BY <1>1, <1>2, AtCellEndFacts
<1>4. is \in BOOLEAN
  BY DEF Seen
<1>5. sheet' \in Sheet /\ sheet'.rows = RowsWith(is)
  BY <1>1, <1>4, Rows
<1>6. ParseRows(reader') = sheet'.rows
  <2>1. EndRow(Now).rows = IF Seen THEN Append(sheet.rows, Append(sheet.row, sheet.cell)) ELSE sheet.rows
    BY <1>3, EndRowType DEF Read
  <2> QED
    BY <1>2, <1>3, <1>5, <2>1 DEF ParseRows, RowsWith, Read
<1>7. CsvTypeOK'
  BY <1>1, <1>2, <1>3, <1>5 DEF CsvInv, CsvTypeOK
<1> QED
  BY <1>2, <1>3, <1>6, <1>7 DEF CsvInv

LEMMA EndTextInv ==
  ASSUME CsvInv, EndText
  PROVE  CsvInv'
<1>1. pen = "wild" /\ Put("end") /\ pen' = pen /\ wild' = wild /\ sheet' = sheet
  BY DEF EndText
<1>2. /\ reader' = Now /\ unread' = "end" /\ odd' = odd /\ (odd <=> Now.quoted) /\ Now \in Loop
      /\ answer' = answer /\ ~answer.given /\ break' = break /\ unread # "end"
  BY <1>1, AtEnd
<1>3. CsvTypeOK'
  BY <1>1, <1>2 DEF CsvInv, CsvTypeOK
<1> QED
  BY <1>1, <1>2, <1>3 DEF CsvInv

LEMMA WriteAnythingInv ==
  ASSUME CsvInv, NEW c \in Letter, WriteAnything(c)
  PROVE  CsvInv'
<1>1. Put(c) /\ pen' = "wild" /\ sheet' = sheet /\ wild' = wild + 1
  BY DEF WriteAnything
<1>2. wild' \in Nat
  BY <1>1 DEF CsvInv, CsvTypeOK
<1> QED
  BY <1>1, <1>2, SheetFields, PutInv DEF Pens

LEMMA AnswerInv ==
  ASSUME CsvInv, Answer
  PROVE  CsvInv'
<1>1. /\ unread = "end" /\ sheet' = sheet /\ break' = break /\ pen' = pen /\ odd' = odd
      /\ wild' = wild /\ unread' = unread /\ reader' = reader
      /\ answer'.given = TRUE /\ answer'.refused = reader.quoted
      /\ answer'.urls = IF reader.quoted THEN <<>> ELSE UrlsOf(ParseRows(reader))
  BY DEF Answer
<1>2. CsvTypeOK'
  BY <1>1 DEF CsvInv, CsvTypeOK
<1> QED
  BY <1>1, <1>2 DEF CsvInv

LEMMA CsvStep ==
  ASSUME CsvInv, [CsvNext]_csvVars
  PROVE  CsvInv'
<1>1. CASE UNCHANGED csvVars
  BY <1>1 DEF csvVars, CsvInv, CsvTypeOK, Now, After, Read, LastChar, Seen
<1>2. CASE CsvNext
  BY <1>2, WritePlainInv, OpenQuoteInv, WriteQuotedInv, QuoteInv, OtherHalfInv, NextCellInv,
     EndLineInv, LineFeedInv, EndTableInv, WriteAnythingInv, EndTextInv, AnswerInv DEF CsvNext
<1> QED
  BY <1>1, <1>2

LEMMA CsvStart == CsvInit => CsvInv
<1> SUFFICES ASSUME CsvInit PROVE CsvInv
  OBVIOUS
<1>1. CsvTypeOK
  <2>1. \A S : <<>> \in Seq(S)
    OBVIOUS
  <2>2. sheet \in Sheet
    BY <2>1 DEF CsvInit, Sheet, Blank
  <2>3. reader \in Loop
    BY <2>1 DEF CsvInit, Loop, NewReader
  <2> QED
    BY <2>2, <2>3 DEF CsvInit, CsvTypeOK, Pens, NoAnswer
<1>2. Now = NewReader
  BY DEF CsvInit, Now, After
<1>3. ~Seen
  BY DEF CsvInit, Seen, Blank
<1>4. Read(Now) /\ LastChar
  BY <1>2, <1>3 DEF CsvInit, Read, LastChar, NewReader, Blank
<1> QED
  BY <1>1, <1>2, <1>4 DEF CsvInit, CsvInv, NewReader, NoAnswer

\* csv.ts:4-17: a file gives the URLs of the table it was written from, and is
\* refused if and only if its quotes do not pair.
THEOREM ParserKeepsTables == CsvSpec => []CsvKeepsTable
<1>1. CsvInit => CsvInv
  BY CsvStart
<1>2. CsvInv /\ [CsvNext]_csvVars => CsvInv'
  BY CsvStep
<1>3. CsvInv => CsvKeepsTable
  BY DEF CsvInv, CsvKeepsTable, CsvTypeOK, Loop
<1> QED
  BY <1>1, <1>2, <1>3, PTL DEF CsvSpec

=============================================================================
