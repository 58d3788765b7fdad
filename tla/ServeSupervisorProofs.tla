------------------------- MODULE ServeSupervisorProofs -------------------------
(***************************************************************************)
(* CleanStop and OwnContainer for any number of runs, with any docker      *)
(* command failing anywhere.                                               *)
(*                                                                         *)
(* Neither is inductive.  CleanStop needs what a run has done by the time  *)
(* it stops (Stopping), that a run which serves has had a Bun (Serving),   *)
(* that a run which ended never acts again (Working), and that the runs    *)
(* whose docker rm failed are only ever added to.  OwnContainer needs      *)
(* that the history is one of sets of runs.                                *)
(***************************************************************************)
EXTENDS ServeSupervisor, TLAPS

PcType == pc \in [Run -> {"off", "remove", "run", "spawn", "serve", "stop"}]
CodeType == code \in [Run -> {"none", "0", "1", "crashed", "killed"}]
TailType == tail \in [Run -> BOOLEAN]
BunType == bun \in [Run -> {"none", "up", "told", "gone"}]
SinceType == since \in [Run -> SUBSET Run]
KeptType == kept \in SUBSET Run
Types == PcType /\ CodeType /\ TailType /\ BunType /\ SinceType /\ KeptType

Working == \A r \in Run : pc[r] # "off" => code[r] = "none"
Serving == \A r \in Run : pc[r] = "serve" => bun[r] # "none"
Stopping == \A r \in Run : pc[r] = "stop" => ~tail[r] /\ bun[r] \in {"told", "gone"}
IInv == Types /\ Working /\ Serving /\ Stopping /\ CleanStop /\ OwnContainer

-----------------------------------------------------------------------------
\* The initial states satisfy the invariant.
LEMMA InitInv == Init => IInv
BY DEF Init, IInv, Types, PcType, CodeType, TailType, BunType, SinceType, KeptType,
       Working, Serving, Stopping, CleanStop, OwnContainer

\* Every step keeps the shape of the state.
LEMMA TypesStep == IInv /\ [Next]_vars => Types'
<1> SUFFICES ASSUME IInv, [Next]_vars PROVE Types'
  OBVIOUS
<1> USE DEF IInv, Types, PcType, CodeType, TailType, BunType, SinceType, KeptType, children, container
<1>1. CASE UNCHANGED vars
  BY <1>1 DEF vars
<1>2. CASE ContainerDies
  BY <1>2 DEF ContainerDies
<1>3. ASSUME NEW r \in Run, Steps(r) PROVE Types'
  <2>1. CASE Start(r)       BY <2>1 DEF Start, Goes
  <2>2. CASE RemoveOld(r)   BY <2>2 DEF RemoveOld, Removed, NotRemoved, Goes
  <2>3. CASE DockerRun(r)   BY <2>3 DEF DockerRun, Takes, Goes
  <2>4. CASE DockerFails(r) BY <2>4 DEF DockerFails, Attempt, Takes, Ends, Goes
  <2>5. CASE SpawnChildren(r) BY <2>5 DEF SpawnChildren, Goes
  <2>6. CASE SpawnFails(r)  BY <2>6 DEF SpawnFails, Ends, Goes
  <2>7. CASE Signal(r)      BY <2>7 DEF Signal, Goes
  <2>8. CASE BunExitSeen(r) BY <2>8 DEF BunExitSeen, Goes
  <2>9. CASE Finish(r)      BY <2>9 DEF Finish, Removed, NotRemoved, Ends, Goes
  <2>10. CASE BunEnds(r)    BY <2>10 DEF BunEnds
  <2>11. CASE Killed(r)
    <3>1. UNCHANGED <<children, kept>> /\ PcType' /\ CodeType'
      BY <2>11 DEF Killed, Ends, Goes
    <3>2. SinceType'
      BY <2>11 DEF Killed, Attempt, Takes
    <3> QED BY <3>1, <3>2
  <2> QED BY <1>3, <2>1, <2>2, <2>3, <2>4, <2>5, <2>6, <2>7, <2>8, <2>9, <2>10, <2>11 DEF Steps
<1> QED BY <1>1, <1>2, <1>3 DEF Next

\* Every step keeps what the runs and their children are to each other.
LEMMA RunsStep == IInv /\ [Next]_vars => (Working /\ Serving /\ Stopping)'
<1> SUFFICES ASSUME IInv, [Next]_vars PROVE (Working /\ Serving /\ Stopping)'
  OBVIOUS
<1> USE DEF IInv, Types, PcType, CodeType, TailType, BunType, Working, Serving, Stopping, children, container
<1>1. CASE UNCHANGED vars
  BY <1>1 DEF vars
<1>2. CASE ContainerDies
  BY <1>2 DEF ContainerDies
<1>3. ASSUME NEW r \in Run, Steps(r) PROVE (Working /\ Serving /\ Stopping)'
  <2>1. CASE Start(r)       BY <2>1 DEF Start, Goes
  <2>2. CASE RemoveOld(r)   BY <2>2 DEF RemoveOld, Removed, NotRemoved, Goes
  <2>3. CASE DockerRun(r)   BY <2>3 DEF DockerRun, Goes
  <2>4. CASE DockerFails(r) BY <2>4 DEF DockerFails, Attempt, Takes, Ends, Goes
  <2>5. CASE SpawnChildren(r) BY <2>5 DEF SpawnChildren, Goes
  <2>6. CASE SpawnFails(r)  BY <2>6 DEF SpawnFails, Ends, Goes
  <2>7. CASE Signal(r)      BY <2>7 DEF Signal, Goes
  <2>8. CASE BunExitSeen(r) BY <2>8 DEF BunExitSeen, Goes
  <2>9. CASE Finish(r)      BY <2>9 DEF Finish, Removed, NotRemoved, Ends, Goes
  <2>10. CASE BunEnds(r)    BY <2>10 DEF BunEnds
  <2>11. CASE Killed(r)     BY <2>11 DEF Killed, Attempt, Removed, NotRemoved, Takes, Ends, Goes
  <2> QED BY <1>3, <2>1, <2>2, <2>3, <2>4, <2>5, <2>6, <2>7, <2>8, <2>9, <2>10, <2>11 DEF Steps
<1> QED BY <1>1, <1>2, <1>3 DEF Next

\* Only Finish ends a run well, and the one step that can give its name to a
\* container again is a step of another run: this one is off and has ended.
LEMMA CleanStep == IInv /\ [Next]_vars => CleanStop'
<1> SUFFICES ASSUME IInv, [Next]_vars PROVE CleanStop'
  OBVIOUS
<1> USE NoneIsNoRun
        DEF IInv, Types, PcType, CodeType, TailType, BunType, KeptType, Working, Stopping, CleanStop,
            children, container
<1>1. CASE UNCHANGED vars
  BY <1>1 DEF vars
<1>2. CASE ContainerDies
  BY <1>2 DEF ContainerDies
<1>3. ASSUME NEW r \in Run, Steps(r) PROVE CleanStop'
  <2>1. CASE Start(r)       BY <2>1 DEF Start, Goes
  <2>2. CASE RemoveOld(r)   BY <2>2 DEF RemoveOld, Removed, NotRemoved, Goes
  <2>3. CASE DockerRun(r)   BY <2>3 DEF DockerRun, Takes, Goes
  <2>4. CASE DockerFails(r) BY <2>4 DEF DockerFails, Attempt, Takes, Ends, Goes
  <2>5. CASE SpawnChildren(r) BY <2>5 DEF SpawnChildren, Goes
  <2>6. CASE SpawnFails(r)  BY <2>6 DEF SpawnFails, Ends, Goes
  <2>7. CASE Signal(r)      BY <2>7 DEF Signal, Goes
  <2>8. CASE BunExitSeen(r) BY <2>8 DEF BunExitSeen, Goes
  <2>9. CASE Finish(r)      BY <2>9 DEF Finish, Removed, NotRemoved, Ends, Goes
  <2>10. CASE BunEnds(r)    BY <2>10 DEF BunEnds
  <2>11. CASE Killed(r)     BY <2>11 DEF Killed, Attempt, Removed, NotRemoved, Takes, Ends, Goes
  <2> QED BY <1>3, <2>1, <2>2, <2>3, <2>4, <2>5, <2>6, <2>7, <2>8, <2>9, <2>10, <2>11 DEF Steps
<1> QED BY <1>1, <1>2, <1>3 DEF Next

\* Whoever takes the name is recorded by every run, and a run forgets only at its
\* start, when it does not serve.
LEMMA OwnStep == IInv /\ [Next]_vars => OwnContainer'
<1> SUFFICES ASSUME IInv, [Next]_vars PROVE OwnContainer'
  OBVIOUS
<1> USE DEF IInv, Types, PcType, SinceType, OwnContainer, children, container
<1>1. CASE UNCHANGED vars
  BY <1>1 DEF vars
<1>2. CASE ContainerDies
  BY <1>2 DEF ContainerDies
<1>3. ASSUME NEW r \in Run, Steps(r) PROVE OwnContainer'
  <2>1. CASE Start(r)       BY <2>1 DEF Start, Goes
  <2>2. CASE RemoveOld(r)   BY <2>2 DEF RemoveOld, Removed, NotRemoved, Goes
  <2>3. CASE DockerRun(r)   BY <2>3 DEF DockerRun, Takes, Goes
  <2>4. CASE DockerFails(r) BY <2>4 DEF DockerFails, Attempt, Takes, Ends, Goes
  <2>5. CASE SpawnChildren(r) BY <2>5 DEF SpawnChildren, Goes
  <2>6. CASE SpawnFails(r)  BY <2>6 DEF SpawnFails, Ends, Goes
  <2>7. CASE Signal(r)      BY <2>7 DEF Signal, Goes
  <2>8. CASE BunExitSeen(r) BY <2>8 DEF BunExitSeen, Goes
  <2>9. CASE Finish(r)      BY <2>9 DEF Finish, Removed, NotRemoved, Ends, Goes
  <2>10. CASE BunEnds(r)    BY <2>10 DEF BunEnds
  <2>11. CASE Killed(r)     BY <2>11 DEF Killed, Attempt, Removed, NotRemoved, Takes, Ends, Goes
  <2> QED BY <1>3, <2>1, <2>2, <2>3, <2>4, <2>5, <2>6, <2>7, <2>8, <2>9, <2>10, <2>11 DEF Steps
<1> QED BY <1>1, <1>2, <1>3 DEF Next

-----------------------------------------------------------------------------
\* The invariant of the supervisor.
THEOREM SupervisorInvariant == Spec => []IInv
<1>1. IInv /\ [Next]_vars => IInv'
  BY TypesStep, RunsStep, CleanStep, OwnStep DEF IInv
<1> QED BY InitInv, <1>1, PTL DEF Spec

\* main and shutdown: a run that exits 0 leaves no log tail, no Bun that was not told
\* to go, and its container only if its own docker rm failed.
THEOREM StopsClean == Spec => []CleanStop
<1>1. IInv => CleanStop
  BY DEF IInv
<1> QED BY SupervisorInvariant, <1>1, PTL

\* bringUpRust: a run gets to its children only with a container of its own, whatever
\* held the name before it and however docker rm and docker run fail.
THEOREM ContainerIsOwn == Spec => []OwnContainer
<1>1. IInv => OwnContainer
  BY DEF IInv
<1> QED BY SupervisorInvariant, <1>1, PTL
===============================================================================
