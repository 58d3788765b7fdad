---------------------- MODULE RustCoreLifecycleProofs ----------------------
(***************************************************************************)
(* Theorems about RustCoreLifecycle, for any number of calls of listen()   *)
(* and close().                                                            *)
(***************************************************************************)
EXTENDS RustCoreLifecycle, TLAPS

LEMMA ZeroIsNoStart == 0 \notin Starts
  BY DEF Starts

(***************************************************************************)
(* The steps, one lemma per part of the invariant.                         *)
(***************************************************************************)
\* Every step keeps the types; a timer is set only for a server that was held.
LEMMA TypeStep ==
  ASSUME TypeOK, OneAtATime, [Next]_vars
  PROVE  TypeOK'
<1> USE DEF TypeOK, Running
<1>1. ASSUME NEW a \in Starts, Listen(a) PROVE TypeOK'
  BY <1>1 DEF Listen, Patient
<1>2. ASSUME NEW a \in Starts, EnsureRustBinary(a) PROVE TypeOK'
  BY <1>2 DEF EnsureRustBinary, Fail
<1>3. ASSUME NEW a \in Starts, MakeDir(a) PROVE TypeOK'
  BY <1>3 DEF MakeDir, Fail, Spawn
<1>4. ASSUME NEW a \in Starts, WriteManifest(a) PROVE TypeOK'
  BY <1>4 DEF WriteManifest, Fail, Spawn
<1>5. ASSUME NEW a \in Starts, Probe(a) PROVE TypeOK'
  BY <1>5 DEF Probe
<1>6. ASSUME NEW a \in Starts, ProbeTimeout(a) PROVE TypeOK'
  BY <1>6 DEF ProbeTimeout, Kill
<1>7. ASSUME NEW a \in Starts, CleanUp(a) PROVE TypeOK'
  BY <1>7 DEF CleanUp, Fail
<1>8. ASSUME NEW a \in Starts, SpawnError(a) PROVE TypeOK'
  BY <1>8 DEF SpawnError
<1>9. ASSUME NEW a \in Starts, ChildListens(a) PROVE TypeOK'
  BY <1>9 DEF ChildListens
<1>10. ASSUME NEW a \in Starts, ChildExits(a) PROVE TypeOK'
  BY <1>10 DEF ChildExits
<1>11. ASSUME NEW n \in Closes, Close(n) PROVE TypeOK'
  BY <1>11 DEF Close, Waits
<1>12. ASSUME NEW n \in Closes, ExitEvent(n) PROVE TypeOK'
  BY <1>12 DEF ExitEvent
<1>13. ASSUME NEW n \in Closes, Escalate(n) PROVE TypeOK'
  <2>1. stops[n] \in Starts
    BY <1>13 DEF Escalate, OneAtATime
  <2> QED
    BY <1>13, <2>1 DEF Escalate, Kill
<1>14. ASSUME NEW n \in Closes, Removed(n) PROVE TypeOK'
  BY <1>14 DEF Removed
<1>15. CASE StrangerBinds \/ StrangerLeaves
  BY <1>15 DEF StrangerBinds, StrangerLeaves
<1>16. CASE UNCHANGED vars
  BY <1>16 DEF vars
<1> QED
  BY <1>1, <1>2, <1>3, <1>4, <1>5, <1>6, <1>7, <1>8, <1>9, <1>10, <1>11, <1>12, <1>13, <1>14, <1>15, <1>16
     DEF Next, HostStep, ChildStep, StartStep, CloseStep

\* One start at a time, and no server with it.
LEMMA OneAtATimeStep ==
  ASSUME TypeOK, OneAtATime, [Next]_vars
  PROVE  OneAtATime'
<1> USE DEF TypeOK, OneAtATime, InFlight, Closing, Running
<1>1. ASSUME NEW a \in Starts, Listen(a) PROVE OneAtATime'
  BY <1>1 DEF Listen, Patient
<1>2. ASSUME NEW a \in Starts, EnsureRustBinary(a) PROVE OneAtATime'
  BY <1>2 DEF EnsureRustBinary, Fail
<1>3. ASSUME NEW a \in Starts, MakeDir(a) PROVE OneAtATime'
  BY <1>3 DEF MakeDir, Fail, Spawn
<1>4. ASSUME NEW a \in Starts, WriteManifest(a) PROVE OneAtATime'
  BY <1>4 DEF WriteManifest, Fail, Spawn
<1>5. ASSUME NEW a \in Starts, Probe(a) PROVE OneAtATime'
  BY <1>5 DEF Probe
<1>6. ASSUME NEW a \in Starts, ProbeTimeout(a) PROVE OneAtATime'
  BY <1>6 DEF ProbeTimeout, Kill
<1>7. ASSUME NEW a \in Starts, CleanUp(a) PROVE OneAtATime'
  BY <1>7 DEF CleanUp, Fail
<1>8. ASSUME NEW a \in Starts, SpawnError(a) PROVE OneAtATime'
  BY <1>8 DEF SpawnError
<1>9. ASSUME NEW a \in Starts, ChildListens(a) PROVE OneAtATime'
  BY <1>9 DEF ChildListens
<1>10. ASSUME NEW a \in Starts, ChildExits(a) PROVE OneAtATime'
  BY <1>10 DEF ChildExits
<1>11. ASSUME NEW n \in Closes, Close(n) PROVE OneAtATime'
  BY <1>11 DEF Close, Waits
<1>12. ASSUME NEW n \in Closes, ExitEvent(n) PROVE OneAtATime'
  BY <1>12 DEF ExitEvent
<1>13. ASSUME NEW n \in Closes, Escalate(n) PROVE OneAtATime'
  BY <1>13 DEF Escalate, Kill
<1>14. ASSUME NEW n \in Closes, Removed(n) PROVE OneAtATime'
  BY <1>14 DEF Removed
<1>15. CASE StrangerBinds \/ StrangerLeaves
  BY <1>15 DEF StrangerBinds, StrangerLeaves
<1>16. CASE UNCHANGED vars
  BY <1>16 DEF vars
<1> QED
  BY <1>1, <1>2, <1>3, <1>4, <1>5, <1>6, <1>7, <1>8, <1>9, <1>10, <1>11, <1>12, <1>13, <1>14, <1>15, <1>16
     DEF Next, HostStep, ChildStep, StartStep, CloseStep

\* No child and no directory loses its owner; only the server held changes when a start comes up.
LEMMA OwnedStep ==
  ASSUME TypeOK, OneAtATime, Owned, [Next]_vars
  PROVE  Owned'
<1> USE DEF TypeOK, OneAtATime, Owned, InFlight, Closing, Running
<1>1. ASSUME NEW a \in Starts, Listen(a) PROVE Owned'
  BY <1>1 DEF Listen, Patient
<1>2. ASSUME NEW a \in Starts, EnsureRustBinary(a) PROVE Owned'
  BY <1>2 DEF EnsureRustBinary, Fail
<1>3. ASSUME NEW a \in Starts, MakeDir(a) PROVE Owned'
  BY <1>3 DEF MakeDir, Fail, Spawn
<1>4. ASSUME NEW a \in Starts, WriteManifest(a) PROVE Owned'
  BY <1>4 DEF WriteManifest, Fail, Spawn
<1>5. ASSUME NEW a \in Starts, Probe(a) PROVE Owned'
  <2>1. \A b \in Starts : b # a => rustServer # b /\ ~InFlight(b)
    BY <1>5, ZeroIsNoStart DEF Probe
  <2>2. \A b \in Starts : b # a => (Running(b) => b \in killed) /\ (b \in dirs => child[b] = "none")
    BY <2>1
  <2>3. rustServer' = a
    BY <1>5 DEF Probe
  <2> QED
    BY <1>5, <2>2, <2>3 DEF Probe
<1>6. ASSUME NEW a \in Starts, ProbeTimeout(a) PROVE Owned'
  BY <1>6 DEF ProbeTimeout, Kill
<1>7. ASSUME NEW a \in Starts, CleanUp(a) PROVE Owned'
  BY <1>7 DEF CleanUp, Fail
<1>8. ASSUME NEW a \in Starts, SpawnError(a) PROVE Owned'
  BY <1>8 DEF SpawnError
<1>9. ASSUME NEW a \in Starts, ChildListens(a) PROVE Owned'
  BY <1>9 DEF ChildListens
<1>10. ASSUME NEW a \in Starts, ChildExits(a) PROVE Owned'
  BY <1>10 DEF ChildExits
<1>11. ASSUME NEW n \in Closes, Close(n) PROVE Owned'
  BY <1>11 DEF Close, Waits
<1>12. ASSUME NEW n \in Closes, ExitEvent(n) PROVE Owned'
  BY <1>12 DEF ExitEvent
<1>13. ASSUME NEW n \in Closes, Escalate(n) PROVE Owned'
  BY <1>13 DEF Escalate, Kill
<1>14. ASSUME NEW n \in Closes, Removed(n) PROVE Owned'
  BY <1>14 DEF Removed
<1>15. CASE StrangerBinds \/ StrangerLeaves
  BY <1>15 DEF StrangerBinds, StrangerLeaves
<1>16. CASE UNCHANGED vars
  BY <1>16 DEF vars
<1> QED
  BY <1>1, <1>2, <1>3, <1>4, <1>5, <1>6, <1>7, <1>8, <1>9, <1>10, <1>11, <1>12, <1>13, <1>14, <1>15, <1>16
     DEF Next, HostStep, ChildStep, StartStep, CloseStep

\* What close() has stopped stays stopped.
LEMMA ClosedStep ==
  ASSUME TypeOK, OneAtATime, Closed, [Next]_vars
  PROVE  Closed'
<1> USE DEF TypeOK, OneAtATime, Closed, InFlight, Closing, Running
<1>1. ASSUME NEW a \in Starts, Listen(a) PROVE Closed'
  BY <1>1 DEF Listen, Patient
<1>2. ASSUME NEW a \in Starts, EnsureRustBinary(a) PROVE Closed'
  BY <1>2 DEF EnsureRustBinary, Fail
<1>3. ASSUME NEW a \in Starts, MakeDir(a) PROVE Closed'
  BY <1>3 DEF MakeDir, Fail, Spawn
<1>4. ASSUME NEW a \in Starts, WriteManifest(a) PROVE Closed'
  BY <1>4 DEF WriteManifest, Fail, Spawn
<1>5. ASSUME NEW a \in Starts, Probe(a) PROVE Closed'
  BY <1>5 DEF Probe
<1>6. ASSUME NEW a \in Starts, ProbeTimeout(a) PROVE Closed'
  BY <1>6 DEF ProbeTimeout, Kill
<1>7. ASSUME NEW a \in Starts, CleanUp(a) PROVE Closed'
  BY <1>7 DEF CleanUp, Fail
<1>8. ASSUME NEW a \in Starts, SpawnError(a) PROVE Closed'
  BY <1>8 DEF SpawnError
<1>9. ASSUME NEW a \in Starts, ChildListens(a) PROVE Closed'
  BY <1>9 DEF ChildListens
<1>10. ASSUME NEW a \in Starts, ChildExits(a) PROVE Closed'
  BY <1>10 DEF ChildExits
<1>11. ASSUME NEW n \in Closes, Close(n) PROVE Closed'
  BY <1>11 DEF Close, Waits
<1>12. ASSUME NEW n \in Closes, ExitEvent(n) PROVE Closed'
  BY <1>12 DEF ExitEvent
<1>13. ASSUME NEW n \in Closes, Escalate(n) PROVE Closed'
  BY <1>13 DEF Escalate, Kill
<1>14. ASSUME NEW n \in Closes, Removed(n) PROVE Closed'
  BY <1>14 DEF Removed
<1>15. CASE StrangerBinds \/ StrangerLeaves
  BY <1>15 DEF StrangerBinds, StrangerLeaves
<1>16. CASE UNCHANGED vars
  BY <1>16 DEF vars
<1> QED
  BY <1>1, <1>2, <1>3, <1>4, <1>5, <1>6, <1>7, <1>8, <1>9, <1>10, <1>11, <1>12, <1>13, <1>14, <1>15, <1>16
     DEF Next, HostStep, ChildStep, StartStep, CloseStep

\* Who answers a probe in a child's place is a stranger, or was killed.
LEMMA TruthfulStep ==
  ASSUME TypeOK, OneAtATime, Owned, Truthful, [Next]_vars
  PROVE  Truthful'
<1> USE DEF TypeOK, OneAtATime, Truthful, Running
<1>1. ASSUME NEW a \in Starts, Listen(a) PROVE Truthful'
  BY <1>1 DEF Listen, Patient
<1>2. ASSUME NEW a \in Starts, EnsureRustBinary(a) PROVE Truthful'
  BY <1>2 DEF EnsureRustBinary, Fail
<1>3. ASSUME NEW a \in Starts, MakeDir(a) PROVE Truthful'
  BY <1>3 DEF MakeDir, Fail, Spawn
<1>4. ASSUME NEW a \in Starts, WriteManifest(a) PROVE Truthful'
  BY <1>4 DEF WriteManifest, Fail, Spawn
<1>5. ASSUME NEW a \in Starts, Probe(a) PROVE Truthful'
  <2>1. a \in misled' \/ child[a] = "listening"
    <3>1. CASE stranger
      BY <1>5, <3>1 DEF Probe
    <3>2. ASSUME NEW b \in Starts, child[b] = "listening" PROVE a \in misled' \/ child[a] = "listening"
      <4>1. b # a => b \in killed
        BY <1>5, <3>2, ZeroIsNoStart DEF Probe, Owned, InFlight
      <4> QED
        BY <1>5, <3>2, <4>1 DEF Probe
    <3> QED
      BY <1>5, <3>1, <3>2 DEF Probe, Answers
  <2> QED
    BY <1>5, <2>1 DEF Probe
<1>6. ASSUME NEW a \in Starts, ProbeTimeout(a) PROVE Truthful'
  BY <1>6 DEF ProbeTimeout, Kill
<1>7. ASSUME NEW a \in Starts, CleanUp(a) PROVE Truthful'
  BY <1>7 DEF CleanUp, Fail
<1>8. ASSUME NEW a \in Starts, SpawnError(a) PROVE Truthful'
  BY <1>8 DEF SpawnError
<1>9. ASSUME NEW a \in Starts, ChildListens(a) PROVE Truthful'
  BY <1>9 DEF ChildListens
<1>10. ASSUME NEW a \in Starts, ChildExits(a) PROVE Truthful'
  BY <1>10 DEF ChildExits
<1>11. ASSUME NEW n \in Closes, Close(n) PROVE Truthful'
  BY <1>11 DEF Close, Waits
<1>12. ASSUME NEW n \in Closes, ExitEvent(n) PROVE Truthful'
  BY <1>12 DEF ExitEvent
<1>13. ASSUME NEW n \in Closes, Escalate(n) PROVE Truthful'
  BY <1>13 DEF Escalate, Kill
<1>14. ASSUME NEW n \in Closes, Removed(n) PROVE Truthful'
  BY <1>14 DEF Removed
<1>15. CASE StrangerBinds \/ StrangerLeaves
  BY <1>15 DEF StrangerBinds, StrangerLeaves
<1>16. CASE UNCHANGED vars
  BY <1>16 DEF vars
<1> QED
  BY <1>1, <1>2, <1>3, <1>4, <1>5, <1>6, <1>7, <1>8, <1>9, <1>10, <1>11, <1>12, <1>13, <1>14, <1>15, <1>16
     DEF Next, HostStep, ChildStep, StartStep, CloseStep

(***************************************************************************)
(* The theorems.                                                           *)
(***************************************************************************)
LifecycleInv == TypeOK /\ OneAtATime /\ Owned /\ Closed /\ Truthful

LEMMA InitInv == Init => LifecycleInv
<1> SUFFICES ASSUME Init PROVE LifecycleInv
  OBVIOUS
<1>1. TypeOK
  BY Zenon DEF Init, TypeOK
<1>2. OneAtATime
  BY DEF Init, OneAtATime, InFlight, Closing, Running
<1>3. Owned /\ Closed /\ Truthful
  BY DEF Init, Owned, Closed, Truthful, InFlight, Running
<1> QED
  BY <1>1, <1>2, <1>3 DEF LifecycleInv

\* The lifecycle's invariant: types, one start at a time, everything owned,
\* everything closed stays closed.
THEOREM LifecycleInvariant == Spec => []LifecycleInv
<1>1. Init => LifecycleInv
  BY InitInv
<1>2. LifecycleInv /\ [Next]_vars => LifecycleInv'
  BY TypeStep, OneAtATimeStep, OwnedStep, ClosedStep, TruthfulStep DEF LifecycleInv
<1> QED
  BY <1>1, <1>2, PTL DEF Spec

\* App's variables and the processes it starts keep their types.
THEOREM LifecycleTypes == Spec => []TypeOK
<1>1. LifecycleInv => TypeOK
  BY DEF LifecycleInv
<1> QED
  BY <1>1, LifecycleInvariant, PTL

\* Whatever exits, fails or is called in between, no child process and no
\* temporary directory is left that nothing is going to stop or remove.
THEOREM NothingOrphaned == Spec => []Owned
<1>1. LifecycleInv => Owned
  BY DEF LifecycleInv
<1> QED
  BY <1>1, LifecycleInvariant, PTL

\* A close() that has resolved leaves nothing of the server it found.
THEOREM CloseIsFinal == Spec => []Closed
<1>1. LifecycleInv => Closed
  BY DEF LifecycleInv
<1> QED
  BY <1>1, LifecycleInvariant, PTL

\* listen() reports a start only when the child it started was listening, with
\* the two exceptions that misled names.
THEOREM StartIsTruthful == Spec => []Truthful
<1>1. LifecycleInv => Truthful
  BY DEF LifecycleInv
<1> QED
  BY <1>1, LifecycleInvariant, PTL

=============================================================================
