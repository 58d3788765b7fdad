---------------------------- MODULE ServeSupervisor ----------------------------
(***************************************************************************)
(* Runs of fearless-serve on one host.  Each run removes the container     *)
(* called fearless-aot, starts a new one, tails its logs, spawns Bun and   *)
(* waits for a signal or for Bun to exit; then it stops what it started.   *)
(* All runs use the one name.  Any of them may be killed, any docker       *)
(* command may fail, Bun may exit and the container may die at any time.   *)
(* The script looks at the status of docker run, never at docker rm's.     *)
(***************************************************************************)
CONSTANTS Run, None
ASSUME NoneIsNoRun == None \notin Run

VARIABLES
  pc,       \* what a run does next
  code,     \* how it ended
  owner,    \* the run that started the container with the name, or None
  up,       \* that container runs: one that died or never started keeps the name
  tail,     \* the run's docker logs process is there
  bun,      \* the run's Bun process: none, up, told to stop, gone
  since,    \* history: the runs that took the name since this one was started
  kept      \* history: the runs whose shutdown met a docker rm that failed

children == <<tail, bun>>
container == <<owner, up, since>>
vars == <<pc, code, container, children, kept>>

Init ==
  /\ pc = [r \in Run |-> "off"] /\ code = [r \in Run |-> "none"]
  /\ owner = None /\ up = FALSE
  /\ tail = [r \in Run |-> FALSE] /\ bun = [r \in Run |-> "none"]
  /\ since = [r \in Run |-> {}] /\ kept = {}

Goes(r, to) == pc' = [pc EXCEPT ![r] = to]
Ends(r, how) == Goes(r, "off") /\ code' = [code EXCEPT ![r] = how]

Start(r) ==
  /\ pc[r] = "off" /\ code[r] = "none"
  /\ Goes(r, "remove") /\ since' = [since EXCEPT ![r] = {}]
  /\ UNCHANGED <<code, owner, up, children, kept>>

\* docker rm -f removes whatever has the name.  One that fails leaves it, perhaps
\* stopped.
Removed == owner' = None /\ up' = FALSE
NotRemoved == owner # None /\ owner' = owner /\ up' \in {up, FALSE}

\* bringUpRust: docker rm -f, and then docker run under the same name, whatever
\* became of the first.
RemoveOld(r) ==
  /\ pc[r] = "remove" /\ Goes(r, "run")
  /\ Removed \/ NotRemoved
  /\ UNCHANGED <<code, since, children, kept>>
Takes(r, runs) ==
  /\ owner = None /\ owner' = r /\ up' = runs
  /\ since' = [q \in Run |-> since[q] \cup {r}]
DockerRun(r) ==
  /\ pc[r] = "run" /\ Takes(r, TRUE) /\ Goes(r, "spawn")
  /\ UNCHANGED <<code, children, kept>>
\* A docker run that fails, as it does when the name is taken, may have created its
\* container, and may even have started it.
Attempt(r) == (\E runs \in BOOLEAN : Takes(r, runs)) \/ UNCHANGED container
DockerFails_GoesOn(r) ==
  /\ pc[r] = "run" /\ Goes(r, "spawn") /\ Attempt(r)
  /\ UNCHANGED <<code, children, kept>>
DockerFails(r) ==
  /\ pc[r] = "run" /\ Ends(r, "1") /\ Attempt(r)
  /\ UNCHANGED <<children, kept>>

\* The rest of main runs in one turn: the log tail, Bun, the handlers.
SpawnChildren(r) ==
  /\ pc[r] = "spawn" /\ Goes(r, "serve")
  /\ tail' = [tail EXCEPT ![r] = TRUE] /\ bun' = [bun EXCEPT ![r] = "up"]
  /\ UNCHANGED <<code, container, kept>>
\* A program that cannot be spawned is an error event nobody listens to.
SpawnFails(r) ==
  /\ pc[r] = "spawn" /\ Ends(r, "crashed")
  /\ tail' = [tail EXCEPT ![r] = TRUE]
  /\ UNCHANGED <<container, bun, kept>>

\* shutdown: the log tail and Bun are signalled, then docker rm -f, exit 0.
Signal_KeepsBun(r) ==
  /\ pc[r] = "serve" /\ Goes(r, "stop") /\ tail' = [tail EXCEPT ![r] = FALSE]
  /\ UNCHANGED <<code, container, bun, kept>>
Signal(r) ==
  /\ pc[r] = "serve" /\ Goes(r, "stop")
  /\ tail' = [tail EXCEPT ![r] = FALSE]
  /\ bun' = [bun EXCEPT ![r] = IF @ = "up" THEN "told" ELSE @]
  /\ UNCHANGED <<code, container, kept>>
BunExitSeen_Never(r) == FALSE /\ UNCHANGED vars
BunExitSeen(r) ==
  /\ pc[r] = "serve" /\ bun[r] = "gone" /\ Goes(r, "stop")
  /\ tail' = [tail EXCEPT ![r] = FALSE]
  /\ UNCHANGED <<code, container, bun, kept>>
Finish(r) ==
  /\ pc[r] = "stop" /\ Ends(r, "0")
  /\ (Removed /\ UNCHANGED kept) \/ (NotRemoved /\ kept' = kept \cup {r})
  /\ UNCHANGED <<since, children>>

-----------------------------------------------------------------------------
\* The world around a run.

BunEnds(r) ==
  /\ bun[r] \in {"up", "told"} /\ bun' = [bun EXCEPT ![r] = "gone"]
  /\ UNCHANGED <<pc, code, container, tail, kept>>
ContainerDies ==
  /\ up /\ up' = FALSE /\ UNCHANGED <<pc, code, owner, since, children, kept>>
\* A signal before the handlers are there, or SIGKILL at any time.  The docker
\* command that the run waits for may still do its work.
Killed(r) ==
  /\ pc[r] # "off" /\ Ends(r, "killed")
  /\ \/ pc[r] = "run" /\ Attempt(r)
     \/ pc[r] \in {"remove", "stop"} /\ (Removed \/ NotRemoved) /\ UNCHANGED since
     \/ pc[r] \in {"spawn", "serve"} /\ UNCHANGED container
  /\ UNCHANGED <<children, kept>>

Steps(r) ==
  \/ Start(r) \/ RemoveOld(r) \/ DockerRun(r) \/ DockerFails(r) \/ SpawnChildren(r)
  \/ SpawnFails(r) \/ Signal(r) \/ BunExitSeen(r) \/ Finish(r) \/ BunEnds(r) \/ Killed(r)
Next == ContainerDies \/ \E r \in Run : Steps(r)
Spec == Init /\ [][Next]_vars
\* An event that is queued is handled, and docker rm returns, whatever its result.
FairSpec == Spec /\ \A r \in Run : WF_vars(BunExitSeen(r)) /\ WF_vars(Finish(r))

-----------------------------------------------------------------------------
\* A run that exits 0 has stopped what it started: its log tail is killed, its Bun is
\* gone or told to go, and its container has lost the name, unless the docker rm of
\* this very run failed (shutdown, lines 112-119).
CleanStop ==
  \A r \in Run : code[r] = "0" =>
    ~tail[r] /\ bun[r] \in {"told", "gone"} /\ (owner = r => r \in kept)

\* A run goes on past bringUpRust only with a container of its own, though the
\* docker rm in front may have failed and its result is ignored: the name was never
\* held by what was there before the run, which it would then tail and serve
\* beside (lines 58-78).
OwnContainer ==
  \A r \in Run : pc[r] \in {"spawn", "serve", "stop"} =>
    r \in since[r] /\ owner \in since[r] \cup {None}

\* After a signal, and after Bun exits, a run ends.
StopEnds ==
  \A r \in Run : (pc[r] = "stop" \/ (pc[r] = "serve" /\ bun[r] = "gone")) ~> (pc[r] = "off")
===============================================================================
