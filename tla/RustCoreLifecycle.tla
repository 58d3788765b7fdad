-------------------------- MODULE RustCoreLifecycle --------------------------
(***************************************************************************)
(* App.listen and App.close over the Rust core's child process             *)
(* (app.ts, rust-core.ts).                                                 *)
(*                                                                         *)
(* start() and close() are async functions: every step between two awaits  *)
(* is an action, and calls of both interleave at the awaits.  The caller   *)
(* is Patient: it calls listen() only when nothing of an earlier listen()  *)
(* or close() is left to wait for.  close() it may call at any time.       *)
(***************************************************************************)
EXTENDS Naturals, FiniteSets

CONSTANTS
  MaxStarts,  \* bound: calls of listen()
  MaxCloses,  \* bound: calls of close()
  Strangers   \* whether another program may take the port

ASSUME LifecycleAssumption ==
  MaxStarts \in Nat /\ MaxCloses \in Nat /\ Strangers \in BOOLEAN

VARIABLES
  host,       \* the process the App lives in: "alive" or "dead"
  rustServer, \* App.rustServer: the start whose handle it holds, 0 for null
  start,      \* per listen(): where startRustCoreServer is
  answer,     \* per listen(): what the callback was given, "none" before
  child,      \* per listen(): its child process
  killed,     \* the children that were sent SIGKILL
  dirs,       \* the starts whose temporary directory exists
  close,      \* per close(): where it is
  stops,      \* per close(): the start whose server it stops, 0 for none
  timers,     \* the close() calls whose three-second timer is set
  stranger,   \* another program listens on the port
  misled      \* history: the starts whose probe a stranger may have answered, or
              \* the child of an earlier start that was killed and not waited for

vars == <<host, rustServer, start, answer, child, killed, dirs, close, stops, timers, stranger, misled>>

Starts == 1 .. MaxStarts
Closes == 1 .. MaxCloses

InFlight(a) == start[a] \in {"building", "mkdtemp", "writing", "probing", "cleanup"}
\* "missing": there was nothing to execute; "failed": gone before it listened.
Running(a) == child[a] \in {"starting", "listening"}
Closing(n) == close[n] \in {"waiting", "removing"}

Patient ==
  /\ rustServer = 0
  /\ \A a \in Starts : ~InFlight(a)
  /\ \A n \in Closes : ~Closing(n)

Init ==
  /\ host = "alive" /\ rustServer = 0
  /\ start = [a \in Starts |-> "idle"] /\ answer = [a \in Starts |-> "none"]
  /\ child = [a \in Starts |-> "none"] /\ killed = {} /\ dirs = {}
  /\ close = [n \in Closes |-> "idle"] /\ stops = [n \in Closes |-> 0] /\ timers = {}
  /\ stranger = FALSE /\ misled = {}

-----------------------------------------------------------------------------
\* listen() and startRustCoreServer

Listen(a) ==
  /\ Patient
  /\ start[a] = "idle" /\ \A b \in 1 .. a - 1 : start[b] # "idle"
  /\ start' = [start EXCEPT ![a] = "building"]
  /\ UNCHANGED <<host, rustServer, answer, child, killed, dirs, close, stops, timers, stranger, misled>>

\* Mutant: the callback gets nothing.
Fail_Silent(a) == start' = [start EXCEPT ![a] = "failed"] /\ UNCHANGED answer
\* The rejection reaches start().catch: callback(false).
Fail(a) ==
  /\ start' = [start EXCEPT ![a] = "failed"]
  /\ answer' = [answer EXCEPT ![a] = "false"]

EnsureRustBinary(a) ==
  /\ start[a] = "building"
  /\ \/ start' = [start EXCEPT ![a] = "mkdtemp"] /\ UNCHANGED answer
     \/ Fail(a)
  /\ UNCHANGED <<host, rustServer, child, killed, dirs, close, stops, timers, stranger, misled>>

\* spawn returns at once, and waitForTcp starts
Spawn(a) ==
  /\ start' = [start EXCEPT ![a] = "probing"]
  /\ \E how \in {"starting", "missing"} : child' = [child EXCEPT ![a] = how]
  /\ UNCHANGED answer

\* The manifest of the benchmark is not written.
MakeDir(a) ==
  /\ start[a] = "mkdtemp"
  /\ \/ Fail(a) /\ UNCHANGED <<dirs, child>>
     \/ /\ dirs' = dirs \cup {a}
        /\ \/ start' = [start EXCEPT ![a] = "writing"] /\ UNCHANGED <<answer, child>>
           \/ Spawn(a)
  /\ UNCHANGED <<host, rustServer, killed, close, stops, timers, stranger, misled>>

\* The directory stays when the manifest cannot be written.
WriteManifest(a) ==
  /\ start[a] = "writing"
  /\ \/ Fail(a) /\ UNCHANGED child
     \/ Spawn(a)
  /\ UNCHANGED <<host, rustServer, killed, dirs, close, stops, timers, stranger, misled>>

Answers == stranger \/ \E b \in Starts : child[b] = "listening"

\* waitForTcp connects, whoever answers; listen() keeps the handle.
Probe(a) ==
  /\ start[a] = "probing" /\ Answers
  /\ start' = [start EXCEPT ![a] = "up"]
  /\ rustServer' = a
  /\ answer' = [answer EXCEPT ![a] = "true"]
  /\ misled' = IF stranger \/ \E b \in killed : child[b] = "listening"
               THEN misled \cup {a} ELSE misled
  /\ UNCHANGED <<host, child, killed, dirs, close, stops, timers, stranger>>

\* Mutant: no child is ever killed.
Kill_Never(a) == UNCHANGED killed
Kill(a) == killed' = IF Running(a) THEN killed \cup {a} ELSE killed

ProbeTimeout(a) ==
  /\ start[a] = "probing"
  /\ Kill(a)
  /\ start' = [start EXCEPT ![a] = "cleanup"]
  /\ UNCHANGED <<host, rustServer, answer, child, dirs, close, stops, timers, stranger, misled>>

CleanUp(a) ==
  /\ start[a] = "cleanup"
  /\ dirs' = dirs \ {a}
  /\ Fail(a)
  /\ UNCHANGED <<host, rustServer, child, killed, close, stops, timers, stranger, misled>>

\* Nobody listens to the child's "error": it takes the process down.
SpawnError(a) ==
  /\ child[a] = "missing"
  /\ host' = "dead"
  /\ UNCHANGED <<rustServer, start, answer, child, killed, dirs, close, stops, timers, stranger, misled>>

-----------------------------------------------------------------------------
\* close() and stop()

\* Mutant: stop() does not wait for the exit.
Waits_Never(a) == FALSE
\* stop() sends SIGTERM and waits for the exit, unless there was one.
Waits(a) == Running(a)

Close(n) ==
  /\ close[n] = "idle" /\ \A k \in 1 .. n - 1 : close[k] # "idle"
  /\ \/ /\ rustServer = 0
        /\ close' = [close EXCEPT ![n] = "done"]
        /\ UNCHANGED <<stops, timers>>
     \/ /\ rustServer # 0
        /\ close' = [close EXCEPT ![n] = IF Waits(rustServer) THEN "waiting" ELSE "removing"]
        /\ stops' = [stops EXCEPT ![n] = rustServer]
        /\ timers' = IF Waits(rustServer) THEN timers \cup {n} ELSE timers
  /\ UNCHANGED <<host, rustServer, start, answer, child, killed, dirs, stranger, misled>>

ExitEvent(n) ==
  /\ close[n] = "waiting" /\ ~Running(stops[n])
  /\ close' = [close EXCEPT ![n] = "removing"]
  /\ UNCHANGED <<host, rustServer, start, answer, child, killed, dirs, stops, timers,
                 stranger, misled>>

\* Three seconds after stop(), whatever has happened since.
Escalate(n) ==
  /\ n \in timers
  /\ timers' = timers \ {n}
  /\ Kill(stops[n])
  /\ UNCHANGED <<host, rustServer, start, answer, child, dirs, close, stops, stranger, misled>>

\* Mutant: the handle is kept.
Removed_Keeps(n) ==
  /\ close[n] = "removing"
  /\ dirs' = dirs \ {stops[n]}
  /\ close' = [close EXCEPT ![n] = "done"]
  /\ UNCHANGED <<host, rustServer, start, answer, child, killed, stops, timers, stranger, misled>>
Removed(n) ==
  /\ close[n] = "removing"
  /\ dirs' = dirs \ {stops[n]}
  /\ rustServer' = 0
  /\ close' = [close EXCEPT ![n] = "done"]
  /\ UNCHANGED <<host, start, answer, child, killed, stops, timers, stranger, misled>>

-----------------------------------------------------------------------------
\* The environment: child processes, and the port

\* The core cannot bind a port that a program without SO_REUSEPORT holds.
ChildListens(a) ==
  /\ child[a] = "starting" /\ a \notin killed /\ ~stranger
  /\ child' = [child EXCEPT ![a] = "listening"]
  /\ UNCHANGED <<host, rustServer, start, answer, killed, dirs, close, stops, timers, stranger, misled>>

\* It exits by a signal, or by itself.
ChildExits(a) ==
  /\ Running(a)
  /\ child' = [child EXCEPT ![a] = IF @ = "listening" THEN "exited" ELSE "failed"]
  /\ UNCHANGED <<host, rustServer, start, answer, killed, dirs, close, stops, timers, stranger, misled>>

StrangerBinds ==
  /\ Strangers /\ ~stranger /\ \A a \in Starts : child[a] # "listening"
  /\ stranger' = TRUE
  /\ UNCHANGED <<host, rustServer, start, answer, child, killed, dirs, close, stops, timers, misled>>

StrangerLeaves ==
  /\ stranger
  /\ stranger' = FALSE
  /\ UNCHANGED <<host, rustServer, start, answer, child, killed, dirs, close, stops, timers, misled>>

-----------------------------------------------------------------------------
StartStep(a) ==
  \/ EnsureRustBinary(a) \/ MakeDir(a) \/ WriteManifest(a)
  \/ ProbeTimeout(a) \/ CleanUp(a)
CloseStep(n) == ExitEvent(n) \/ Escalate(n) \/ Removed(n)

HostStep ==
  /\ host = "alive"
  /\ \/ \E a \in Starts : Listen(a) \/ StartStep(a) \/ Probe(a) \/ SpawnError(a)
     \/ \E n \in Closes : Close(n) \/ CloseStep(n)

ChildStep == \E a \in Starts : ChildListens(a) \/ ChildExits(a)

Next == HostStep \/ ChildStep \/ StrangerBinds \/ StrangerLeaves

Spec == Init /\ [][Next]_vars

\* Awaited operations and timers complete; SIGKILL ends a process.
FairSpec ==
  /\ Spec
  /\ \A a \in Starts : /\ WF_vars(host = "alive" /\ StartStep(a))
                       /\ WF_vars(a \in killed /\ ChildExits(a))
  /\ \A n \in Closes : WF_vars(host = "alive" /\ CloseStep(n))

-----------------------------------------------------------------------------
TypeOK ==
  /\ host \in {"alive", "dead"} /\ stranger \in BOOLEAN
  /\ rustServer \in {0} \cup Starts
  /\ start \in [Starts -> {"idle", "building", "mkdtemp", "writing", "probing",
                           "cleanup", "up", "failed"}]
  /\ answer \in [Starts -> {"none", "true", "false"}]
  /\ child \in [Starts -> {"none", "missing", "starting", "listening", "failed", "exited"}]
  /\ killed \subseteq Starts /\ dirs \subseteq Starts /\ misled \subseteq Starts
  /\ close \in [Closes -> {"idle", "waiting", "removing", "done"}]
  /\ stops \in [Closes -> {0} \cup Starts] /\ timers \subseteq Closes

\* Nothing is running or left on disk that no one is going to stop or remove:
\* it belongs to a start in progress or to the server that App holds.  A start
\* that gave up has at least killed its child, and leaves its directory only
\* when the manifest could not be written, before there was a child.
Owned ==
  \A a \in Starts :
    /\ Running(a) => InFlight(a) \/ rustServer = a \/ a \in killed
    /\ a \in dirs => InFlight(a) \/ rustServer = a \/ child[a] = "none"

\* What makes Owned and Closed inductive: one start at a time and no server or
\* close() with it, a server that is held has come up, a close() that is under
\* way is stopping the server held, or finds it stopped by another.
OneAtATime ==
  /\ \A a \in Starts : InFlight(a) =>
       /\ rustServer = 0
       /\ \A b \in Starts : InFlight(b) => b = a
       /\ \A n \in Closes : ~Closing(n)
  /\ rustServer # 0 => start[rustServer] = "up"
  /\ \A a \in Starts :
       /\ start[a] \in {"idle", "building", "mkdtemp", "writing"} => child[a] = "none"
       /\ start[a] = "cleanup" /\ Running(a) => a \in killed
       /\ answer[a] = "true" => start[a] = "up"
  /\ \A n \in Closes :
       /\ close[n] = "idle" => stops[n] = 0 /\ n \notin timers
       /\ stops[n] # 0 => start[stops[n]] = "up"
       /\ Closing(n) => stops[n] # 0 /\ rustServer \in {0, stops[n]}
       /\ Closing(n) /\ rustServer = 0 => ~Running(stops[n])
       /\ close[n] = "removing" => ~Running(stops[n])
       /\ n \in timers => stops[n] # 0

\* Once close() has resolved, the server it found is gone and so are its files.
Closed ==
  \A n \in Closes :
    close[n] = "done" /\ stops[n] # 0 =>
      ~Running(stops[n]) /\ stops[n] \notin dirs /\ rustServer # stops[n]

\* callback(true) means that the child of this start was listening, and not one
\* that an earlier close() has stopped: only a stranger, or a child killed by a
\* start that timed out, may answer in its place.
Truthful ==
  \A a \in Starts : answer[a] = "true" => child[a] \in {"listening", "exited"} \/ a \in misled

\* The callback is called, unless the process goes down.
Answered == \A a \in Starts : InFlight(a) ~> answer[a] # "none" \/ host = "dead"

\* close() resolves, whatever the child does about SIGTERM.
CloseEnds == \A n \in Closes : Closing(n) ~> close[n] = "done" \/ host = "dead"
=============================================================================
