----------------------------- MODULE UringWorker ------------------------------
(***************************************************************************)
(* One io_uring worker of the Rust core: the run loop that owns the        *)
(* registry of connections and the pool of buffer slots, the connections'  *)
(* state machine, the async bridge to the tokio runtime, and, as the       *)
(* environment, the kernel's ring and sockets and the clients.             *)
(*                                                                         *)
(* A submission walks through four stages: "sq" (pushed by the worker),    *)
(* "kernel" (submitted), "cq" (completed) and "batch" (copied into         *)
(* `completions` and not handled yet).  The kernel completes operations in *)
(* any order, so the completions of one batch are handled in any order.    *)
(***************************************************************************)
EXTENDS HttpPipeline

CONSTANTS
  SlotCount,     \* SLOT_COUNT, the buffer slots of the worker
  RingEntries,   \* RING_ENTRIES, the size of the submission queue
  GenMod,        \* generations are counted modulo this (2^32 in the code)
  Fd,            \* the file descriptors the process may use for clients
  AcceptFaults,  \* the kernel may fail or end the multishot accept
  None           \* no client behind a descriptor

ASSUME WorkerAssumption ==
  /\ SlotCount \in Nat \ {0}
  /\ RingEntries \in Nat
  /\ GenMod \in Nat \ {0}
  /\ Fd \subseteq Nat \ {0}
  /\ None \notin Client
  /\ AcceptFaults \in BOOLEAN

Idx  == 0 .. SlotCount - 1     \* slab indices in use never exceed the slots
Slot == 0 .. SlotCount - 1
Gen  == 0 .. GenMod - 1
Stage == {"sq", "kernel", "cq", "batch"}
SysOp == [stage : Stage]       \* an operation whose only state is its stage

VARIABLES
  conns,          \* the slab: the connection at each occupied index
  vacant,         \* the slab's list of vacant keys, a stack
  free,           \* FixedBuffers.free, a stack of slots
  next_generation,
  rmem, wmem,     \* the live bytes in the read and write region of each slot
  ring,           \* ring[i]: the operations pushed with a token of index i
  acceptOp,       \* the multishot accept operations pushed
  acceptCqe,      \* completions of the accept, oldest first
  eventfdOp,      \* the eventfd Read operations pushed
  eventfd,        \* the eventfd counter is not zero
  tasks,          \* spawned handler futures not finished
  queue,          \* WorkerBridge.completions
  drained,        \* completions taken from the queue and not delivered yet
  fds,            \* the client behind each open descriptor
  peer,           \* each client's connection
  nread,          \* cells the kernel has handed to the worker, per client
  got             \* cells each client has received

worker == <<conns, vacant, free, next_generation>>
memory == <<rmem, wmem>>
uring  == <<ring, acceptOp, acceptCqe, eventfdOp>>
bridge == <<eventfd, tasks, queue, drained>>
net    == <<fds, peer, nread, got>>
vars   == <<worker, memory, uring, bridge, net>>

Conn ==
  [generation : Gen, fd : Fd, slot : Slot,
   read_filled : Nat, write_filled : Nat, write_offset : Nat,
   state : {"Reading", "Writing", "AwaitingAsync"},
   close_after_drain : BOOLEAN, parked_close_after : BOOLEAN]

Op == [kind : {"recv", "send"}, generation : Gen, fd : Fd, slot : Slot,
       off : Nat, len : Nat, stage : Stage, res : Nat]

AcceptCqe == [fd : Fd \cup {0}, more : BOOLEAN, stage : {"cq", "batch"}]

Task == [slot_id : Idx, req : Cell, pc : {"run", "signal"}]

Completion == [slot_id : Idx, req : Cell]

-------------------------------------------------------------------------------
Init ==
  /\ conns = <<>>
  /\ vacant = [n \in 1 .. SlotCount |-> SlotCount - n]
  /\ free = [n \in 1 .. SlotCount |-> SlotCount - n]
  /\ next_generation = 0
  /\ rmem = [s \in Slot |-> <<>>] /\ wmem = [s \in Slot |-> <<>>]
  /\ ring = [i \in Idx |-> <<>>]
  /\ acceptOp = <<[stage |-> "sq"]>> /\ acceptCqe = <<>>
  /\ eventfdOp = <<[stage |-> "sq"]>>
  /\ eventfd = FALSE /\ tasks = {} /\ queue = <<>> /\ drained = <<>>
  /\ fds = [f \in Fd |-> None]
  /\ peer = [c \in Client |-> "off"]
  /\ nread = [c \in Client |-> 0] /\ got = [c \in Client |-> <<>>]

-------------------------------------------------------------------------------
(***************************************************************************)
(* Submitting operations.  An SQE names its memory by slot and offset and  *)
(* its socket by descriptor, exactly as submit_read and submit_write do.   *)
(***************************************************************************)
SubmitRead(cn) ==
  [kind |-> "recv", generation |-> cn.generation, fd |-> cn.fd, slot |-> cn.slot,
   off |-> cn.read_filled, len |-> ReadRegion - cn.read_filled,
   stage |-> "sq", res |-> 0]

SubmitWrite(cn) ==
  [kind |-> "send", generation |-> cn.generation, fd |-> cn.fd, slot |-> cn.slot,
   off |-> cn.write_offset, len |-> cn.write_filled - cn.write_offset,
   stage |-> "sq", res |-> 0]

SqEntry == [stage |-> "sq"]

Overwrite(mem, off, cells) == SubSeq(mem, 1, off) \o cells

Restage(ops, from, to) ==
  [n \in DOMAIN ops |-> IF ops[n].stage = from THEN [ops[n] EXCEPT !.stage = to]
                                               ELSE ops[n]]

At(ops, stage) == {n \in DOMAIN ops : ops[n].stage = stage}

Some(stage) ==
  \/ \E i \in Idx : At(ring[i], stage) # {}
  \/ At(acceptOp, stage) # {} \/ At(acceptCqe, stage) # {} \/ At(eventfdOp, stage) # {}

(***************************************************************************)
(* libc::close on every descriptor of F: the client behind it is cut off.  *)
(***************************************************************************)
CloseFds(F) ==
  /\ fds' = [f \in Fd |-> IF f \in F THEN None ELSE fds[f]]
  /\ peer' = [c \in Client |-> IF \E f \in F : fds[f] = c THEN "off" ELSE peer[c]]
  /\ UNCHANGED <<nread, got>>

-------------------------------------------------------------------------------
(***************************************************************************)
(* The connection handlers.  Each consumes operation n of ring[i] and ends *)
(* with the connection alive as cn, having pushed ops, or removed.         *)
(***************************************************************************)
Alive(i, n, cn, ops) ==
  /\ conns' = [conns EXCEPT ![i] = cn]
  /\ ring' = [ring EXCEPT ![i] = RemoveAt(@, n) \o ops]
  /\ UNCHANGED <<vacant, free, next_generation, acceptOp, acceptCqe, eventfdOp,
                 eventfd, queue, drained, net>>

\* The connection is closed, its slab entry removed and its slot released.
Freed(i) ==
  /\ conns' = Restrict(conns, DOMAIN conns \ {i})
  /\ vacant' = Append(vacant, i)
  /\ free' = Append(free, conns[i].slot)
  /\ rmem' = [rmem EXCEPT ![conns[i].slot] = <<>>]
  /\ wmem' = [wmem EXCEPT ![conns[i].slot] = <<>>]
  /\ CloseFds({conns[i].fd})

Removed(i, n) ==
  /\ Freed(i)
  /\ ring' = [ring EXCEPT ![i] = RemoveAt(@, n)]
  /\ UNCHANGED <<next_generation, acceptOp, acceptCqe, eventfdOp, bridge>>

\* Nothing is left to send: back to a Recv, or parked (op = <<>>).
Idle(i, n, cn, ops) ==
  /\ Alive(i, n, cn, ops)
  /\ wmem' = [wmem EXCEPT ![cn.slot] = <<>>]

\* Mutant: the Recv is submitted by the callee and by the caller.
ReadMore_Twice(i, n, cn) ==
  Idle(i, n, cn, <<SubmitRead(cn), SubmitRead(cn)>>) /\ UNCHANGED <<rmem, tasks>>

ReadMore(i, n, cn) == Idle(i, n, cn, <<SubmitRead(cn)>>) /\ UNCHANGED <<rmem, tasks>>

\* Mutant: what is left over stays where it is.
Compact_NoMove(cn, consumed) == UNCHANGED rmem

\* The first `consumed` cells of the buffer leave it; the rest moves to the front.
Compact(cn, consumed) ==
  rmem' = [rmem EXCEPT ![cn.slot] = SubSeq(@, consumed + 1, cn.read_filled)]

\* The responses in cells are written behind what is buffered, and sent.
WriteReplies(i, n, cn, consumed, cells, closing) ==
  LET next == [cn EXCEPT !.read_filled = @ - consumed,
                         !.write_filled = @ + Len(cells),
                         !.close_after_drain = closing,
                         !.state = "Writing"]
  IN  /\ Compact(cn, consumed)
      /\ wmem' = [wmem EXCEPT ![cn.slot] = Overwrite(@, cn.write_filled, cells)]
      /\ Alive(i, n, next, <<SubmitWrite(next)>>)
      /\ UNCHANGED tasks

\* Mutant: a Recv stays armed while the connection is parked.
Park_KeepsReading(i, n, cn, consumed, req) ==
  /\ Compact(cn, consumed)
  /\ Idle(i, n, [cn EXCEPT !.read_filled = @ - consumed, !.state = "AwaitingAsync"],
          <<SubmitRead(cn)>>)
  /\ tasks' = tasks \cup {[slot_id |-> i, req |-> req, pc |-> "run"]}

\* The first request is async: its handler is spawned, the connection parked.
Park(i, n, cn, consumed, req) ==
  /\ Compact(cn, consumed)
  /\ Idle(i, n, [cn EXCEPT !.read_filled = @ - consumed,
                           !.state = "AwaitingAsync",
                           !.parked_close_after = CloseOf(Req(req))], <<>>)
  /\ tasks' = tasks \cup {[slot_id |-> i, req |-> req, pc |-> "run"]}

\* Complete requests are at hand, ending at positions ends of the buffer.
Dispatch(i, n, cn, ends, reqs) ==
  \/ /\ Req(reqs[1]).kind = "async"
     /\ \/ HasRegistry /\ Park(i, n, cn, ends[1], reqs[1])
        \/ ~HasRegistry /\ WriteReplies(i, n, cn, ends[1], Responses(reqs, 1), TRUE)
  \/ /\ Req(reqs[1]).kind # "async"
     /\ \E size \in {BatchSize(reqs)} :
          \/ size = 0 /\ Removed(i, n)
          \/ /\ size > 0
             /\ WriteReplies(i, n, cn, ends[size], Responses(reqs, size),
                             CloseOf(Req(reqs[size])))

\* Mutant: a request that does not fit in the read region is awaited.
ProcessBuffered_Wait(i, n, cn) ==
  \E buf \in {SubSeq(rmem[cn.slot], 1, cn.read_filled)} :
  \E ends \in {RequestEnds(buf)} :
    \/ ends = <<>> /\ ReadMore(i, n, cn)
    \/ ends # <<>> /\ \E reqs \in {Parsed(buf, ends)} : Dispatch(i, n, cn, ends, reqs)

ProcessBuffered(i, n, cn) ==
  \E buf \in {SubSeq(rmem[cn.slot], 1, cn.read_filled)} :
  \E ends \in {RequestEnds(buf)} :
    \/ ends = <<>> /\ cn.read_filled = ReadRegion /\ Removed(i, n)
    \/ ends = <<>> /\ cn.read_filled # ReadRegion /\ ReadMore(i, n, cn)
    \/ ends # <<>> /\ \E reqs \in {Parsed(buf, ends)} : Dispatch(i, n, cn, ends, reqs)

\* Mutant: a closing connection does not wait for its write to drain.
Sent_CloseEarly(i, n, cn) ==
  LET next == [cn EXCEPT !.write_filled = 0, !.write_offset = 0, !.state = "Reading"]
  IN  \/ cn.close_after_drain /\ Removed(i, n)
      \/ /\ ~cn.close_after_drain /\ cn.write_offset < cn.write_filled
         /\ Alive(i, n, cn, <<SubmitWrite(cn)>>)
         /\ UNCHANGED <<memory, tasks>>
      \/ /\ ~cn.close_after_drain /\ cn.write_offset >= cn.write_filled
         /\ \/ cn.read_filled > 0 /\ ProcessBuffered(i, n, next)
            \/ cn.read_filled = 0 /\ ReadMore(i, n, next)

\* Mutant: requests left in the read region wait for the next Recv.
Sent_ForgetLeftover(i, n, cn) ==
  LET next == [cn EXCEPT !.write_filled = 0, !.write_offset = 0, !.state = "Reading"]
  IN  \/ /\ cn.write_offset < cn.write_filled
         /\ Alive(i, n, cn, <<SubmitWrite(cn)>>)
         /\ UNCHANGED <<memory, tasks>>
      \/ cn.write_offset >= cn.write_filled /\ cn.close_after_drain /\ Removed(i, n)
      \/ cn.write_offset >= cn.write_filled /\ ~cn.close_after_drain /\ ReadMore(i, n, next)

\* A Send completed: drain the rest, close, or turn back to reading.
Sent(i, n, cn) ==
  LET next == [cn EXCEPT !.write_filled = 0, !.write_offset = 0, !.state = "Reading"]
  IN  \/ /\ cn.write_offset < cn.write_filled
         /\ Alive(i, n, cn, <<SubmitWrite(cn)>>)
         /\ UNCHANGED <<memory, tasks>>
      \/ /\ cn.write_offset >= cn.write_filled
         /\ cn.close_after_drain
         /\ Removed(i, n)
      \/ /\ cn.write_offset >= cn.write_filled
         /\ ~cn.close_after_drain
         /\ \/ cn.read_filled > 0 /\ ProcessBuffered(i, n, next)
            \/ cn.read_filled = 0 /\ ReadMore(i, n, next)

\* Mutant: a Recv or Send that moved nothing is simply tried again.
HandleCompletion_Retry(i, n) ==
  LET cn  == conns[i]
      res == ring[i][n].res
  IN  \/ /\ res = 0
         /\ Alive(i, n, cn, <<IF cn.state = "Reading" THEN SubmitRead(cn) ELSE SubmitWrite(cn)>>)
         /\ UNCHANGED <<memory, tasks>>
      \/ /\ res > 0 /\ cn.state = "Reading"
         /\ ProcessBuffered(i, n, [cn EXCEPT !.read_filled = @ + res])
      \/ /\ res > 0 /\ cn.state = "Writing"
         /\ Sent(i, n, [cn EXCEPT !.write_offset = @ + res])

HandleCompletion(i, n) ==
  LET cn  == conns[i]
      res == ring[i][n].res
  IN  \/ (res = 0 \/ cn.state = "AwaitingAsync") /\ Removed(i, n)
      \/ /\ res > 0 /\ cn.state = "Reading"
         /\ ProcessBuffered(i, n, [cn EXCEPT !.read_filled = @ + res])
      \/ /\ res > 0 /\ cn.state = "Writing"
         /\ Sent(i, n, [cn EXCEPT !.write_offset = @ + res])

-------------------------------------------------------------------------------
(***************************************************************************)
(* The run loop.  submit_and_wait(1) hands the pushed entries to the       *)
(* kernel and returns once something completed; the whole completion queue *)
(* is copied out and handled before the loop comes round again.            *)
(***************************************************************************)
Submit ==
  /\ drained = <<>> /\ ~Some("batch") /\ Some("sq")
  /\ ring' = [i \in Idx |-> Restage(ring[i], "sq", "kernel")]
  /\ acceptOp' = Restage(acceptOp, "sq", "kernel")
  /\ eventfdOp' = Restage(eventfdOp, "sq", "kernel")
  /\ UNCHANGED <<worker, memory, acceptCqe, bridge, net>>

Collect ==
  /\ drained = <<>> /\ ~Some("batch") /\ ~Some("sq") /\ Some("cq")
  /\ ring' = [i \in Idx |-> Restage(ring[i], "cq", "batch")]
  /\ acceptCqe' = Restage(acceptCqe, "cq", "batch")
  /\ eventfdOp' = Restage(eventfdOp, "cq", "batch")
  /\ UNCHANGED <<worker, memory, acceptOp, bridge, net>>

\* A completion for a connection: dropped when its token names no connection
\* or an earlier tenant of the index.
HandleConn(i) ==
  /\ drained = <<>>
  /\ \E n \in At(ring[i], "batch") :
       IF i \notin DOMAIN conns \/ conns[i].generation # ring[i][n].generation
         THEN /\ ring' = [ring EXCEPT ![i] = RemoveAt(@, n)]
              /\ UNCHANGED <<worker, memory, acceptOp, acceptCqe, eventfdOp, bridge, net>>
         ELSE HandleCompletion(i, n)

\* Mutants: the accept is pushed after every completion; or never again.
Rearm_Always(cqe) == acceptOp' = Append(acceptOp, SqEntry)

Rearm_Never(cqe) == UNCHANGED acceptOp

\* The multishot accept is pushed again once the kernel has ended it.
Rearm(cqe) ==
  acceptOp' = IF cqe.more THEN acceptOp ELSE Append(acceptOp, SqEntry)

Insert(fd) ==
  LET i  == Last(vacant)
      cn == [generation |-> next_generation, fd |-> fd, slot |-> Last(free),
             read_filled |-> 0, write_filled |-> 0, write_offset |-> 0,
             state |-> "Reading", close_after_drain |-> FALSE,
             parked_close_after |-> FALSE]
  IN  /\ conns' = [j \in DOMAIN conns \cup {i} |-> IF j = i THEN cn ELSE conns[j]]
      /\ vacant' = Front(vacant)
      /\ free' = Front(free)
      /\ next_generation' = (next_generation + 1) % GenMod
      /\ ring' = [ring EXCEPT ![i] = Append(@, SubmitRead(cn))]

\* Mutant: a client that finds no slot free is forgotten, its descriptor left open.
HandleAccept_KeepFd ==
  LET cqe == Head(acceptCqe)
  IN  /\ drained = <<>> /\ acceptCqe # <<>> /\ cqe.stage = "batch"
      /\ acceptCqe' = Tail(acceptCqe)
      /\ Rearm(cqe)
      /\ \/ /\ cqe.fd = 0 \/ free = <<>>
            /\ UNCHANGED <<worker, ring, net>>
         \/ /\ cqe.fd # 0 /\ free # <<>>
            /\ Insert(cqe.fd)
            /\ UNCHANGED net
      /\ UNCHANGED <<memory, eventfdOp, bridge>>

HandleAccept ==
  LET cqe == Head(acceptCqe)
  IN  /\ drained = <<>> /\ acceptCqe # <<>> /\ cqe.stage = "batch"
      /\ acceptCqe' = Tail(acceptCqe)
      /\ Rearm(cqe)
      /\ \/ /\ cqe.fd = 0
            /\ UNCHANGED <<worker, ring, net>>
         \/ /\ cqe.fd # 0 /\ free = <<>>
            /\ CloseFds({cqe.fd})
            /\ UNCHANGED <<worker, ring>>
         \/ /\ cqe.fd # 0 /\ free # <<>>
            /\ Insert(cqe.fd)
            /\ UNCHANGED net
      /\ UNCHANGED <<memory, eventfdOp, bridge>>

(***************************************************************************)
(* The eventfd completion: the bridge is drained and the Read pushed again *)
(* (it reaches the kernel with the next Submit, so the push need not wait  *)
(* for the loop below).  Then each completion taken is delivered, before   *)
(* the worker looks at anything else, to the connection at its index if    *)
(* that connection is parked.                                              *)
(***************************************************************************)
Drain ==
  \E n \in At(eventfdOp, "batch") :
    /\ drained = <<>>
    /\ drained' = queue /\ queue' = <<>>
    /\ eventfdOp' = Append(RemoveAt(eventfdOp, n), SqEntry)
    /\ UNCHANGED <<worker, memory, ring, acceptOp, acceptCqe, eventfd, tasks, net>>

Parked(i) == i \in DOMAIN conns /\ conns[i].state = "AwaitingAsync"

DeliverAsyncResponse(i, cells) ==
  LET cn == [conns[i] EXCEPT !.write_filled = Len(cells),
                             !.write_offset = 0,
                             !.close_after_drain = conns[i].parked_close_after,
                             !.state = "Writing"]
  IN  \/ Len(cells) > WriteRegion /\ Freed(i) /\ UNCHANGED ring
      \/ /\ Len(cells) <= WriteRegion
         /\ conns' = [conns EXCEPT ![i] = cn]
         /\ wmem' = [wmem EXCEPT ![cn.slot] = cells]
         /\ ring' = [ring EXCEPT ![i] = Append(@, SubmitWrite(cn))]
         /\ UNCHANGED <<vacant, free, rmem, net>>

Deliver ==
  /\ drained # <<>>
  /\ drained' = Tail(drained)
  /\ IF Parked(Head(drained).slot_id)
       THEN DeliverAsyncResponse(Head(drained).slot_id, Response(Head(drained).req))
       ELSE UNCHANGED <<conns, vacant, free, memory, ring, net>>
  /\ UNCHANGED <<next_generation, acceptOp, acceptCqe, eventfdOp, eventfd, tasks, queue>>

-------------------------------------------------------------------------------
(***************************************************************************)
(* The tokio side of the bridge: the finished future's bytes are queued,   *)
(* then the eventfd is written.  A handler that panics aborts the process  *)
(* (panic = "abort" in Cargo.toml), and the worker with it.               *)
(***************************************************************************)
TaskPush(t) ==
  /\ t.pc = "run"
  /\ queue' = Append(queue, [slot_id |-> t.slot_id, req |-> t.req])
  /\ tasks' = (tasks \ {t}) \cup {[t EXCEPT !.pc = "signal"]}
  /\ UNCHANGED <<worker, memory, uring, eventfd, drained, net>>

\* Mutant: the eventfd is written only for a completion that is alone.
TaskSignal_First(t) ==
  /\ t.pc = "signal"
  /\ eventfd' = (eventfd \/ Len(queue) = 1)
  /\ tasks' = tasks \ {t}
  /\ UNCHANGED <<worker, memory, uring, queue, drained, net>>

TaskSignal(t) ==
  /\ t.pc = "signal"
  /\ eventfd' = TRUE
  /\ tasks' = tasks \ {t}
  /\ UNCHANGED <<worker, memory, uring, queue, drained, net>>

-------------------------------------------------------------------------------
(***************************************************************************)
(* The kernel.  A Recv takes any nonempty run of the bytes in flight, a    *)
(* Send any nonempty run of the bytes offered; both fail once the peer is  *)
(* gone.  The accept picks the lowest free descriptor.                     *)
(***************************************************************************)
Complete(i, n, res) ==
  ring' = [ring EXCEPT ![i][n] = [@ EXCEPT !.stage = "cq", !.res = res]]

KernelRecv(i) ==
  \E n \in At(ring[i], "kernel") :
    LET op == ring[i][n]
        c  == fds[op.fd]
    IN  /\ op.kind = "recv"
        /\ \/ /\ c # None
              /\ \E k \in 1 .. op.len :
                   /\ nread[c] + k <= Len(Stream(c))
                   /\ rmem' = [rmem EXCEPT ![op.slot] =
                        Overwrite(@, op.off, SubSeq(Stream(c), nread[c] + 1, nread[c] + k))]
                   /\ nread' = [nread EXCEPT ![c] = @ + k]
                   /\ Complete(i, n, k)
           \/ /\ (c = None \/ peer[c] = "hungup" \/ op.len = 0)
              /\ Complete(i, n, 0)
              /\ UNCHANGED <<rmem, nread>>
        /\ UNCHANGED <<worker, wmem, acceptOp, acceptCqe, eventfdOp, bridge, fds, peer, got>>

KernelSend(i) ==
  \E n \in At(ring[i], "kernel") :
    LET op == ring[i][n]
        c  == fds[op.fd]
    IN  /\ op.kind = "send"
        /\ \/ /\ c # None
              /\ \E k \in 1 .. op.len :
                   /\ got' = IF peer[c] = "hungup" THEN got ELSE
                        [got EXCEPT ![c] = @ \o SubSeq(wmem[op.slot], op.off + 1, op.off + k)]
                   /\ Complete(i, n, k)
           \/ /\ (c = None \/ peer[c] = "hungup" \/ op.len = 0)
              /\ Complete(i, n, 0)
              /\ UNCHANGED got
        /\ UNCHANGED <<worker, memory, acceptOp, acceptCqe, eventfdOp, bridge, fds, peer, nread>>

KernelAccept(c) ==
  \E n \in At(acceptOp, "kernel"), fd \in Fd, more \in BOOLEAN :
    /\ peer[c] = "queued"
    /\ fds[fd] = None /\ \A f \in Fd : fds[f] = None => fd <= f
    /\ AcceptFaults \/ more
    /\ fds' = [fds EXCEPT ![fd] = c]
    /\ peer' = [peer EXCEPT ![c] = "open"]
    /\ acceptCqe' = Append(acceptCqe, [fd |-> fd, more |-> more, stage |-> "cq"])
    /\ acceptOp' = IF more THEN acceptOp ELSE RemoveAt(acceptOp, n)
    /\ UNCHANGED <<worker, memory, ring, eventfdOp, bridge, nread, got>>

KernelAcceptError ==
  \E n \in At(acceptOp, "kernel") :
    /\ AcceptFaults
    /\ acceptOp' = RemoveAt(acceptOp, n)
    /\ acceptCqe' = Append(acceptCqe, [fd |-> 0, more |-> FALSE, stage |-> "cq"])
    /\ UNCHANGED <<worker, memory, ring, eventfdOp, bridge, net>>

KernelEventfd ==
  \E n \in At(eventfdOp, "kernel") :
    /\ eventfd
    /\ eventfd' = FALSE
    /\ eventfdOp' = [eventfdOp EXCEPT ![n].stage = "cq"]
    /\ UNCHANGED <<worker, memory, ring, acceptOp, acceptCqe, tasks, queue, drained, net>>

-------------------------------------------------------------------------------
(***************************************************************************)
(* The clients: each connects, may hang up at any time, and may connect    *)
(* again once the server has closed its side.                              *)
(***************************************************************************)
Connect(c) ==
  /\ peer[c] = "off"
  /\ peer' = [peer EXCEPT ![c] = "queued"]
  /\ nread' = [nread EXCEPT ![c] = 0]
  /\ got' = [got EXCEPT ![c] = <<>>]
  /\ UNCHANGED <<worker, memory, uring, bridge, fds>>

HangUp(c) ==
  /\ peer[c] = "open"
  /\ peer' = [peer EXCEPT ![c] = "hungup"]
  /\ UNCHANGED <<worker, memory, uring, bridge, fds, nread, got>>

-------------------------------------------------------------------------------
WorkerStep == Submit \/ Collect \/ HandleAccept \/ Drain \/ Deliver \/ \E i \in Idx : HandleConn(i)

TokioStep == \E t \in tasks : TaskPush(t) \/ TaskSignal(t)

KernelStep ==
  \/ \E i \in Idx : KernelRecv(i) \/ KernelSend(i)
  \/ \E c \in Client : KernelAccept(c)
  \/ KernelAcceptError \/ KernelEventfd

ClientStep == \E c \in Client : Connect(c) \/ HangUp(c)

Next == WorkerStep \/ TokioStep \/ KernelStep \/ ClientStep

Spec == Init /\ [][Next]_vars

(***************************************************************************)
(* Fairness.  The worker is one thread that never blocks outside           *)
(* submit_and_wait; the kernel completes what can be completed; a handler  *)
(* future runs to its end (it awaits queries the database answers).  An    *)
(* accept armed over and over takes each client in the listen queue.       *)
(***************************************************************************)
Fairness ==
  /\ WF_vars(WorkerStep)
  /\ \A i \in Idx :
       /\ WF_vars(KernelRecv(i)) /\ WF_vars(KernelSend(i))
       /\ WF_vars(\E t \in tasks : t.slot_id = i /\ (TaskPush(t) \/ TaskSignal(t)))
  /\ \A c \in Client : SF_vars(KernelAccept(c))
  /\ WF_vars(KernelEventfd)

FairSpec == Spec /\ Fairness

-------------------------------------------------------------------------------
(***************************************************************************)
(* Safety.                                                                 *)
(***************************************************************************)

Reading(i) == i \in DOMAIN conns /\ conns[i].state = "Reading"
Writing(i) == i \in DOMAIN conns /\ conns[i].state = "Writing"

\* A connection has exactly one operation outstanding, carrying its own
\* generation, descriptor and slot, of the kind its state waits for - and none
\* while it is parked or once it is gone.  So the completions accept.rs:142-149
\* and connection.rs:157-163 guard against never arrive.
OwnOperation ==
  \A i \in Idx :
    IF Reading(i) \/ Writing(i)
      THEN LET op == ring[i][1] IN
           /\ Len(ring[i]) = 1
           /\ op.generation = conns[i].generation
           /\ op.fd = conns[i].fd /\ op.slot = conns[i].slot
           /\ op.kind = IF Reading(i) THEN "recv" ELSE "send"
      ELSE ring[i] = <<>>

\* Every buffer slot is either on the free stack once or held by exactly one
\* connection: none leaks, none is handed out twice (buffers.rs:44-56).
SlotPartition ==
  /\ \A m, n \in DOMAIN free : free[m] = free[n] => m = n
  /\ \A i, j \in DOMAIN conns : conns[i].slot = conns[j].slot => i = j
  /\ \A s \in Slot : (\E n \in DOMAIN free : free[n] = s)
                      <=> ~(\E i \in DOMAIN conns : conns[i].slot = s)

\* The same of the descriptors the kernel opens: each one that is open belongs to
\* one connection, or to one accept completion the worker has not handled yet.
\* So none is leaked when a client finds no slot free, and close() never hits a
\* descriptor that has been given to another client (accept.rs:114-122).
Held   == {conns[i].fd : i \in DOMAIN conns}
Handed == {acceptCqe[n].fd : n \in DOMAIN acceptCqe} \ {0}

DescriptorPartition ==
  /\ {f \in Fd : fds[f] # None} = Held \cup Handed
  /\ Held \cap Handed = {}
  /\ \A i, j \in DOMAIN conns : conns[i].fd = conns[j].fd => i = j
  /\ \A m, n \in DOMAIN acceptCqe :
       acceptCqe[m].fd = acceptCqe[n].fd /\ acceptCqe[m].fd # 0 => m = n

\* What a connection is given when it is accepted has no other owner while it lives,
\* and all of it comes back when it ends (accept.rs:112-136, 155-158).
ResourcePartition == SlotPartition /\ DescriptorPartition

\* What is read and what waits to be sent stay within their regions of the slot
\* (connection.rs:69, 215, 310, 516), and no operation asks the kernel
\* for nothing: its result, 0, would be taken for the end of the connection
\* (connection.rs:69, 110, 185).
RegionsRespected ==
  /\ \A s \in Slot : Len(rmem[s]) <= ReadRegion /\ Len(wmem[s]) <= WriteRegion
  /\ \A i \in Idx : \A n \in DOMAIN ring[i] : ring[i][n].len > 0

\* Responses on their way to a connection, oldest first.
Undelivered == drained \o queue

\* A handler that is running, or whose response is queued, belongs to the
\* connection parked at its index and is the only one that does: a completion
\* never finds its connection gone or its index reused (accept.rs:84-102), and
\* no connection is parked for a response that will not come.
CompletionOwner ==
  /\ \A i \in Idx : Parked(i) =>
       \/ \E t \in tasks : t.pc = "run" /\ t.slot_id = i
       \/ \E p \in DOMAIN Undelivered : Undelivered[p].slot_id = i
  /\ \A t \in tasks : t.pc = "run" =>
       /\ Parked(t.slot_id)
       /\ \A u \in tasks \ {t} : u.pc = "run" => u.slot_id # t.slot_id
       /\ \A p \in DOMAIN Undelivered : Undelivered[p].slot_id # t.slot_id
  /\ \A p \in DOMAIN Undelivered :
       /\ Parked(Undelivered[p].slot_id)
       /\ \A q \in DOMAIN Undelivered \ {p} : Undelivered[q].slot_id # Undelivered[p].slot_id

\* While a completion is queued, something that will wake the worker exists:
\* the eventfd is signalled, its Read has completed, or a task is about to
\* write it (async_bridge.rs:97-105, accept.rs:77-104).
NoLostWakeup ==
  queue # <<>> =>
    \/ eventfd
    \/ At(eventfdOp, "cq") \cup At(eventfdOp, "batch") # {}
    \/ \E t \in tasks : t.pc = "signal"

\* The listener is never lost nor armed twice: the multishot accept is
\* outstanding and every waiting completion says more follow, or the last
\* waiting completion is the one that ended it.  So is the eventfd Read.
ArmedOnce ==
  /\ \/ Len(acceptOp) = 1 /\ \A n \in DOMAIN acceptCqe : acceptCqe[n].more
     \/ /\ acceptOp = <<>> /\ acceptCqe # <<>>
        /\ \A n \in DOMAIN acceptCqe : acceptCqe[n].more <=> n # Len(acceptCqe)
  /\ Len(eventfdOp) = 1

\* A push never finds the submission queue full, so no push fails and the
\* error paths that end the worker (`?` in run_loop) are never taken.
SqFits ==
  Cardinality(UNION {{i} \X At(ring[i], "sq") : i \in Idx})
    + Cardinality(At(acceptOp, "sq")) + Cardinality(At(eventfdOp, "sq")) <= RingEntries

(***************************************************************************)
(* The ledger of a connection, while its client is there: the requests     *)
(* consumed are exactly the ones answered, in order - by what the client   *)
(* has, what the write region still holds and, when parked, the response   *)
(* the handler owes - and the read region holds what follows them.         *)
(***************************************************************************)
Done(i, kind) ==   \* cells moved by a completed operation not yet handled
  IF \E n \in DOMAIN ring[i] : ring[i][n].kind = kind /\ ring[i][n].stage \in {"cq", "batch"}
    THEN ring[i][1].res ELSE 0

Ledger ==
  \A i \in DOMAIN conns :
    peer[fds[conns[i].fd]] = "open" =>
      LET cn   == conns[i]
          c    == fds[cn.fd]
          held == cn.read_filled + Done(i, "recv")
          used == nread[c] - held
          unsent == SubSeq(wmem[cn.slot], cn.write_offset + Done(i, "send") + 1, cn.write_filled)
          owed == {x.req : x \in {y \in {t \in tasks : t.pc = "run"} \cup ToSet(Undelivered) :
                                     y.slot_id = i}}
      IN  /\ SubSeq(rmem[cn.slot], 1, held) = SubSeq(Stream(c), used + 1, nread[c])
          /\ \E k \in 0 .. Len(Script[c]) :
               /\ used = Len(RequestCells(c, k))
               /\ got[c] \o unsent = ReplyCells(c, IF Parked(i) THEN k - 1 ELSE k)
               /\ \A x \in owed : x.c = c /\ x.k = k

(***************************************************************************)
(* The worker implements the service its clients see: its own view of      *)
(* them is the refinement mapping.                                         *)
(***************************************************************************)
Service == INSTANCE PipelinedService WITH
  Client <- Client, Script <- Script, ReadRegion <- ReadRegion, WriteRegion <- WriteRegion,
  MaxPipeline <- MaxPipeline, HasRegistry <- HasRegistry,
  peer <- peer, nread <- nread, got <- got

ImplementsService == Service!SSpec

(***************************************************************************)
(* Liveness.                                                               *)
(***************************************************************************)

\* A client that has been accepted and stays gets every answer, unless the
\* server closes its connection (ImplementsService says when it may).
Served == \A c \in Client : peer[c] = "open" ~> got[c] = Replies(c) \/ peer[c] # "open"

\* A client in the listen queue is accepted: the accept is always re-armed.
Accepted == \A c \in Client : peer[c] = "queued" ~> peer[c] # "queued"

\* A connection whose client has gone is closed and its resources return.
Reclaimed == \A c \in Client : peer[c] = "hungup" ~> peer[c] = "off"
===============================================================================
