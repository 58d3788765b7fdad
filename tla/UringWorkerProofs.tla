--------------------------- MODULE UringWorkerProofs ---------------------------
(***************************************************************************)
(* Theorems about UringWorker, for every value of its constants.           *)
(*                                                                         *)
(* The first half is about who owns what: slab entries, slots, operations, *)
(* completions, the wake-up. The values the handlers compute from the      *)
(* bytes (how much of a buffer is consumed, what is written) do not matter *)
(* to it, so a connection is only known there to be a record with the      *)
(* right fields: IsConn leaves the numeric ones untyped.                   *)
(*                                                                         *)
(* The second half is about the bytes. It starts with facts about          *)
(* sequences of cells, says with them what the parser and the batches      *)
(* compute, gives every connection an account of its client's cells        *)
(* (ConnOK), shows that the kernel and each branch of the handlers keep    *)
(* the account, and carries it through every step of the specification     *)
(* (Balanced). The ledger, the buffer regions, the descriptors and the     *)
(* refinement of PipelinedService follow.                                  *)
(***************************************************************************)
EXTENDS UringWorker, FiniteSetTheorems, SequenceTheorems, NaturalsInduction, TLAPS

States == {"Reading", "Writing", "AwaitingAsync"}

IsConn(cn) ==
  cn \in [generation : {cn.generation}, fd : {cn.fd}, slot : Slot,
          read_filled : {cn.read_filled}, write_filled : {cn.write_filled},
          write_offset : {cn.write_offset}, state : States,
          close_after_drain : {cn.close_after_drain},
          parked_close_after : {cn.parked_close_after}]

SameOwner(cn, cm) ==
  cn.generation = cm.generation /\ cn.fd = cm.fd /\ cn.slot = cm.slot

Pending(cn) == IF cn.state = "Reading" THEN SubmitRead(cn) ELSE SubmitWrite(cn)

(***************************************************************************)
(* What handling a completion of connection i comes to.                    *)
(***************************************************************************)
Continues(i) ==
  /\ \E cn : /\ IsConn(cn) /\ SameOwner(cn, conns[i])
             /\ cn.state \in {"Reading", "Writing"}
             /\ conns' = [conns EXCEPT ![i] = cn]
             /\ ring' = [ring EXCEPT ![i] = <<Pending(cn)>>]
  /\ UNCHANGED <<vacant, free, tasks>>

Parks(i) ==
  /\ \E cn : /\ IsConn(cn) /\ SameOwner(cn, conns[i])
             /\ cn.state = "AwaitingAsync"
             /\ conns' = [conns EXCEPT ![i] = cn]
  /\ ring' = [ring EXCEPT ![i] = <<>>]
  /\ \E req : tasks' = tasks \cup {[slot_id |-> i, req |-> req, pc |-> "run"]}
  /\ UNCHANGED <<vacant, free>>

Removes(i) ==
  /\ conns' = Restrict(conns, DOMAIN conns \ {i})
  /\ vacant' = Append(vacant, i)
  /\ free' = Append(free, conns[i].slot)
  /\ ring' = [ring EXCEPT ![i] = <<>>]
  /\ UNCHANGED tasks

Outcome(i) ==
  /\ Continues(i) \/ Parks(i) \/ Removes(i)
  /\ UNCHANGED <<acceptOp, acceptCqe, eventfdOp, eventfd, queue, drained>>

LEMMA Replaced ==
  ASSUME NEW x, NEW y
  PROVE  /\ RemoveAt(<<x>>, 1) = <<>>
         /\ RemoveAt(<<x>>, 1) \o <<y>> = <<y>>
         /\ RemoveAt(<<x>>, 1) \o <<>> = <<>>
  <1>1. SubSeq(<<x>>, 1, 1 - 1) = <<>> /\ SubSeq(<<x>>, 1 + 1, Len(<<x>>)) = <<>>
    BY SubSeqEmpty
  <1>2. <<>> \in Seq({y}) /\ <<y>> \in Seq({y})
    OBVIOUS
  <1>3. <<>> \o <<>> = <<>> /\ <<>> \o <<y>> = <<y>>
    BY <1>2, ConcatEmptySeq
  <1>4. RemoveAt(<<x>>, 1) = <<>>
    BY <1>1, <1>3 DEF RemoveAt
  <1> QED BY <1>3, <1>4

LEMMA AliveOutcome ==
  ASSUME NEW i, NEW x, ring[i] = <<x>>, NEW cn, NEW op,
         Alive(i, 1, cn, <<op>>) \/ Alive(i, 1, cn, <<>>)
  PROVE  /\ conns' = [conns EXCEPT ![i] = cn]
         /\ UNCHANGED <<vacant, free, acceptOp, acceptCqe, eventfdOp, eventfd, queue, drained>>
         /\ Alive(i, 1, cn, <<op>>) => ring' = [ring EXCEPT ![i] = <<op>>]
         /\ Alive(i, 1, cn, <<>>) => ring' = [ring EXCEPT ![i] = <<>>]
  BY SMTT(30), Replaced DEF Alive

LEMMA RemovedOutcome ==
  ASSUME NEW i, NEW x, ring[i] = <<x>>, Removed(i, 1)
  PROVE  Outcome(i)
  BY Replaced DEF Removed, Freed, Outcome, Removes, bridge

LEMMA ReadMoreOutcome ==
  ASSUME NEW i, NEW x, ring[i] = <<x>>, NEW cn, IsConn(cn), SameOwner(cn, conns[i]),
         cn.state = "Reading", ReadMore(i, 1, cn)
  PROVE  Outcome(i)
  <1>1. Alive(i, 1, cn, <<SubmitRead(cn)>>) /\ tasks' = tasks
    BY DEF ReadMore, Idle
  <1>2. Pending(cn) = SubmitRead(cn)
    BY DEF Pending
  <1> QED BY <1>1, <1>2, AliveOutcome DEF Outcome, Continues

LEMMA WriteRepliesOutcome ==
  ASSUME NEW i, NEW x, ring[i] = <<x>>, NEW cn, IsConn(cn), SameOwner(cn, conns[i]),
         NEW consumed, NEW cells, NEW closing,
         WriteReplies(i, 1, cn, consumed, cells, closing)
  PROVE  Outcome(i)
  <1> DEFINE next == [cn EXCEPT !.read_filled = @ - consumed,
                                !.write_filled = @ + Len(cells),
                                !.close_after_drain = closing,
                                !.state = "Writing"]
  <1>1. Alive(i, 1, next, <<SubmitWrite(next)>>) /\ tasks' = tasks
    BY DEF WriteReplies
  <1>2. IsConn(next) /\ next.state = "Writing" /\ SameOwner(next, conns[i])
    BY DEF IsConn, SameOwner, States
  <1>3. Pending(next) = SubmitWrite(next)
    BY <1>2 DEF Pending
  <1> HIDE DEF next
  <1> QED BY <1>1, <1>2, <1>3, AliveOutcome DEF Outcome, Continues

LEMMA ParkOutcome ==
  ASSUME NEW i, NEW x, ring[i] = <<x>>, NEW cn, IsConn(cn), SameOwner(cn, conns[i]),
         NEW consumed, NEW req, Park(i, 1, cn, consumed, req)
  PROVE  Outcome(i)
  <1> DEFINE next == [cn EXCEPT !.read_filled = @ - consumed,
                                !.state = "AwaitingAsync",
                                !.parked_close_after = CloseOf(Req(req))]
  <1>1. Alive(i, 1, next, <<>>) /\ tasks' = tasks \cup {[slot_id |-> i, req |-> req, pc |-> "run"]}
    BY DEF Park, Idle
  <1>2. IsConn(next) /\ next.state = "AwaitingAsync" /\ SameOwner(next, conns[i])
    BY DEF IsConn, SameOwner, States
  <1> HIDE DEF next
  <1> QED BY <1>1, <1>2, AliveOutcome DEF Outcome, Parks

LEMMA ProcessOutcome ==
  ASSUME NEW i, NEW x, ring[i] = <<x>>, NEW cn, IsConn(cn), SameOwner(cn, conns[i]),
         cn.state = "Reading", ProcessBuffered(i, 1, cn)
  PROVE  Outcome(i)
  <1>1. CASE ReadMore(i, 1, cn)
    BY <1>1, ReadMoreOutcome
  <1>2. CASE Removed(i, 1)
    BY <1>2, RemovedOutcome
  <1>3. CASE \E ends, reqs : Dispatch(i, 1, cn, ends, reqs)
    <2>1. \/ Removed(i, 1)
          \/ \E consumed, cells, closing : WriteReplies(i, 1, cn, consumed, cells, closing)
          \/ \E consumed, req : Park(i, 1, cn, consumed, req)
      BY <1>3 DEF Dispatch
    <2> QED BY <2>1, RemovedOutcome, WriteRepliesOutcome, ParkOutcome
  <1> QED BY <1>1, <1>2, <1>3 DEF ProcessBuffered

-------------------------------------------------------------------------------
(***************************************************************************)
(* The ownership invariant: the slab, its vacant keys, the slots and the   *)
(* operations.  OwnOperation alone is not inductive: that an index just    *)
(* taken from the vacant list carries no operation needs the list to hold  *)
(* exactly unoccupied indices, once each, and to be as long as the stack   *)
(* of free slots the worker tests before it accepts.                       *)
(***************************************************************************)
IsOp(op) ==
  op \in [kind : {"recv", "send"}, generation : {op.generation}, fd : {op.fd},
          slot : {op.slot}, off : {op.off}, len : {op.len}, stage : Stage, res : {op.res}]

Busy(i) == Reading(i) \/ Writing(i)

SlabOK ==
  /\ DOMAIN conns \subseteq Idx
  /\ conns = [i \in DOMAIN conns |-> conns[i]]
  /\ \A i \in DOMAIN conns : IsConn(conns[i])
  /\ vacant \in Seq(Idx) /\ free \in Seq(Slot) /\ Len(vacant) = Len(free)
  /\ \A n \in DOMAIN vacant : vacant[n] \notin DOMAIN conns
  /\ \A m, n \in DOMAIN vacant : vacant[m] = vacant[n] => m = n

OpMatches(op, cn) ==
  /\ IsOp(op)
  /\ op.generation = cn.generation /\ op.fd = cn.fd /\ op.slot = cn.slot
  /\ op.kind = IF cn.state = "Reading" THEN "recv" ELSE "send"

RingAt(i) ==
  IF Busy(i) THEN \E op : ring[i] = <<op>> /\ OpMatches(op, conns[i])
             ELSE ring[i] = <<>>

RingOK == ring = [i \in Idx |-> ring[i]] /\ \A i \in Idx : RingAt(i)

Ownership == SlabOK /\ RingOK /\ SlotPartition

LEMMA OwnershipInit == Init => Ownership
  <1> SUFFICES ASSUME Init PROVE Ownership
    OBVIOUS
  <1>1. DOMAIN conns = {} /\ conns = [i \in DOMAIN conns |-> conns[i]]
    BY DEF Init
  <1>2. /\ vacant \in Seq(Idx) /\ free \in Seq(Slot)
        /\ Len(vacant) = SlotCount /\ Len(free) = SlotCount
    BY WorkerAssumption DEF Init, Idx, Slot
  <1>3. SlabOK
    BY <1>1, <1>2, WorkerAssumption DEF SlabOK, Init
  <1>4. RingOK
    BY <1>1 DEF RingOK, RingAt, Init, Busy, Reading, Writing
  <1>5. \A s \in Slot : SlotCount - s \in DOMAIN free /\ free[SlotCount - s] = s
    BY WorkerAssumption DEF Init, Slot
  <1>6. \A m, n \in DOMAIN free : free[m] = free[n] => m = n
    BY WorkerAssumption DEF Init
  <1>7. SlotPartition
    BY <1>1, <1>5, <1>6, Zenon DEF SlotPartition
  <1> QED BY <1>3, <1>4, <1>7 DEF Ownership

\* A busy index has a single operation, and only a busy index has one.
LEMMA ConnStep ==
  ASSUME Ownership, NEW i \in Idx, HandleConn(i)
  PROVE  i \in DOMAIN conns /\ ~Parked(i) /\ Outcome(i)
  <1> PICK n \in At(ring[i], "batch") :
        IF i \notin DOMAIN conns \/ conns[i].generation # ring[i][n].generation
          THEN TRUE ELSE HandleCompletion(i, n)
    BY DEF HandleConn
  <1>1. ring[i] # <<>>
    BY DEF At
  <1>2. Busy(i) /\ ring[i] = <<ring[i][1]>> /\ ring[i][1].generation = conns[i].generation
    <2>1. RingAt(i)
      BY DEF Ownership, RingOK
    <2> QED BY <1>1, <2>1 DEF RingAt, OpMatches
  <1>3. n = 1
    BY <1>2 DEF At
  <1>4. i \in DOMAIN conns /\ ~Parked(i)
    BY <1>2 DEF Busy, Reading, Writing, Parked
  <1>5. HandleCompletion(i, 1)
    BY <1>2, <1>3, <1>4
  <1>6. IsConn(conns[i]) /\ SameOwner(conns[i], conns[i])
    BY <1>4 DEF Ownership, SlabOK, SameOwner
  <1> DEFINE res == ring[i][1].res
             rd == [conns[i] EXCEPT !.read_filled = @ + res]
             wr == [conns[i] EXCEPT !.write_offset = @ + res]
             next == [wr EXCEPT !.write_filled = 0, !.write_offset = 0, !.state = "Reading"]
  <1>7. CASE Removed(i, 1)
    BY <1>2, <1>4, <1>7, RemovedOutcome
  <1>8. CASE conns[i].state = "Reading" /\ ProcessBuffered(i, 1, rd)
    <2>1. IsConn(rd) /\ SameOwner(rd, conns[i]) /\ rd.state = "Reading"
      BY <1>6, <1>8 DEF IsConn, SameOwner, States
    <2> QED BY <1>2, <1>4, <1>8, <2>1, ProcessOutcome
  <1>9. CASE conns[i].state = "Writing" /\ Sent(i, 1, wr)
    <2>1. IsConn(wr) /\ SameOwner(wr, conns[i]) /\ wr.state = "Writing"
      BY <1>6, <1>9 DEF IsConn, SameOwner, States
    <2>2. IsConn(next) /\ SameOwner(next, conns[i]) /\ next.state = "Reading"
      BY <1>6 DEF IsConn, SameOwner, States
    <2>3. \/ Alive(i, 1, wr, <<SubmitWrite(wr)>>) /\ UNCHANGED tasks
          \/ Removed(i, 1) \/ ProcessBuffered(i, 1, next) \/ ReadMore(i, 1, next)
      BY <1>9 DEF Sent
    <2>4. Pending(wr) = SubmitWrite(wr)
      BY <2>1 DEF Pending
    <2> HIDE DEF wr, next
    <2>5. CASE Alive(i, 1, wr, <<SubmitWrite(wr)>>) /\ UNCHANGED tasks
      BY <1>2, <1>4, <2>1, <2>4, <2>5, AliveOutcome DEF Outcome, Continues
    <2> QED BY <1>2, <1>4, <2>2, <2>3, <2>5, RemovedOutcome, ProcessOutcome, ReadMoreOutcome
  <1>10. \/ Removed(i, 1)
         \/ conns[i].state = "Reading" /\ ProcessBuffered(i, 1, rd)
         \/ conns[i].state = "Writing" /\ Sent(i, 1, wr)
    BY <1>5, Zenon DEF HandleCompletion
  <1> QED BY <1>7, <1>8, <1>9, <1>10, Zenon

(***************************************************************************)
(* Preservation of Ownership, one lemma per way a step changes it.         *)
(***************************************************************************)
LEMMA OwnershipImplies == Ownership => OwnOperation
  <1> SUFFICES ASSUME Ownership, NEW i \in Idx, RingAt(i)
               PROVE  OwnOperation!(i)
    BY DEF Ownership, RingOK, OwnOperation
  <1>1. CASE Busy(i)
    <2>1. PICK op : ring[i] = <<op>> /\ OpMatches(op, conns[i])
      BY <1>1 DEF RingAt
    <2>2. Len(ring[i]) = 1 /\ ring[i][1] = op
      BY <2>1
    <2> QED BY <1>1, <2>1, <2>2 DEF OpMatches, Busy, Reading, Writing
  <1>2. CASE ~Busy(i)
    BY <1>2 DEF RingAt, Busy
  <1> QED BY <1>1, <1>2

\* Nothing changes but at index i.
LEMMA RingFrame ==
  ASSUME RingOK, NEW i \in Idx,
         ring' = [ring EXCEPT ![i] = ring'[i]], RingAt(i)',
         DOMAIN conns \ {i} = DOMAIN conns' \ {i},
         \A j \in DOMAIN conns \ {i} : conns'[j] = conns[j]
  PROVE  RingOK'
  <1>1. ASSUME NEW j \in Idx, j # i PROVE RingAt(j)'
    <2>1. ring'[j] = ring[j] /\ RingAt(j)
      BY <1>1 DEF RingOK
    <2>2. CASE j \in DOMAIN conns
      BY <1>1, <2>1, <2>2 DEF RingAt, Busy, Reading, Writing
    <2>3. CASE j \notin DOMAIN conns
      BY <1>1, <2>1, <2>3 DEF RingAt, Busy, Reading, Writing
    <2> QED BY <2>2, <2>3
  <1> QED BY <1>1 DEF RingOK

LEMMA PendingOp ==
  ASSUME NEW cn, IsConn(cn), cn.state \in {"Reading", "Writing"}
  PROVE  OpMatches(Pending(cn), cn)
  BY DEF OpMatches, Pending, SubmitRead, SubmitWrite, IsOp, Stage

LEMMA UpdateOwn ==
  ASSUME Ownership, NEW i \in Idx, i \in DOMAIN conns,
         NEW cn, IsConn(cn), SameOwner(cn, conns[i]),
         conns' = [conns EXCEPT ![i] = cn],
         ring' = [ring EXCEPT ![i] =
                    IF cn.state = "AwaitingAsync" THEN <<>> ELSE <<Pending(cn)>>],
         UNCHANGED <<vacant, free>>
  PROVE  Ownership'
  <1>1. /\ DOMAIN conns' = DOMAIN conns /\ conns'[i] = cn
        /\ \A j \in DOMAIN conns : j # i => conns'[j] = conns[j]
    BY DEF Ownership, SlabOK
  <1>2. \A j \in DOMAIN conns : conns'[j].slot = conns[j].slot
    BY <1>1 DEF SameOwner
  <1>3. SlabOK'
    BY <1>1 DEF Ownership, SlabOK
  <1>4. SlotPartition'
    BY <1>1, <1>2 DEF Ownership, SlotPartition
  <1>5. RingAt(i)'
    <2>1. cn.state \in States
      BY DEF IsConn
    <2>2. ring'[i] = IF cn.state = "AwaitingAsync" THEN <<>> ELSE <<Pending(cn)>>
      BY DEF Ownership, RingOK
    <2>3. CASE cn.state = "AwaitingAsync"
      BY <1>1, <2>2, <2>3 DEF RingAt, Busy, Reading, Writing
    <2>4. CASE cn.state \in {"Reading", "Writing"}
      <3>1. \E op : ring'[i] = <<op>> /\ OpMatches(op, conns'[i])
        BY <1>1, <2>2, <2>4, PendingOp
      <3>2. Busy(i)'
        BY <1>1, <2>4 DEF Busy, Reading, Writing
      <3> QED BY <3>1, <3>2 DEF RingAt
    <2> QED BY <2>1, <2>3, <2>4 DEF States
  <1>6. RingOK'
    <2>1. ring' = [ring EXCEPT ![i] = ring'[i]]
      BY DEF Ownership, RingOK
    <2> QED BY <1>1, <1>5, <2>1, RingFrame DEF Ownership
  <1> QED BY <1>3, <1>4, <1>6 DEF Ownership

LEMMA AppendFacts ==
  ASSUME NEW S, NEW s \in Seq(S), NEW e \in S
  PROVE  /\ Append(s, e) \in Seq(S) /\ Len(Append(s, e)) = Len(s) + 1
         /\ DOMAIN Append(s, e) = 1 .. Len(s) + 1 /\ DOMAIN s = 1 .. Len(s)
         /\ \A n \in DOMAIN s : Append(s, e)[n] = s[n]
         /\ Append(s, e)[Len(s) + 1] = e
  OBVIOUS

LEMMA FrontProperties ==
  ASSUME NEW S, NEW s \in Seq(S), s # <<>>
  PROVE  /\ Front(s) \in Seq(S) /\ Len(Front(s)) = Len(s) - 1
         /\ DOMAIN s = 1 .. Len(s) /\ DOMAIN Front(s) = 1 .. Len(s) - 1
         /\ \A n \in DOMAIN Front(s) : Front(s)[n] = s[n]
         /\ Len(s) \in DOMAIN s /\ Last(s) = s[Len(s)] /\ Last(s) \in S
  <1>1. Len(s) \in Nat \ {0} /\ DOMAIN s = 1 .. Len(s)
    BY EmptySeq, LenProperties
  <1>2. \A n \in 1 .. Len(s) - 1 : s[n] \in S
    BY <1>1
  <1>3. /\ SubSeq(s, 1, Len(s) - 1) \in Seq(S)
        /\ Len(SubSeq(s, 1, Len(s) - 1)) = Len(s) - 1
        /\ \A n \in 1 .. Len(s) - 1 : SubSeq(s, 1, Len(s) - 1)[n] = s[n]
    BY <1>1, <1>2, SubSeqProperties
  <1> QED BY <1>1, <1>3 DEF Front, Last

LEMMA RemoveOwn ==
  ASSUME Ownership, NEW i \in Idx, i \in DOMAIN conns,
         conns' = Restrict(conns, DOMAIN conns \ {i}),
         vacant' = Append(vacant, i), free' = Append(free, conns[i].slot),
         ring' = [ring EXCEPT ![i] = <<>>]
  PROVE  Ownership'
  <1>1. /\ DOMAIN conns' = DOMAIN conns \ {i}
        /\ \A j \in DOMAIN conns \ {i} : conns'[j] = conns[j]
    BY DEF Restrict
  <1>2. conns[i].slot \in Slot
    BY DEF Ownership, SlabOK, IsConn
  <1>3. /\ vacant' \in Seq(Idx) /\ Len(vacant') = Len(vacant) + 1
        /\ DOMAIN vacant' = 1 .. Len(vacant) + 1 /\ DOMAIN vacant = 1 .. Len(vacant)
        /\ Len(vacant) \in Nat
        /\ \A n \in DOMAIN vacant : vacant'[n] = vacant[n]
        /\ vacant'[Len(vacant) + 1] = i
    BY AppendFacts DEF Ownership, SlabOK
  <1>4. /\ free' \in Seq(Slot) /\ Len(free') = Len(free) + 1
        /\ DOMAIN free' = 1 .. Len(free) + 1 /\ DOMAIN free = 1 .. Len(free)
        /\ Len(free) \in Nat
        /\ \A n \in DOMAIN free : free'[n] = free[n]
        /\ free'[Len(free) + 1] = conns[i].slot
    BY <1>2, AppendFacts DEF Ownership, SlabOK
  <1>5. SlabOK'
    <2>1. conns' = [j \in DOMAIN conns' |-> conns'[j]]
      BY DEF Restrict
    <2>2. DOMAIN conns' \subseteq Idx /\ \A j \in DOMAIN conns' : IsConn(conns'[j])
      BY <1>1 DEF Ownership, SlabOK
    <2>3. \A n \in DOMAIN vacant' : vacant'[n] \notin DOMAIN conns'
      BY <1>1, <1>3 DEF Ownership, SlabOK
    <2>4. \A m, n \in DOMAIN vacant' : vacant'[m] = vacant'[n] => m = n
      BY <1>3 DEF Ownership, SlabOK
    <2> QED BY <1>3, <1>4, <2>1, <2>2, <2>3, <2>4 DEF Ownership, SlabOK
  <1>6. SlotPartition'
    <2>1. \A n \in DOMAIN free : free[n] # conns[i].slot
      BY <1>2 DEF Ownership, SlotPartition
    <2>2. ASSUME NEW m \in DOMAIN free', NEW n \in DOMAIN free', free'[m] = free'[n]
          PROVE  m = n
      <3>1. \A k \in DOMAIN free' : k \in DOMAIN free \/ k = Len(free) + 1
        BY <1>4
      <3>2. CASE m \in DOMAIN free /\ n \in DOMAIN free
        BY <1>4, <2>2, <3>2 DEF Ownership, SlotPartition
      <3>3. CASE m = Len(free) + 1 \/ n = Len(free) + 1
        BY <1>4, <2>1, <2>2, <3>1, <3>3
      <3> QED BY <3>1, <3>2, <3>3
    <2>3. ASSUME NEW j \in DOMAIN conns', NEW k \in DOMAIN conns', conns'[j].slot = conns'[k].slot
          PROVE  j = k
      <3>1. j \in DOMAIN conns /\ k \in DOMAIN conns
        BY <1>1
      <3>2. conns[j].slot = conns[k].slot
        BY <1>1, <2>3
      <3> QED BY <3>1, <3>2 DEF Ownership, SlotPartition
    <2>4. ASSUME NEW s \in Slot
          PROVE  (\E n \in DOMAIN free' : free'[n] = s)
                  <=> ~(\E j \in DOMAIN conns' : conns'[j].slot = s)
      <3>1. (\E n \in DOMAIN free' : free'[n] = s)
              <=> (\E n \in DOMAIN free : free[n] = s) \/ s = conns[i].slot
        BY <1>4
      <3>2. (\E j \in DOMAIN conns' : conns'[j].slot = s)
              <=> (\E j \in DOMAIN conns \ {i} : conns[j].slot = s)
        BY <1>1
      <3>3. (\E j \in DOMAIN conns \ {i} : conns[j].slot = s)
              <=> (\E j \in DOMAIN conns : conns[j].slot = s) /\ s # conns[i].slot
        BY DEF Ownership, SlotPartition
      <3> QED BY <3>1, <3>2, <3>3 DEF Ownership, SlotPartition
    <2> QED BY <2>2, <2>3, <2>4 DEF SlotPartition
  <1>7. RingOK'
    <2>1. ring'[i] = <<>> /\ ring' = [ring EXCEPT ![i] = ring'[i]]
      BY DEF Ownership, RingOK
    <2>2. RingAt(i)'
      BY <1>1, <2>1 DEF RingAt, Busy, Reading, Writing
    <2> QED BY <1>1, <2>1, <2>2, RingFrame DEF Ownership
  <1> QED BY <1>5, <1>6, <1>7 DEF Ownership


LEMMA InsertOwn ==
  ASSUME Ownership, NEW fd, free # <<>>, Insert(fd)
  PROVE  Ownership'
  <1> PICK i : i = Last(vacant)
    OBVIOUS
  <1> PICK cn :
        cn = [generation |-> next_generation, fd |-> fd, slot |-> Last(free),
              read_filled |-> 0, write_filled |-> 0, write_offset |-> 0,
              state |-> "Reading", close_after_drain |-> FALSE,
              parked_close_after |-> FALSE]
    OBVIOUS
  <1>1. /\ conns' = [j \in DOMAIN conns \cup {i} |-> IF j = i THEN cn ELSE conns[j]]
        /\ vacant' = Front(vacant) /\ free' = Front(free)
        /\ ring' = [ring EXCEPT ![i] = Append(@, SubmitRead(cn))]
    BY DEF Insert
  <1>2. vacant # <<>>
    BY EmptySeq DEF Ownership, SlabOK
  <1>3. /\ vacant' \in Seq(Idx) /\ Len(vacant') = Len(vacant) - 1
        /\ DOMAIN vacant = 1 .. Len(vacant) /\ DOMAIN vacant' = 1 .. Len(vacant) - 1
        /\ \A n \in DOMAIN vacant' : vacant'[n] = vacant[n]
        /\ Len(vacant) \in DOMAIN vacant /\ vacant[Len(vacant)] = i /\ i \in Idx
    BY <1>1, <1>2, FrontProperties DEF Ownership, SlabOK
  <1>4. /\ free' \in Seq(Slot) /\ Len(free') = Len(free) - 1
        /\ DOMAIN free = 1 .. Len(free) /\ DOMAIN free' = 1 .. Len(free) - 1
        /\ \A n \in DOMAIN free' : free'[n] = free[n]
        /\ Len(free) \in DOMAIN free /\ free[Len(free)] = cn.slot /\ cn.slot \in Slot
    BY <1>1, FrontProperties DEF Ownership, SlabOK
  <1>5. i \notin DOMAIN conns
    BY <1>3 DEF Ownership, SlabOK
  <1>6. IsConn(cn) /\ cn.state = "Reading"
    BY <1>4 DEF IsConn, States
  <1>7. Pending(cn) = SubmitRead(cn)
    BY <1>6 DEF Pending
  <1>8. /\ DOMAIN conns' = DOMAIN conns \cup {i} /\ conns'[i] = cn
        /\ \A j \in DOMAIN conns : conns'[j] = conns[j]
    BY <1>1, <1>5
  <1>9. SlabOK'
    <2>1. conns' = [j \in DOMAIN conns' |-> conns'[j]]
      BY <1>1
    <2>2. DOMAIN conns' \subseteq Idx
      BY <1>3, <1>8 DEF Ownership, SlabOK
    <2>3. \A j \in DOMAIN conns' : IsConn(conns'[j])
      BY <1>6, <1>8 DEF Ownership, SlabOK
    <2>4. ASSUME NEW n \in DOMAIN vacant' PROVE vacant'[n] \notin DOMAIN conns'
      <3>1. n \in DOMAIN vacant /\ n # Len(vacant) /\ vacant'[n] = vacant[n]
        BY <1>3
      <3>2. vacant[n] \notin DOMAIN conns
        BY <3>1 DEF Ownership, SlabOK
      <3>3. vacant[n] # i
        BY <1>3, <3>1 DEF Ownership, SlabOK
      <3> QED BY <1>8, <3>1, <3>2, <3>3
    <2>5. ASSUME NEW m \in DOMAIN vacant', NEW n \in DOMAIN vacant', vacant'[m] = vacant'[n]
          PROVE  m = n
      <3>1. m \in DOMAIN vacant /\ n \in DOMAIN vacant /\ vacant[m] = vacant[n]
        BY <1>3, <2>5
      <3> QED BY <3>1 DEF Ownership, SlabOK
    <2> QED BY <1>3, <1>4, <2>1, <2>2, <2>3, <2>4, <2>5 DEF Ownership, SlabOK
  <1>10. SlotPartition'
    <2>1. \A m, n \in DOMAIN free' : free'[m] = free'[n] => m = n
      BY <1>4 DEF Ownership, SlotPartition
    <2>2. \A j \in DOMAIN conns : conns[j].slot # cn.slot
      BY <1>4 DEF Ownership, SlotPartition
    <2>3. \A j, k \in DOMAIN conns' : conns'[j].slot = conns'[k].slot => j = k
      BY <1>8, <2>2 DEF Ownership, SlotPartition
    <2>4. ASSUME NEW s \in Slot
          PROVE  (\E n \in DOMAIN free' : free'[n] = s)
                  <=> ~(\E j \in DOMAIN conns' : conns'[j].slot = s)
      <3>1. (\E n \in DOMAIN free' : free'[n] = s)
              <=> (\E n \in DOMAIN free : free[n] = s) /\ s # cn.slot
        BY <1>4 DEF Ownership, SlotPartition
      <3>2. (\E j \in DOMAIN conns' : conns'[j].slot = s)
              <=> (\E j \in DOMAIN conns : conns[j].slot = s) \/ s = cn.slot
        BY <1>8
      <3> QED BY <3>1, <3>2 DEF Ownership, SlotPartition
    <2> QED BY <2>1, <2>3, <2>4 DEF SlotPartition
  <1>11. RingOK'
    <2>1. ring[i] = <<>>
      <3>1. RingAt(i)
        BY <1>3 DEF Ownership, RingOK
      <3> QED BY <1>5, <3>1 DEF RingAt, Busy, Reading, Writing
    <2>2. ring'[i] = <<Pending(cn)>> /\ ring' = [ring EXCEPT ![i] = ring'[i]]
      BY <1>1, <1>3, <1>7, <2>1 DEF Ownership, RingOK
    <2>3. RingAt(i)'
      <3>1. Busy(i)'
        BY <1>6, <1>8 DEF Busy, Reading, Writing
      <3>2. \E op : ring'[i] = <<op>> /\ OpMatches(op, conns'[i])
        BY <1>6, <1>8, <2>2, PendingOp
      <3> QED BY <3>1, <3>2 DEF RingAt
    <2>4. /\ DOMAIN conns \ {i} = DOMAIN conns' \ {i}
          /\ \A j \in DOMAIN conns \ {i} : conns'[j] = conns[j]
      BY <1>8
    <2> QED BY <1>3, <2>2, <2>3, <2>4, RingFrame DEF Ownership
  <1> QED BY <1>9, <1>10, <1>11 DEF Ownership

\* The operations move through their stages; the connections stay.
Moved(s, t) ==
  \/ s = <<>> /\ t = <<>>
  \/ \E op, mv : /\ s = <<op>> /\ t = <<mv>>
                 /\ \A cn : OpMatches(op, cn) => OpMatches(mv, cn)

LEMMA MoveOwn ==
  ASSUME Ownership, UNCHANGED <<conns, vacant, free>>,
         ring' = [i \in Idx |-> ring'[i]], \A i \in Idx : Moved(ring[i], ring'[i])
  PROVE  Ownership'
  <1>1. SlabOK' /\ SlotPartition'
    BY DEF Ownership, SlabOK, SlotPartition
  <1>2. ASSUME NEW i \in Idx PROVE RingAt(i)'
    <2>1. RingAt(i) /\ (Busy(i)' <=> Busy(i)) /\ conns'[i] = conns[i]
      BY DEF Ownership, RingOK, Busy, Reading, Writing
    <2>2. CASE ~Busy(i)
      <3>1. ring[i] = <<>>
        BY <2>1, <2>2 DEF RingAt
      <3>2. ring'[i] = <<>>
        BY <3>1 DEF Moved
      <3> QED BY <2>1, <2>2, <3>2 DEF RingAt
    <2>3. CASE Busy(i)
      <3>1. PICK op : ring[i] = <<op>> /\ OpMatches(op, conns[i])
        BY <2>1, <2>3 DEF RingAt
      <3>2. PICK mv : ring'[i] = <<mv>> /\ \A cn : OpMatches(op, cn) => OpMatches(mv, cn)
        BY <3>1 DEF Moved
      <3> QED BY <2>1, <2>3, <3>1, <3>2 DEF RingAt
    <2> QED BY <2>2, <2>3
  <1> QED BY <1>1, <1>2 DEF Ownership, RingOK


LEMMA RestageMoved ==
  ASSUME Ownership, NEW i \in Idx, NEW from, NEW to \in Stage
  PROVE  Moved(ring[i], Restage(ring[i], from, to))
  <1>1. RingAt(i)
    BY DEF Ownership, RingOK
  <1>2. CASE ~Busy(i)
    <2>1. ring[i] = <<>>
      BY <1>1, <1>2 DEF RingAt
    <2>2. Restage(<<>>, from, to) = <<>>
      BY DEF Restage
    <2> QED BY <2>1, <2>2 DEF Moved
  <1>3. CASE Busy(i)
    <2>1. PICK op : ring[i] = <<op>> /\ OpMatches(op, conns[i])
      BY <1>1, <1>3 DEF RingAt
    <2> PICK mv : mv = IF op.stage = from THEN [op EXCEPT !.stage = to] ELSE op
      OBVIOUS
    <2>2. Restage(<<op>>, from, to) = <<mv>>
      BY DEF Restage
    <2>3. \A cn : OpMatches(op, cn) => OpMatches(mv, cn)
      BY <2>1 DEF OpMatches, IsOp
    <2> QED BY <2>1, <2>2, <2>3 DEF Moved
  <1> QED BY <1>2, <1>3

LEMMA CompleteOwn ==
  ASSUME Ownership, NEW i \in Idx, NEW n \in At(ring[i], "kernel"), NEW res,
         Complete(i, n, res), UNCHANGED <<conns, vacant, free>>
  PROVE  Ownership'
  <1>1. RingAt(i) /\ ring = [j \in Idx |-> ring[j]]
    BY DEF Ownership, RingOK
  <1>2. ring[i] # <<>>
    BY DEF At
  <1>3. PICK op : ring[i] = <<op>> /\ OpMatches(op, conns[i])
    BY <1>1, <1>2 DEF RingAt
  <1>4. n = 1
    BY <1>3 DEF At
  <1> PICK mv : mv = [op EXCEPT !.stage = "cq", !.res = res]
    OBVIOUS
  <1>5. \A cn : OpMatches(op, cn) => OpMatches(mv, cn)
    BY <1>3 DEF OpMatches, IsOp, Stage
  <1>6. ring' = [ring EXCEPT ![i] = <<mv>>]
    <2>1. [ring[i] EXCEPT ![1] = mv] = <<mv>>
      BY <1>3
    <2>2. ring' = [ring EXCEPT ![i] = [ring[i] EXCEPT ![1] = mv]]
      <3>1. Complete(i, 1, res) /\ ring[i][1] = op
        BY <1>3, <1>4
      <3>2. ring' = [ring EXCEPT ![i] = [ring[i] EXCEPT ![1] =
                       [ring[i][1] EXCEPT !.stage = "cq", !.res = res]]]
        BY <3>1, Zenon DEF Complete
      <3> QED BY <3>1, <3>2, Zenon
    <2> QED BY <2>1, <2>2
  <1>7. /\ ring' = [j \in Idx |-> ring'[j]] /\ ring'[i] = <<mv>>
        /\ \A j \in Idx \ {i} : ring'[j] = ring[j]
    BY <1>1, <1>6
  <1>8. ASSUME NEW j \in Idx PROVE Moved(ring[j], ring'[j])
    <2>1. CASE j = i
      BY <2>1, <1>3, <1>5, <1>7 DEF Moved
    <2>2. CASE j # i
      <3>1. RingAt(j) /\ ring'[j] = ring[j]
        BY <2>2, <1>7 DEF Ownership, RingOK
      <3> QED BY <3>1 DEF RingAt, Moved
    <2> QED BY <2>1, <2>2
  <1> QED BY <1>7, <1>8, MoveOwn

LEMMA OutcomeOwn ==
  ASSUME Ownership, NEW i \in Idx, i \in DOMAIN conns, Outcome(i)
  PROVE  Ownership'
  <1>1. CASE Continues(i)
    <2>1. PICK cn : /\ IsConn(cn) /\ SameOwner(cn, conns[i])
                    /\ cn.state \in {"Reading", "Writing"}
                    /\ conns' = [conns EXCEPT ![i] = cn]
                    /\ ring' = [ring EXCEPT ![i] = <<Pending(cn)>>]
      BY <1>1 DEF Continues
    <2> QED BY <1>1, <2>1, UpdateOwn DEF Continues
  <1>2. CASE Parks(i)
    <2>1. PICK cn : /\ IsConn(cn) /\ SameOwner(cn, conns[i])
                    /\ cn.state = "AwaitingAsync"
                    /\ conns' = [conns EXCEPT ![i] = cn]
      BY <1>2 DEF Parks
    <2> QED BY <1>2, <2>1, UpdateOwn DEF Parks
  <1>3. CASE Removes(i)
    BY <1>3, RemoveOwn DEF Removes
  <1> QED BY <1>1, <1>2, <1>3 DEF Outcome

LEMMA DeliverOwn == Ownership /\ Deliver => Ownership'
  <1> SUFFICES ASSUME Ownership, Deliver PROVE Ownership'
    OBVIOUS
  <1> PICK i, cells : i = Head(drained).slot_id /\ cells = Response(Head(drained).req)
    OBVIOUS
  <1>1. \/ Parked(i) /\ DeliverAsyncResponse(i, cells)
        \/ UNCHANGED <<conns, vacant, free, ring>>
    BY DEF Deliver
  <1>2. CASE UNCHANGED <<conns, vacant, free, ring>>
    BY <1>2 DEF Ownership, SlabOK, RingOK, RingAt, Busy, Reading, Writing, SlotPartition
  <1>3. CASE Parked(i) /\ DeliverAsyncResponse(i, cells)
    <2>1. i \in DOMAIN conns /\ i \in Idx /\ IsConn(conns[i]) /\ ring = [j \in Idx |-> ring[j]]
      BY <1>3 DEF Parked, Ownership, SlabOK, RingOK
    <2>2. ring[i] = <<>>
      <3>1. RingAt(i)
        BY <2>1 DEF Ownership, RingOK
      <3> QED BY <1>3, <3>1 DEF RingAt, Busy, Reading, Writing, Parked
    <2> PICK cn :
          cn = [conns[i] EXCEPT !.write_filled = Len(cells), !.write_offset = 0,
                                !.close_after_drain = conns[i].parked_close_after,
                                !.state = "Writing"]
      OBVIOUS
    <2>3. IsConn(cn) /\ SameOwner(cn, conns[i]) /\ cn.state = "Writing"
      BY <2>1 DEF IsConn, SameOwner, States
    <2>4. CASE Freed(i) /\ UNCHANGED ring
      <3>1. ring' = [ring EXCEPT ![i] = <<>>]
        BY <2>1, <2>2, <2>4
      <3> QED BY <2>1, <2>4, <3>1, RemoveOwn DEF Freed
    <2>5. CASE /\ conns' = [conns EXCEPT ![i] = cn]
               /\ ring' = [ring EXCEPT ![i] = Append(@, SubmitWrite(cn))]
               /\ UNCHANGED <<vacant, free>>
      <3>1. ring' = [ring EXCEPT ![i] = <<Pending(cn)>>]
        BY <2>1, <2>2, <2>3, <2>5 DEF Pending
      <3> QED BY <2>1, <2>3, <2>5, <3>1, UpdateOwn
    <2> QED BY <1>3, <2>4, <2>5 DEF DeliverAsyncResponse
  <1> QED BY <1>1, <1>2, <1>3


LEMMA UnchangedOwn ==
  ASSUME Ownership, UNCHANGED <<conns, vacant, free, ring>>
  PROVE  Ownership'
  BY DEF Ownership, SlabOK, RingOK, RingAt, Busy, Reading, Writing, SlotPartition

LEMMA OwnershipStep == Ownership /\ [Next]_vars => Ownership'
  <1> SUFFICES ASSUME Ownership, [Next]_vars PROVE Ownership'
    OBVIOUS
  <1>1. CASE Submit
    <2>1. ring' = [i \in Idx |-> ring'[i]] /\ \A i \in Idx : ring'[i] = Restage(ring[i], "sq", "kernel")
      BY <1>1 DEF Submit
    <2>2. \A i \in Idx : Moved(ring[i], ring'[i])
      BY <2>1, RestageMoved DEF Stage
    <2> QED BY <1>1, <2>1, <2>2, MoveOwn DEF Submit, worker
  <1>2. CASE Collect
    <2>1. ring' = [i \in Idx |-> ring'[i]] /\ \A i \in Idx : ring'[i] = Restage(ring[i], "cq", "batch")
      BY <1>2 DEF Collect
    <2>2. \A i \in Idx : Moved(ring[i], ring'[i])
      BY <2>1, RestageMoved DEF Stage
    <2> QED BY <1>2, <2>1, <2>2, MoveOwn DEF Collect, worker
  <1>3. CASE HandleAccept
    <2>1. CASE UNCHANGED <<worker, ring>>
      BY <2>1, UnchangedOwn DEF worker
    <2>2. CASE free # <<>> /\ Insert(Head(acceptCqe).fd)
      BY <2>2, InsertOwn
    <2> QED BY <1>3, <2>1, <2>2 DEF HandleAccept
  <1>4. CASE Drain
    BY <1>4, UnchangedOwn DEF Drain, worker
  <1>5. CASE Deliver
    BY <1>5, DeliverOwn
  <1>6. ASSUME NEW i \in Idx, HandleConn(i) PROVE Ownership'
    BY <1>6, ConnStep, OutcomeOwn
  <1>7. CASE TokioStep
    BY <1>7, UnchangedOwn DEF TokioStep, TaskPush, TaskSignal, worker, uring
  <1>8. ASSUME NEW i \in Idx, KernelRecv(i) \/ KernelSend(i) PROVE Ownership'
    <2>1. \E n \in At(ring[i], "kernel") : \E res : Complete(i, n, res)
      BY <1>8 DEF KernelRecv, KernelSend
    <2>2. UNCHANGED <<conns, vacant, free>>
      BY <1>8 DEF KernelRecv, KernelSend, worker
    <2> QED BY <2>1, <2>2, CompleteOwn
  <1>9. CASE (\E c \in Client : KernelAccept(c)) \/ KernelAcceptError \/ KernelEventfd
    BY <1>9, UnchangedOwn DEF KernelAccept, KernelAcceptError, KernelEventfd, worker
  <1>10. CASE ClientStep
    BY <1>10, UnchangedOwn DEF ClientStep, Connect, HangUp, worker, uring
  <1>11. CASE UNCHANGED vars
    BY <1>11, UnchangedOwn DEF vars, worker, uring
  <1> QED
    BY <1>1, <1>2, <1>3, <1>4, <1>5, <1>6, <1>7, <1>8, <1>9, <1>10, <1>11
    DEF Next, WorkerStep, KernelStep

(***************************************************************************)
(* A connection has exactly one operation outstanding, its own, unless it  *)
(* is parked - whatever the kernel, the handlers and the clients do, with  *)
(* any number of slots or generations.                                     *)
(***************************************************************************)
THEOREM OwnershipInvariant == Spec => []Ownership
  BY OwnershipInit, OwnershipStep, PTL DEF Spec

\* What the worker relies on when a completion arrives (accept.rs:141-150): it is
\* of the operation its connection has outstanding, and of no other.
THEOREM OperationsOwned == Spec => []OwnOperation
  BY OwnershipInvariant, OwnershipImplies, PTL

\* No buffer slot leaks and none has two owners (buffers.rs:44-56).
THEOREM SlotsPartitioned == Spec => []SlotPartition
  <1>1. Ownership => SlotPartition
    BY DEF Ownership
  <1> QED BY <1>1, OwnershipInvariant, PTL

-------------------------------------------------------------------------------
(***************************************************************************)
(* The listener and the eventfd.  ArmedOnce is inductive once the three    *)
(* queues are known to be sequences of the right entries.                  *)
(***************************************************************************)
ArmedOK ==
  /\ acceptOp \in Seq(SysOp) /\ eventfdOp \in Seq(SysOp) /\ acceptCqe \in Seq(AcceptCqe)
  /\ ArmedOnce

\* S is closed under moving an operation to a stage.
Staged(S, to) == \A x \in S : [x EXCEPT !.stage = to] \in S

LEMMA RestageSeq ==
  ASSUME NEW S, NEW s \in Seq(S), NEW from, NEW to, Staged(S, to)
  PROVE  /\ Restage(s, from, to) \in Seq(S)
         /\ Len(Restage(s, from, to)) = Len(s)
         /\ DOMAIN s = 1 .. Len(s) /\ DOMAIN Restage(s, from, to) = 1 .. Len(s)
         /\ \A n \in 1 .. Len(s) :
              Restage(s, from, to)[n] = IF s[n].stage = from THEN [s[n] EXCEPT !.stage = to] ELSE s[n]
  <1> PICK t : t = Restage(s, from, to)
    OBVIOUS
  <1>1. Len(s) \in Nat /\ DOMAIN s = 1 .. Len(s) /\ \A n \in 1 .. Len(s) : s[n] \in S
    BY LenProperties
  <1>2. t = [n \in 1 .. Len(s) |-> IF s[n].stage = from THEN [s[n] EXCEPT !.stage = to] ELSE s[n]]
    BY <1>1 DEF Restage
  <1>3. t \in [1 .. Len(s) -> S]
    BY <1>1, <1>2 DEF Staged
  <1>4. t \in Seq(S) /\ Len(t) = Len(s)
    BY <1>1, <1>3, SeqDef
  <1> QED BY <1>1, <1>2, <1>4

LEMMA RemoveSeq ==
  ASSUME NEW S, NEW s \in Seq(S), NEW n \in 1 .. Len(s)
  PROVE  RemoveAt(s, n) \in Seq(S) /\ Len(RemoveAt(s, n)) = Len(s) - 1
  <1>1. Len(s) \in Nat /\ \A m \in 1 .. Len(s) : s[m] \in S
    BY LenProperties
  <1>0. PICK before, after : before = SubSeq(s, 1, n - 1) /\ after = SubSeq(s, n + 1, Len(s))
    OBVIOUS
  <1>2. before \in Seq(S) /\ Len(before) = n - 1
    BY <1>0, <1>1, SubSeqProperties
  <1>3. after \in Seq(S) /\ Len(after) = Len(s) - n
    BY <1>0, <1>1, SubSeqProperties
  <1>4. before \o after \in Seq(S) /\ Len(before \o after) = Len(before) + Len(after)
    BY <1>2, <1>3, ConcatProperties
  <1>5. RemoveAt(s, n) = before \o after
    BY <1>0 DEF RemoveAt
  <1>6. Len(before) + Len(after) = Len(s) - 1
    BY <1>1, <1>2, <1>3
  <1> QED BY <1>4, <1>5, <1>6, Zenon

LEMMA ArmedInit == Init => ArmedOK
  BY DEF Init, ArmedOK, ArmedOnce, SysOp, Stage

LEMMA ArmedAccept == ArmedOK /\ HandleAccept => ArmedOK'
  <1> SUFFICES ASSUME ArmedOK, HandleAccept PROVE ArmedOK'
    OBVIOUS
  <1> PICK cqe : cqe = Head(acceptCqe)
    OBVIOUS
  <1>1. /\ acceptCqe # <<>> /\ acceptCqe' = Tail(acceptCqe)
        /\ acceptOp' = IF cqe.more THEN acceptOp ELSE Append(acceptOp, [stage |-> "sq"])
        /\ eventfdOp' = eventfdOp
    BY DEF HandleAccept, Rearm, SqEntry
  <1>2. /\ Len(acceptCqe) \in Nat \ {0} /\ DOMAIN acceptCqe = 1 .. Len(acceptCqe)
        /\ cqe = acceptCqe[1] /\ cqe \in AcceptCqe
        /\ acceptCqe' \in Seq(AcceptCqe) /\ Len(acceptCqe') = Len(acceptCqe) - 1
        /\ DOMAIN acceptCqe' = 1 .. Len(acceptCqe) - 1
        /\ \A n \in 1 .. Len(acceptCqe) - 1 : acceptCqe'[n] = acceptCqe[n + 1]
    BY <1>1, EmptySeq, HeadTailProperties, LenProperties DEF ArmedOK
  <1>3. acceptOp \in Seq(SysOp) /\ eventfdOp' \in Seq(SysOp) /\ Len(eventfdOp') = 1
    BY <1>1 DEF ArmedOK, ArmedOnce
  <1>4. CASE Len(acceptOp) = 1 /\ \A n \in DOMAIN acceptCqe : acceptCqe[n].more
    <2>1. cqe.more /\ acceptOp' = acceptOp
      BY <1>1, <1>2, <1>4
    <2>2. \A n \in DOMAIN acceptCqe' : acceptCqe'[n].more
      BY <1>2, <1>4
    <2> QED BY <1>2, <1>3, <1>4, <2>1, <2>2 DEF ArmedOK, ArmedOnce
  <1>5. CASE /\ acceptOp = <<>>
             /\ \A n \in DOMAIN acceptCqe : acceptCqe[n].more <=> n # Len(acceptCqe)
    <2>1. CASE Len(acceptCqe) = 1
      <3>1. ~cqe.more
        BY <1>2, <1>5, <2>1
      <3>2. acceptOp' = <<[stage |-> "sq"]>>
        BY <1>1, <1>5, <3>1
      <3>3. acceptOp' \in Seq(SysOp) /\ Len(acceptOp') = 1
        BY <3>2 DEF SysOp, Stage
      <3> QED BY <1>2, <1>3, <2>1, <3>3 DEF ArmedOK, ArmedOnce
    <2>2. CASE Len(acceptCqe) # 1
      <3>1. acceptOp' = <<>> /\ acceptCqe' # <<>>
        BY <1>1, <1>2, <1>5, <2>2
      <3>2. \A n \in DOMAIN acceptCqe' : acceptCqe'[n].more <=> n # Len(acceptCqe')
        BY <1>2, <1>5
      <3> QED BY <1>2, <1>3, <3>1, <3>2 DEF ArmedOK, ArmedOnce
    <2> QED BY <2>1, <2>2
  <1> QED BY <1>4, <1>5 DEF ArmedOK, ArmedOnce

\* An accept completes: one entry more, and the operation stays iff it says so.
LEMMA ArmedKernel ==
  ASSUME ArmedOK, NEW n \in At(acceptOp, "kernel"), NEW fd \in Fd \cup {0}, NEW more \in BOOLEAN,
         acceptCqe' = Append(acceptCqe, [fd |-> fd, more |-> more, stage |-> "cq"]),
         acceptOp' = IF more THEN acceptOp ELSE RemoveAt(acceptOp, n),
         UNCHANGED eventfdOp
  PROVE  ArmedOK'
  <1> PICK e : e = [fd |-> fd, more |-> more, stage |-> "cq"]
    OBVIOUS
  <1>1. e \in AcceptCqe /\ (e.more <=> more)
    BY DEF AcceptCqe
  <1>2. /\ acceptCqe' \in Seq(AcceptCqe) /\ Len(acceptCqe') = Len(acceptCqe) + 1
        /\ DOMAIN acceptCqe = 1 .. Len(acceptCqe) /\ DOMAIN acceptCqe' = 1 .. Len(acceptCqe) + 1
        /\ \A m \in DOMAIN acceptCqe : acceptCqe'[m] = acceptCqe[m]
        /\ acceptCqe'[Len(acceptCqe) + 1] = e /\ Len(acceptCqe) \in Nat
    BY <1>1, AppendFacts DEF ArmedOK
  <1>3. acceptOp # <<>> /\ n \in 1 .. Len(acceptOp)
    BY DEF At, ArmedOK
  <1>4. Len(acceptOp) = 1 /\ \A m \in DOMAIN acceptCqe : acceptCqe[m].more
    BY <1>3 DEF ArmedOK, ArmedOnce
  <1>5. CASE more
    <2>1. \A m \in DOMAIN acceptCqe' : acceptCqe'[m].more
      BY <1>1, <1>2, <1>4, <1>5
    <2> QED BY <1>2, <1>4, <1>5, <2>1 DEF ArmedOK, ArmedOnce
  <1>6. CASE ~more
    <2>1. acceptOp' = <<>>
      <3>1. RemoveAt(acceptOp, n) \in Seq(SysOp) /\ Len(RemoveAt(acceptOp, n)) = Len(acceptOp) - 1
        BY <1>3, RemoveSeq DEF ArmedOK
      <3> QED BY <1>4, <1>6, <3>1, EmptySeq
    <2>2. acceptCqe' # <<>> /\ \A m \in DOMAIN acceptCqe' : acceptCqe'[m].more <=> m # Len(acceptCqe')
      BY <1>1, <1>2, <1>4, <1>6
    <2> QED BY ZenonT(60), <1>2, <2>1, <2>2, EmptySeq DEF ArmedOK, ArmedOnce
  <1> QED BY <1>5, <1>6


LEMMA RearmOne ==
  ASSUME NEW s \in Seq(SysOp), Len(s) = 1, NEW n \in At(s, "batch")
  PROVE  /\ Append(RemoveAt(s, n), SqEntry) \in Seq(SysOp)
         /\ Len(Append(RemoveAt(s, n), SqEntry)) = 1
  <1>1. n \in 1 .. Len(s)
    BY DEF At
  <1>2. RemoveAt(s, n) \in Seq(SysOp) /\ Len(RemoveAt(s, n)) = 0
    <2>1. RemoveAt(s, n) \in Seq(SysOp) /\ Len(RemoveAt(s, n)) = Len(s) - 1
      BY <1>1, RemoveSeq
    <2> QED BY <2>1
  <1>3. SqEntry \in SysOp
    BY DEF SqEntry, SysOp, Stage
  <1> QED BY <1>2, <1>3, AppendFacts

\* Moving operations, or completions of the accept, to another stage.
LEMMA RestageSys ==
  ASSUME NEW s \in Seq(SysOp), NEW from, NEW to \in Stage
  PROVE  Restage(s, from, to) \in Seq(SysOp) /\ Len(Restage(s, from, to)) = Len(s)
  <1>1. Staged(SysOp, to)
    BY DEF SysOp, Staged
  <1> QED BY <1>1, RestageSeq

LEMMA RestageCqe ==
  ASSUME NEW s \in Seq(AcceptCqe), NEW from, NEW to, to = "batch"
  PROVE  /\ Restage(s, from, to) \in Seq(AcceptCqe)
         /\ Len(Restage(s, from, to)) = Len(s)
         /\ DOMAIN s = 1 .. Len(s) /\ DOMAIN Restage(s, from, to) = 1 .. Len(s)
         /\ \A n \in 1 .. Len(s) : Restage(s, from, to)[n].more = s[n].more
  <1>1. Staged(AcceptCqe, to)
    BY DEF AcceptCqe, Staged
  <1>2. \A x \in AcceptCqe : [x EXCEPT !.stage = to].more = x.more
    BY DEF AcceptCqe
  <1>3. Restage(s, from, to) \in Seq(AcceptCqe) /\ Len(Restage(s, from, to)) = Len(s)
    BY <1>1, RestageSeq
  <1>5. DOMAIN s = 1 .. Len(s) /\ DOMAIN Restage(s, from, to) = 1 .. Len(s)
    BY <1>3, LenProperties
  <1>6. \A n \in 1 .. Len(s) :
          Restage(s, from, to)[n] = IF s[n].stage = from THEN [s[n] EXCEPT !.stage = to] ELSE s[n]
    BY <1>5 DEF Restage
  <1>4. \A n \in 1 .. Len(s) : s[n] \in AcceptCqe
    BY LenProperties
  <1> QED BY <1>2, <1>3, <1>4, <1>5, <1>6

LEMMA UnchangedArmed ==
  ASSUME ArmedOK, UNCHANGED <<acceptOp, acceptCqe, eventfdOp>>
  PROVE  ArmedOK'
  BY DEF ArmedOK, ArmedOnce

LEMMA ArmedStep == Ownership /\ ArmedOK /\ [Next]_vars => ArmedOK'
  <1> SUFFICES ASSUME Ownership, ArmedOK, [Next]_vars PROVE ArmedOK'
    OBVIOUS
  <1>1. CASE Submit
    <2>1. /\ acceptOp' \in Seq(SysOp) /\ Len(acceptOp') = Len(acceptOp)
          /\ eventfdOp' \in Seq(SysOp) /\ Len(eventfdOp') = Len(eventfdOp)
      BY <1>1, RestageSys DEF Submit, ArmedOK, Stage
    <2>2. acceptCqe' = acceptCqe
      BY <1>1 DEF Submit
    <2> QED BY <2>1, <2>2, EmptySeq DEF ArmedOK, ArmedOnce
  <1>2. CASE Collect
    <2>1. acceptOp' = acceptOp /\ eventfdOp' \in Seq(SysOp) /\ Len(eventfdOp') = Len(eventfdOp)
      BY <1>2, RestageSys DEF Collect, ArmedOK, Stage
    <2>2. /\ acceptCqe' \in Seq(AcceptCqe) /\ Len(acceptCqe') = Len(acceptCqe)
          /\ DOMAIN acceptCqe = 1 .. Len(acceptCqe) /\ DOMAIN acceptCqe' = 1 .. Len(acceptCqe)
          /\ \A n \in 1 .. Len(acceptCqe) : acceptCqe'[n].more = acceptCqe[n].more
      BY <1>2, RestageCqe DEF Collect, ArmedOK
    <2>4. acceptCqe # <<>> => acceptCqe' # <<>>
      BY <2>2, EmptySeq DEF ArmedOK
    <2> QED BY <2>1, <2>2, <2>4 DEF ArmedOK, ArmedOnce
  <1>3. CASE HandleAccept
    BY <1>3, ArmedAccept
  <1>4. CASE Drain
    <2>1. PICK n \in At(eventfdOp, "batch") : eventfdOp' = Append(RemoveAt(eventfdOp, n), SqEntry)
      BY <1>4 DEF Drain
    <2>2. eventfdOp' \in Seq(SysOp) /\ Len(eventfdOp') = 1
      BY <2>1, RearmOne DEF ArmedOK, ArmedOnce
    <2>3. UNCHANGED <<acceptOp, acceptCqe>>
      BY <1>4 DEF Drain
    <2> QED BY <2>2, <2>3 DEF ArmedOK, ArmedOnce
  <1>5. CASE Deliver
    BY <1>5, UnchangedArmed DEF Deliver
  <1>6. ASSUME NEW i \in Idx, HandleConn(i) PROVE ArmedOK'
    BY <1>6, ConnStep, UnchangedArmed DEF Outcome
  <1>7. CASE TokioStep
    BY <1>7, UnchangedArmed DEF TokioStep, TaskPush, TaskSignal, uring
  <1>8. ASSUME NEW i \in Idx, KernelRecv(i) \/ KernelSend(i) PROVE ArmedOK'
    BY <1>8, UnchangedArmed DEF KernelRecv, KernelSend
  <1>9. ASSUME NEW c \in Client, KernelAccept(c) PROVE ArmedOK'
    BY <1>9, ArmedKernel DEF KernelAccept
  <1>10. CASE KernelAcceptError
    <2>1. PICK n \in At(acceptOp, "kernel") :
            /\ acceptOp' = RemoveAt(acceptOp, n)
            /\ acceptCqe' = Append(acceptCqe, [fd |-> 0, more |-> FALSE, stage |-> "cq"])
            /\ UNCHANGED eventfdOp
      BY <1>10 DEF KernelAcceptError
    <2> QED BY <2>1, ArmedKernel
  <1>11. CASE KernelEventfd
    <2>1. PICK n \in At(eventfdOp, "kernel") : eventfdOp' = [eventfdOp EXCEPT ![n].stage = "cq"]
      BY <1>11 DEF KernelEventfd
    <2>2. [eventfdOp[n] EXCEPT !.stage = "cq"] \in SysOp /\ n \in 1 .. Len(eventfdOp)
      <3>1. n \in 1 .. Len(eventfdOp) /\ eventfdOp[n] \in SysOp
        BY <2>1, LenProperties DEF ArmedOK, At
      <3>2. \A x \in SysOp : [x EXCEPT !.stage = "cq"] \in SysOp
        BY DEF SysOp, Stage
      <3> QED BY <3>1, <3>2
    <2>3. eventfdOp' \in Seq(SysOp) /\ Len(eventfdOp') = Len(eventfdOp)
      BY <2>1, <2>2, ExceptSeq DEF ArmedOK
    <2>4. UNCHANGED <<acceptOp, acceptCqe>>
      BY <1>11 DEF KernelEventfd
    <2> QED BY <2>3, <2>4 DEF ArmedOK, ArmedOnce
  <1>12. CASE ClientStep
    BY <1>12, UnchangedArmed DEF ClientStep, Connect, HangUp, uring
  <1>13. CASE UNCHANGED vars
    BY <1>13, UnchangedArmed DEF vars, uring
  <1> QED
    BY <1>1, <1>2, <1>3, <1>4, <1>5, <1>6, <1>7, <1>8, <1>9, <1>10, <1>11, <1>12, <1>13
    DEF Next, WorkerStep, KernelStep

\* The queues of the listener and the eventfd hold what the worker stages there.
THEOREM ArmedInvariant == Spec => []ArmedOK
  BY ArmedInit, ArmedStep, OwnershipInvariant, PTL DEF Spec

\* The multishot accept is always armed, or about to be, and never twice.
THEOREM AcceptArmedOnce == Spec => []ArmedOnce
  <1>1. ArmedOK => ArmedOnce
    BY DEF ArmedOK
  <1> QED BY <1>1, ArmedInvariant, PTL

-----------------------------------------------------------------------------
\* The async bridge: the handlers that run on tokio, the completions they queue
\* and the eventfd that wakes the worker.  A completion of an operation is only
\* ever handled for a connection that is not parked (Ownership), so no step of the
\* worker but Deliver ends the parking of a connection.  CompletionOwner is
\* inductive with it once the queues are known to be sequences; what a request or
\* a completion carries is left untyped.

IsTask(t) == t \in [slot_id : Idx, req : {t.req}, pc : {"run", "signal"}]

BridgeTyped ==
  /\ queue \in Seq(Range(queue)) /\ drained \in Seq(Range(drained))
  /\ \A t \in tasks : IsTask(t)

Running == {t \in tasks : t.pc = "run"}
Waiting == {i \in DOMAIN conns : conns[i].state = "AwaitingAsync"}

\* The three parts of CompletionOwner.
Claimed(i) ==
  \/ \E t \in Running : t.slot_id = i
  \/ \E p \in DOMAIN Undelivered : Undelivered[p].slot_id = i

RunOwner(t) ==
  /\ t.slot_id \in Waiting
  /\ \A u \in Running \ {t} : u.slot_id # t.slot_id
  /\ \A p \in DOMAIN Undelivered : Undelivered[p].slot_id # t.slot_id

QueueOwner(p) ==
  /\ Undelivered[p].slot_id \in Waiting
  /\ \A q \in DOMAIN Undelivered \ {p} : Undelivered[q].slot_id # Undelivered[p].slot_id

Owners ==
  /\ \A i \in Waiting : Claimed(i)
  /\ \A t \in Running : RunOwner(t)
  /\ \A p \in DOMAIN Undelivered : QueueOwner(p)

BridgeOK == BridgeTyped /\ Owners

-------------------------------------------------------------------------------
(***************************************************************************)
(* What the steps do to the responses on their way: draining the bridge    *)
(* leaves them, a finished handler adds one at the end, a delivery takes   *)
(* the first.                                                              *)
(***************************************************************************)
LEMMA UndeliveredSeq ==
  ASSUME BridgeTyped
  PROVE  /\ drained \in Seq(Range(drained) \cup Range(queue))
         /\ queue \in Seq(Range(drained) \cup Range(queue))
         /\ Undelivered \in Seq(Range(drained) \cup Range(queue))
  <1>1. drained \in Seq(Range(drained) \cup Range(queue))
    BY SeqMonotonic DEF BridgeTyped
  <1>2. queue \in Seq(Range(drained) \cup Range(queue))
    BY SeqMonotonic DEF BridgeTyped
  <1> QED BY <1>1, <1>2, ConcatProperties DEF Undelivered

LEMMA Drained ==
  ASSUME BridgeTyped, drained = <<>>, drained' = queue, queue' = <<>>
  PROVE  Undelivered' = Undelivered
  <1>1. queue \o <<>> = queue /\ <<>> \o queue = queue
    BY ConcatEmptySeq DEF BridgeTyped
  <1> QED BY <1>1 DEF Undelivered

LEMMA Pushed ==
  ASSUME BridgeTyped, NEW e, queue' = Append(queue, e), UNCHANGED drained
  PROVE  Undelivered' = Append(Undelivered, e) /\ queue' \in Seq(Range(queue'))
  <1> PICK S : S = (Range(drained) \cup Range(queue)) \cup {e}
    OBVIOUS
  <1>1. drained \in Seq(S) /\ queue \in Seq(S) /\ Undelivered \in Seq(S) /\ e \in S
    BY UndeliveredSeq, SeqMonotonic
  <1>2. queue' \in Seq(S) /\ queue' = queue \o <<e>> /\ <<e>> \in Seq(S)
    BY <1>1, AppendProperties, AppendIsConcat
  <1>3. Append(Undelivered, e) = Undelivered \o <<e>>
    BY <1>1, AppendIsConcat
  <1>4. (drained \o queue) \o <<e>> = drained \o (queue \o <<e>>)
    BY <1>1, <1>2, ConcatAssociative
  <1>5. queue' \in Seq(Range(queue'))
    BY <1>2, SeqOfRange
  <1> QED BY <1>2, <1>3, <1>4, <1>5 DEF Undelivered

LEMMA Taken ==
  ASSUME BridgeTyped, drained # <<>>, drained' = Tail(drained), UNCHANGED queue
  PROVE  /\ drained' \in Seq(Range(drained'))
         /\ Undelivered # <<>> /\ Head(drained) = Undelivered[1]
         /\ DOMAIN Undelivered = 1 .. Len(Undelivered) /\ Len(Undelivered) \in Nat \ {0}
         /\ DOMAIN Undelivered' = 1 .. Len(Undelivered) - 1
         /\ \A p \in DOMAIN Undelivered' : Undelivered'[p] = Undelivered[p + 1]
  <1> PICK S : S = Range(drained) \cup Range(queue)
    OBVIOUS
  <1>1. drained \in Seq(S) /\ queue \in Seq(S) /\ Undelivered \in Seq(S)
    BY UndeliveredSeq
  <1>2. /\ Tail(drained) \in Seq(S) /\ Len(Tail(drained)) = Len(drained) - 1
        /\ \A i \in 1 .. Len(Tail(drained)) : Tail(drained)[i] = drained[i + 1]
        /\ Head(drained) = drained[1] /\ Len(drained) \in Nat \ {0} /\ Len(queue) \in Nat
    BY <1>1, HeadTailProperties, EmptySeq, LenProperties
  <1>3. drained' \in Seq(Range(drained'))
    BY <1>2, SeqOfRange
  <1>4. /\ Len(Undelivered) = Len(drained) + Len(queue)
        /\ DOMAIN Undelivered = 1 .. Len(drained) + Len(queue)
        /\ \A p \in 1 .. Len(drained) + Len(queue) :
             Undelivered[p] = IF p <= Len(drained) THEN drained[p] ELSE queue[p - Len(drained)]
    BY <1>1, ConcatProperties, LenProperties DEF Undelivered
  <1>5. /\ DOMAIN Undelivered' = 1 .. (Len(drained) - 1) + Len(queue)
        /\ \A p \in 1 .. (Len(drained) - 1) + Len(queue) :
             Undelivered'[p] = IF p <= Len(drained) - 1 THEN Tail(drained)[p]
                               ELSE queue[p - (Len(drained) - 1)]
    <2> PICK t : t = Tail(drained)
      OBVIOUS
    <2>1. /\ t \o queue \in Seq(S) /\ Len(t \o queue) = Len(t) + Len(queue)
          /\ \A p \in 1 .. Len(t) + Len(queue) :
               (t \o queue)[p] = IF p <= Len(t) THEN t[p] ELSE queue[p - Len(t)]
      BY <1>1, <1>2, ConcatProperties
    <2>2. Undelivered' = t \o queue
      BY DEF Undelivered
    <2>3. DOMAIN Undelivered' = 1 .. Len(t) + Len(queue)
      BY <2>1, <2>2, LenProperties
    <2> QED BY <1>2, <2>1, <2>2, <2>3
  <1>6. ASSUME NEW p \in DOMAIN Undelivered' PROVE Undelivered'[p] = Undelivered[p + 1]
    <2>1. p \in 1 .. (Len(drained) - 1) + Len(queue) /\ p + 1 \in 1 .. Len(drained) + Len(queue)
      BY <1>2, <1>5
    <2>2. CASE p <= Len(drained) - 1
      <3>1. Undelivered'[p] = Tail(drained)[p] /\ Tail(drained)[p] = drained[p + 1]
        BY <1>2, <1>5, <2>1, <2>2
      <3>2. Undelivered[p + 1] = drained[p + 1]
        BY <1>2, <1>4, <2>1, <2>2
      <3> QED BY <3>1, <3>2
    <2>3. CASE ~(p <= Len(drained) - 1)
      <3>1. Undelivered'[p] = queue[p - (Len(drained) - 1)]
        BY <1>5, <2>1, <2>3
      <3>2. Undelivered[p + 1] = queue[(p + 1) - Len(drained)]
        BY <1>2, <1>4, <2>1, <2>3
      <3>3. p - (Len(drained) - 1) = (p + 1) - Len(drained)
        BY <1>2, <2>1
      <3> QED BY <3>1, <3>2, <3>3
    <2> QED BY <2>2, <2>3
  <1>7. Undelivered # <<>> /\ Head(drained) = Undelivered[1] /\ Len(Undelivered) \in Nat \ {0}
    BY <1>2, <1>4
  <1>8. DOMAIN Undelivered = 1 .. Len(Undelivered) /\ DOMAIN Undelivered' = 1 .. Len(Undelivered) - 1
    BY <1>2, <1>4, <1>5
  <1> QED BY <1>3, <1>6, <1>7, <1>8

-------------------------------------------------------------------------------
(***************************************************************************)
(* Owners, one lemma per way a step touches what it relates.               *)
(***************************************************************************)
LEMMA OwnersImply == Ownership /\ Owners => CompletionOwner
  <1> SUFFICES ASSUME Ownership, Owners PROVE CompletionOwner
    OBVIOUS
  <1>1. \A i : Parked(i) <=> i \in Waiting
    BY DEF Parked, Waiting
  <1>2. \A t \in tasks : t.pc = "run" <=> t \in Running
    BY DEF Running
  <1>3. Running \subseteq tasks
    BY DEF Running
  <1>4. \A i \in Idx : Parked(i) =>
           \/ \E t \in tasks : t.pc = "run" /\ t.slot_id = i
           \/ \E p \in DOMAIN Undelivered : Undelivered[p].slot_id = i
    BY <1>1, <1>2, <1>3 DEF Owners, Claimed
  <1>5. \A t \in tasks : t.pc = "run" =>
           /\ Parked(t.slot_id)
           /\ \A u \in tasks \ {t} : u.pc = "run" => u.slot_id # t.slot_id
           /\ \A p \in DOMAIN Undelivered : Undelivered[p].slot_id # t.slot_id
    BY <1>1, <1>2 DEF Owners, RunOwner
  <1>6. \A p \in DOMAIN Undelivered :
           /\ Parked(Undelivered[p].slot_id)
           /\ \A q \in DOMAIN Undelivered \ {p} :
                Undelivered[q].slot_id # Undelivered[p].slot_id
    BY <1>1 DEF Owners, QueueOwner
  <1> QED BY <1>4, <1>5, <1>6 DEF CompletionOwner

LEMMA OwnerInit == Init => BridgeOK
  <1> SUFFICES ASSUME Init PROVE BridgeOK
    OBVIOUS
  <1>1. Running = {} /\ Waiting = {} /\ tasks = {} /\ queue = <<>> /\ drained = <<>>
    BY DEF Init, Running, Waiting
  <1>2. BridgeTyped
    BY <1>1, EmptySeq DEF BridgeTyped
  <1>3. DOMAIN Undelivered = {}
    <2>1. <<>> \in Seq({}) /\ <<>> \o <<>> = <<>>
      BY EmptySeq, ConcatEmptySeq
    <2> QED BY <1>1, <2>1 DEF Undelivered
  <1> QED BY <1>1, <1>2, <1>3 DEF BridgeOK, Owners

\* No connection is parked or resumed, no handler starts or finishes.
LEMMA SameOwners ==
  ASSUME Owners, Waiting' = Waiting, Running' = Running, Undelivered' = Undelivered
  PROVE  Owners'
  BY DEF Owners, Claimed, RunOwner, QueueOwner

\* The connection at i is replaced by one that waits for its socket, or removed.
LEMMA Unparked ==
  ASSUME NEW i,
         \/ \E cn : conns' = [conns EXCEPT ![i] = cn] /\ cn.state # "AwaitingAsync"
         \/ conns' = Restrict(conns, DOMAIN conns \ {i})
  PROVE  Waiting' = Waiting \ {i}
  <1>1. CASE \E cn : conns' = [conns EXCEPT ![i] = cn] /\ cn.state # "AwaitingAsync"
    BY <1>1 DEF Waiting
  <1>2. CASE conns' = Restrict(conns, DOMAIN conns \ {i})
    BY <1>2 DEF Waiting, Restrict
  <1> QED BY <1>1, <1>2

LEMMA InsertUnparked ==
  ASSUME Ownership, NEW fd, free # <<>>, Insert(fd)
  PROVE  Waiting' = Waiting
  <1> PICK i : i = Last(vacant)
    OBVIOUS
  <1>1. i \notin DOMAIN conns
    <2>1. vacant # <<>>
      BY EmptySeq DEF Ownership, SlabOK
    <2>2. Len(vacant) \in DOMAIN vacant /\ i = vacant[Len(vacant)]
      BY <2>1, FrontProperties DEF Ownership, SlabOK
    <2> QED BY <2>2 DEF Ownership, SlabOK
  <1>2. \E cn : /\ conns' = [j \in DOMAIN conns \cup {i} |-> IF j = i THEN cn ELSE conns[j]]
               /\ cn.state = "Reading"
    BY DEF Insert
  <1> QED BY <1>1, <1>2 DEF Waiting

\* A handler is spawned for the connection that is parked.
LEMMA ParkOwner ==
  ASSUME BridgeOK, NEW i \in Idx, i \in DOMAIN conns, i \notin Waiting, Parks(i),
         UNCHANGED <<queue, drained>>
  PROVE  BridgeOK'
  <1>1. PICK cn : conns' = [conns EXCEPT ![i] = cn] /\ cn.state = "AwaitingAsync"
    BY DEF Parks
  <1>2. PICK req : tasks' = tasks \cup {[slot_id |-> i, req |-> req, pc |-> "run"]}
    BY DEF Parks
  <1> PICK t0 : t0 = [slot_id |-> i, req |-> req, pc |-> "run"]
    OBVIOUS
  <1>3. IsTask(t0) /\ t0.slot_id = i /\ t0.pc = "run" /\ tasks' = tasks \cup {t0}
    BY <1>2 DEF IsTask
  <1>4. Waiting' = Waiting \cup {i}
    BY <1>1 DEF Waiting
  <1>5. Undelivered' = Undelivered /\ Running' = Running \cup {t0}
    BY <1>3 DEF Undelivered, Running
  <1>6. BridgeTyped'
    BY <1>3 DEF BridgeOK, BridgeTyped
  <1>7. /\ \A u \in Running : u.slot_id # i
        /\ \A p \in DOMAIN Undelivered : Undelivered[p].slot_id # i
    BY DEF BridgeOK, Owners, RunOwner, QueueOwner
  <1>8. Owners'
    <2>1. ASSUME NEW j \in Waiting' PROVE Claimed(j)'
      <3>1. CASE j = i
        BY <1>3, <1>5, <3>1 DEF Claimed
      <3>2. CASE j # i
        <4>1. Claimed(j)
          BY <1>4, <3>2 DEF BridgeOK, Owners
        <4> QED BY <1>5, <4>1 DEF Claimed
      <3> QED BY <3>1, <3>2
    <2>2. ASSUME NEW t \in Running' PROVE RunOwner(t)'
      <3>1. CASE t = t0
        BY <1>3, <1>4, <1>5, <1>7, <3>1 DEF RunOwner
      <3>2. CASE t # t0
        <4>1. RunOwner(t) /\ t \in Running
          BY <1>5, <3>2 DEF BridgeOK, Owners
        <4> QED BY <1>3, <1>4, <1>5, <1>7, <4>1 DEF RunOwner
      <3> QED BY <3>1, <3>2
    <2>3. ASSUME NEW p \in DOMAIN Undelivered' PROVE QueueOwner(p)'
      BY <1>4, <1>5 DEF QueueOwner, BridgeOK, Owners
    <2> QED BY <2>1, <2>2, <2>3 DEF Owners
  <1> QED BY <1>6, <1>8 DEF BridgeOK

LEMMA ConnOwner ==
  ASSUME Ownership, BridgeOK, NEW i \in Idx, HandleConn(i)
  PROVE  BridgeOK'
  <1>1. i \in DOMAIN conns /\ i \notin Waiting /\ Outcome(i)
    BY ConnStep DEF Parked, Waiting
  <1>2. UNCHANGED <<queue, drained>> /\ Undelivered' = Undelivered
    BY <1>1 DEF Outcome, Undelivered
  <1>3. CASE Parks(i)
    BY <1>1, <1>2, <1>3, ParkOwner
  <1>4. CASE Continues(i) \/ Removes(i)
    <2>1. tasks' = tasks
      BY <1>4 DEF Continues, Removes
    <2>2. \/ \E cn : conns' = [conns EXCEPT ![i] = cn] /\ cn.state # "AwaitingAsync"
          \/ conns' = Restrict(conns, DOMAIN conns \ {i})
      BY <1>4 DEF Continues, Removes
    <2>3. Waiting' = Waiting
      BY <1>1, <2>2, Unparked
    <2>4. BridgeTyped'
      BY <1>2, <2>1 DEF BridgeOK, BridgeTyped
    <2>5. Owners'
      BY <1>2, <2>1, <2>3, SameOwners DEF BridgeOK, Running
    <2> QED BY <2>4, <2>5 DEF BridgeOK
  <1> QED BY <1>1, <1>3, <1>4 DEF Outcome

\* The oldest response goes to its connection, which is parked no more.
LEMMA DeliverOwner ==
  ASSUME Ownership, BridgeOK, Deliver
  PROVE  BridgeOK'
  <1> PICK i : i = Head(drained).slot_id
    OBVIOUS
  <1>1. /\ drained' \in Seq(Range(drained')) /\ i = Undelivered[1].slot_id
        /\ DOMAIN Undelivered = 1 .. Len(Undelivered) /\ Len(Undelivered) \in Nat \ {0}
        /\ DOMAIN Undelivered' = 1 .. Len(Undelivered) - 1
        /\ \A p \in DOMAIN Undelivered' : Undelivered'[p] = Undelivered[p + 1]
    BY Taken DEF Deliver, BridgeOK
  <1>2. BridgeTyped' /\ Running' = Running
    BY <1>1 DEF Deliver, BridgeOK, BridgeTyped, Running
  <1>3. \A p \in DOMAIN Undelivered' : p + 1 \in DOMAIN Undelivered /\ p + 1 # 1
    BY <1>1
  <1>4. 1 \in DOMAIN Undelivered /\ QueueOwner(1)
    BY <1>1 DEF BridgeOK, Owners
  <1>5. i \in Waiting
    BY <1>1, <1>4 DEF QueueOwner
  <1>6. Waiting' = Waiting \ {i}
    <2>1. \E cells : DeliverAsyncResponse(i, cells)
      BY <1>5 DEF Deliver, Parked, Waiting
    <2>2. \/ \E cn : conns' = [conns EXCEPT ![i] = cn] /\ cn.state # "AwaitingAsync"
          \/ conns' = Restrict(conns, DOMAIN conns \ {i})
      <3>1. PICK cells : DeliverAsyncResponse(i, cells)
        BY <2>1
      <3>2. CASE Freed(i)
        BY <3>2 DEF Freed
      <3>3. CASE ~Freed(i)
        <4> PICK cn : cn = [conns[i] EXCEPT !.write_filled = Len(cells), !.write_offset = 0,
                                !.close_after_drain = conns[i].parked_close_after,
                                !.state = "Writing"]
          OBVIOUS
        <4>1. conns' = [conns EXCEPT ![i] = cn]
          BY <3>1, <3>3 DEF DeliverAsyncResponse
        <4>2. cn.state = "Writing"
          <5>1. IsConn(conns[i])
            BY <1>5 DEF Waiting, Ownership, SlabOK
          <5> QED BY <5>1 DEF IsConn
        <4> QED BY <4>1, <4>2
      <3> QED BY <3>2, <3>3
    <2> QED BY <2>2, Unparked
  <1>7. ASSUME NEW j \in Waiting' PROVE Claimed(j)'
    <2>1. Claimed(j) /\ j # i
      BY <1>6 DEF BridgeOK, Owners
    <2>2. CASE \E t \in Running : t.slot_id = j
      BY <1>2, <2>2 DEF Claimed
    <2>3. ASSUME NEW p \in DOMAIN Undelivered, Undelivered[p].slot_id = j PROVE Claimed(j)'
      <3>1. p \in 1 .. Len(Undelivered) /\ p # 1
        BY <1>1, <2>1, <2>3
      <3>2. p - 1 \in 1 .. Len(Undelivered) - 1 /\ (p - 1) + 1 = p
        BY <1>1, <3>1
      <3>3. p - 1 \in DOMAIN Undelivered' /\ Undelivered'[p - 1] = Undelivered[p]
        BY <1>1, <3>2
      <3> QED BY <2>3, <3>3 DEF Claimed
    <2> QED BY <2>1, <2>2, <2>3 DEF Claimed
  <1>8. ASSUME NEW t \in Running' PROVE RunOwner(t)'
    <2>1. t \in Running /\ RunOwner(t)
      BY <1>2 DEF BridgeOK, Owners
    <2>2. t.slot_id # i
      BY <1>1, <1>4, <2>1 DEF RunOwner
    <2>3. \A p \in DOMAIN Undelivered' : Undelivered'[p].slot_id # t.slot_id
      BY <1>1, <1>3, <2>1 DEF RunOwner
    <2> QED BY <1>2, <1>6, <2>1, <2>2, <2>3 DEF RunOwner
  <1>9. ASSUME NEW p \in DOMAIN Undelivered' PROVE QueueOwner(p)'
    <2>1. p + 1 \in DOMAIN Undelivered /\ p + 1 # 1 /\ Undelivered'[p] = Undelivered[p + 1]
      BY <1>1, <1>3
    <2>2. QueueOwner(p + 1)
      BY <2>1 DEF BridgeOK, Owners
    <2>3. Undelivered'[p].slot_id \in Waiting'
      BY <1>1, <1>4, <1>6, <2>1, <2>2 DEF QueueOwner
    <2>4. ASSUME NEW q \in DOMAIN Undelivered' \ {p}
          PROVE  Undelivered'[q].slot_id # Undelivered'[p].slot_id
      <3>1. q + 1 \in DOMAIN Undelivered /\ q + 1 # p + 1 /\ Undelivered'[q] = Undelivered[q + 1]
        BY <1>1, <1>3
      <3> QED BY <2>1, <2>2, <3>1 DEF QueueOwner
    <2> QED BY <2>3, <2>4 DEF QueueOwner
  <1> QED BY <1>2, <1>7, <1>8, <1>9 DEF BridgeOK, Owners

\* A handler's bytes are queued: its connection waits for them now.
LEMMA PushOwner ==
  ASSUME Ownership, BridgeOK, NEW t \in tasks, TaskPush(t)
  PROVE  BridgeOK'
  <1> PICK e, s : /\ e = [slot_id |-> t.slot_id, req |-> t.req]
                  /\ s = [t EXCEPT !.pc = "signal"]
    OBVIOUS
  <1>1. IsTask(t) /\ t.pc = "run" /\ t \in Running
    BY DEF TaskPush, BridgeOK, BridgeTyped, Running
  <1>2. /\ queue' = Append(queue, e) /\ drained' = drained /\ conns' = conns
        /\ tasks' = (tasks \ {t}) \cup {s}
    BY DEF TaskPush, worker
  <1>3. IsTask(s) /\ s.pc = "signal" /\ e.slot_id = t.slot_id
    BY <1>1 DEF IsTask
  <1>4. Undelivered' = Append(Undelivered, e) /\ queue' \in Seq(Range(queue'))
    BY <1>2, Pushed DEF BridgeOK
  <1>5. BridgeTyped'
    BY <1>2, <1>3, <1>4 DEF BridgeOK, BridgeTyped
  <1>6. Running' = Running \ {t} /\ Waiting' = Waiting
    BY <1>2, <1>3 DEF Running, Waiting
  <1>7. /\ DOMAIN Undelivered = 1 .. Len(Undelivered) /\ Len(Undelivered) \in Nat
        /\ DOMAIN Undelivered' = 1 .. Len(Undelivered) + 1
        /\ \A p \in DOMAIN Undelivered : Undelivered'[p] = Undelivered[p]
        /\ Undelivered'[Len(Undelivered) + 1] = e
    <2> PICK S : S = (Range(drained) \cup Range(queue)) \cup {e}
      OBVIOUS
    <2>1. Undelivered \in Seq(S) /\ e \in S
      BY UndeliveredSeq, SeqMonotonic DEF BridgeOK
    <2> QED BY <1>4, <2>1, AppendFacts, LenProperties
  <1>8. RunOwner(t)
    BY <1>1 DEF BridgeOK, Owners
  <1> PICK last : last = Len(Undelivered) + 1
    OBVIOUS
  <1>9. /\ \A p \in DOMAIN Undelivered' : p \in DOMAIN Undelivered \/ p = last
        /\ last \in DOMAIN Undelivered' /\ last \notin DOMAIN Undelivered
        /\ DOMAIN Undelivered \subseteq DOMAIN Undelivered'
        /\ Undelivered'[last].slot_id = t.slot_id
    BY <1>3, <1>7
  <1>10. ASSUME NEW j \in Waiting' PROVE Claimed(j)'
    <2>1. Claimed(j)
      BY <1>6 DEF BridgeOK, Owners
    <2> QED BY <1>6, <1>7, <1>9, <2>1 DEF Claimed
  <1>11. ASSUME NEW u \in Running' PROVE RunOwner(u)'
    <2>1. u \in Running \ {t} /\ RunOwner(u) /\ u.slot_id # t.slot_id
      BY <1>6, <1>8 DEF BridgeOK, Owners, RunOwner
    <2> QED BY <1>6, <1>7, <1>9, <2>1 DEF RunOwner
  <1>12. ASSUME NEW p \in DOMAIN Undelivered' PROVE QueueOwner(p)'
    <2>1. \A q \in DOMAIN Undelivered : QueueOwner(q) /\ Undelivered[q].slot_id # t.slot_id
      BY <1>8 DEF BridgeOK, Owners, RunOwner
    <2>2. CASE p = last
      BY <1>6, <1>7, <1>8, <1>9, <2>1, <2>2 DEF QueueOwner, RunOwner
    <2>3. CASE p \in DOMAIN Undelivered
      BY <1>6, <1>7, <1>9, <2>1, <2>3 DEF QueueOwner
    <2> QED BY <1>9, <2>2, <2>3
  <1> QED BY <1>5, <1>10, <1>11, <1>12 DEF BridgeOK, Owners

LEMMA UnchangedOwner ==
  ASSUME BridgeOK, UNCHANGED <<conns, tasks, queue, drained>>
  PROVE  BridgeOK'
  <1>1. Waiting' = Waiting /\ Running' = Running /\ Undelivered' = Undelivered
    BY DEF Waiting, Running, Undelivered
  <1>2. BridgeTyped'
    BY DEF BridgeOK, BridgeTyped
  <1> QED BY <1>1, <1>2, SameOwners DEF BridgeOK

LEMMA OwnerStep == Ownership /\ BridgeOK /\ [Next]_vars => BridgeOK'
  <1> SUFFICES ASSUME Ownership, BridgeOK, [Next]_vars PROVE BridgeOK'
    OBVIOUS
  <1>1. CASE Submit \/ Collect
    BY <1>1, UnchangedOwner DEF Submit, Collect, worker, bridge
  <1>2. CASE HandleAccept
    <2>1. UNCHANGED <<tasks, queue, drained>>
      BY <1>2 DEF HandleAccept, bridge
    <2>2. CASE UNCHANGED conns
      BY <2>1, <2>2, UnchangedOwner
    <2>3. CASE free # <<>> /\ Insert(Head(acceptCqe).fd)
      <3>1. Waiting' = Waiting /\ Running' = Running /\ Undelivered' = Undelivered
        BY <2>1, <2>3, InsertUnparked DEF Running, Undelivered
      <3>2. BridgeTyped'
        BY <2>1 DEF BridgeOK, BridgeTyped
      <3> QED BY <3>1, <3>2, SameOwners DEF BridgeOK
    <2> QED BY <1>2, <2>2, <2>3 DEF HandleAccept, worker
  <1>3. CASE Drain
    <2>1. drained = <<>> /\ drained' = queue /\ queue' = <<>> /\ UNCHANGED <<conns, tasks>>
      BY <1>3 DEF Drain, worker
    <2>2. BridgeTyped'
      BY <2>1, EmptySeq DEF BridgeOK, BridgeTyped
    <2>3. Waiting' = Waiting /\ Running' = Running /\ Undelivered' = Undelivered
      BY <2>1, Drained DEF Waiting, Running, BridgeOK
    <2> QED BY <2>2, <2>3, SameOwners DEF BridgeOK
  <1>4. CASE Deliver
    BY <1>4, DeliverOwner
  <1>5. ASSUME NEW i \in Idx, HandleConn(i) PROVE BridgeOK'
    BY <1>5, ConnOwner
  <1>6. ASSUME NEW t \in tasks, TaskPush(t) PROVE BridgeOK'
    BY <1>6, PushOwner
  <1>7. ASSUME NEW t \in tasks, TaskSignal(t) PROVE BridgeOK'
    <2>1. tasks' = tasks \ {t} /\ t.pc = "signal" /\ UNCHANGED <<conns, queue, drained>>
      BY <1>7 DEF TaskSignal, worker
    <2>2. Waiting' = Waiting /\ Running' = Running /\ Undelivered' = Undelivered
      BY <2>1 DEF Waiting, Running, Undelivered
    <2>3. BridgeTyped'
      BY <2>1 DEF BridgeOK, BridgeTyped
    <2> QED BY <2>2, <2>3, SameOwners DEF BridgeOK
  <1>8. CASE KernelStep
    BY <1>8, UnchangedOwner
    DEF KernelStep, KernelRecv, KernelSend, KernelAccept, KernelAcceptError, KernelEventfd,
        worker, bridge
  <1>9. CASE ClientStep
    BY <1>9, UnchangedOwner DEF ClientStep, Connect, HangUp, worker, bridge
  <1>10. CASE UNCHANGED vars
    BY <1>10, UnchangedOwner DEF vars, worker, bridge
  <1> QED
    BY <1>1, <1>2, <1>3, <1>4, <1>5, <1>6, <1>7, <1>8, <1>9, <1>10
    DEF Next, WorkerStep, TokioStep

\* CompletionOwner, strengthened by the types of the two queues, is inductive.
THEOREM BridgeInvariant == Spec => []BridgeOK
  BY OwnerInit, OwnerStep, OwnershipInvariant, PTL DEF Spec

(***************************************************************************)
(* Every parked connection is owed exactly one response, by the one        *)
(* handler that runs for it or by the one completion queued for it, and a  *)
(* completion never finds its connection gone or its index reused          *)
(* (accept.rs:84-102, connection.rs:157-163).                              *)
(***************************************************************************)
THEOREM CompletionsOwned == Spec => []CompletionOwner
  BY BridgeInvariant, OwnershipInvariant, OwnersImply, PTL DEF BridgeOK

-------------------------------------------------------------------------------
(***************************************************************************)
(* The wake-up.  NoLostWakeup is inductive as it stands, given that the    *)
(* eventfd operations are a sequence (ArmedOK): pushing a completion       *)
(* leaves a task about to signal, and what a signal becomes on its way to  *)
(* the worker is one of the other disjuncts until the queue is drained.    *)
(***************************************************************************)
Woken ==
  \/ eventfd
  \/ At(eventfdOp, "cq") \cup At(eventfdOp, "batch") # {}
  \/ \E t \in tasks : t.pc = "signal"

\* What is completed or copied out stays so when the ring moves on.
LEMMA RestageKeeps ==
  ASSUME ArmedOK, NEW from, NEW to \in Stage, from = "sq" \/ to = "batch",
         eventfdOp' = Restage(eventfdOp, from, to),
         At(eventfdOp, "cq") \cup At(eventfdOp, "batch") # {}
  PROVE  (At(eventfdOp, "cq") \cup At(eventfdOp, "batch"))' # {}
  <1> PICK n : n \in DOMAIN eventfdOp /\ eventfdOp[n].stage \in {"cq", "batch"}
    BY DEF At
  <1>1. /\ DOMAIN eventfdOp = 1 .. Len(eventfdOp) /\ DOMAIN eventfdOp' = 1 .. Len(eventfdOp)
        /\ eventfdOp'[n] = IF eventfdOp[n].stage = from THEN [eventfdOp[n] EXCEPT !.stage = to]
                                                        ELSE eventfdOp[n]
    <2>1. Staged(SysOp, to)
      BY DEF Staged, SysOp, Stage
    <2>2. /\ DOMAIN eventfdOp = 1 .. Len(eventfdOp)
          /\ DOMAIN Restage(eventfdOp, from, to) = 1 .. Len(eventfdOp)
          /\ \A m \in 1 .. Len(eventfdOp) :
               Restage(eventfdOp, from, to)[m] =
                 IF eventfdOp[m].stage = from THEN [eventfdOp[m] EXCEPT !.stage = to]
                                              ELSE eventfdOp[m]
      BY <2>1, RestageSeq DEF ArmedOK
    <2> QED BY <2>2
  <1>2. \A x \in SysOp : [x EXCEPT !.stage = to].stage = to
    BY DEF SysOp
  <1>3. eventfdOp[n] \in SysOp
    BY <1>1, LenProperties DEF ArmedOK
  <1>4. eventfdOp'[n].stage \in {"cq", "batch"}
    BY <1>1, <1>2, <1>3
  <1> QED BY <1>1, <1>4 DEF At

LEMMA WakeupStep == Ownership /\ ArmedOK /\ BridgeOK /\ NoLostWakeup /\ [Next]_vars => NoLostWakeup'
  <1> SUFFICES ASSUME Ownership, ArmedOK, BridgeOK, queue # <<>> => Woken, [Next]_vars,
                      queue' # <<>>
               PROVE  Woken'
    BY DEF NoLostWakeup, Woken
  <1>1. CASE Submit \/ Collect
    <2>1. UNCHANGED <<eventfd, tasks, queue>>
      BY <1>1 DEF Submit, Collect, bridge
    <2>2. \/ eventfdOp' = Restage(eventfdOp, "sq", "kernel")
          \/ eventfdOp' = Restage(eventfdOp, "cq", "batch")
      BY <1>1 DEF Submit, Collect
    <2>3. CASE At(eventfdOp, "cq") \cup At(eventfdOp, "batch") # {}
      <3>1. CASE eventfdOp' = Restage(eventfdOp, "sq", "kernel")
        <4>1. (At(eventfdOp, "cq") \cup At(eventfdOp, "batch"))' # {}
          BY <2>3, <3>1, RestageKeeps DEF Stage
        <4> QED BY <4>1 DEF Woken
      <3>2. CASE eventfdOp' = Restage(eventfdOp, "cq", "batch")
        <4>1. (At(eventfdOp, "cq") \cup At(eventfdOp, "batch"))' # {}
          BY <2>3, <3>2, RestageKeeps DEF Stage
        <4> QED BY <4>1 DEF Woken
      <3> QED BY <2>2, <3>1, <3>2
    <2> QED BY <2>1, <2>3 DEF Woken
  <1>2. CASE Drain
    BY <1>2 DEF Drain
  <1>3. CASE HandleAccept \/ Deliver
    BY <1>3 DEF HandleAccept, Deliver, bridge, Woken
  <1>4. ASSUME NEW i \in Idx, HandleConn(i) PROVE Woken'
    <2>1. Outcome(i) /\ UNCHANGED <<eventfdOp, eventfd, queue>>
      BY <1>4, ConnStep DEF Outcome
    <2>2. tasks \subseteq tasks'
      BY <2>1 DEF Outcome, Continues, Parks, Removes
    <2> QED BY <2>1, <2>2 DEF Woken
  <1>5. ASSUME NEW t \in tasks, TaskPush(t) PROVE Woken'
    <2>1. IsTask(t)
      BY DEF BridgeOK, BridgeTyped
    <2>2. [t EXCEPT !.pc = "signal"].pc = "signal"
      BY <2>1 DEF IsTask
    <2> QED BY <1>5, <2>2 DEF TaskPush, Woken
  <1>6. ASSUME NEW t \in tasks, TaskSignal(t) PROVE Woken'
    BY <1>6 DEF TaskSignal, Woken
  <1>7. ASSUME NEW i \in Idx, KernelRecv(i) \/ KernelSend(i) PROVE Woken'
    BY <1>7 DEF KernelRecv, KernelSend, bridge, Woken
  <1>8. CASE (\E c \in Client : KernelAccept(c)) \/ KernelAcceptError
    BY <1>8 DEF KernelAccept, KernelAcceptError, bridge, Woken
  <1>9. CASE KernelEventfd
    <2>1. PICK n \in At(eventfdOp, "kernel") : eventfdOp' = [eventfdOp EXCEPT ![n].stage = "cq"]
      BY <1>9 DEF KernelEventfd
    <2>2. n \in DOMAIN eventfdOp /\ eventfdOp[n] \in SysOp
      BY <2>1, LenProperties DEF ArmedOK, At
    <2>3. eventfdOp'[n].stage = "cq" /\ n \in DOMAIN eventfdOp'
      BY <2>1, <2>2 DEF SysOp
    <2> QED BY <2>3 DEF Woken, At
  <1>10. CASE ClientStep
    BY <1>10 DEF ClientStep, Connect, HangUp, uring, bridge, Woken
  <1>11. CASE UNCHANGED vars
    BY <1>11 DEF vars, uring, bridge, Woken
  <1> QED
    BY <1>1, <1>2, <1>3, <1>4, <1>5, <1>6, <1>7, <1>8, <1>9, <1>10, <1>11
    DEF Next, WorkerStep, TokioStep, KernelStep

(***************************************************************************)
(* A queued completion is never left without something that will wake the  *)
(* worker, in whatever order handlers queue and signal, the kernel         *)
(* completes the eventfd Read and the worker drains and re-arms it         *)
(* (async_bridge.rs:97-105, accept.rs:77-104).                             *)
(***************************************************************************)
THEOREM WakeupKept == Spec => []NoLostWakeup
  <1>1. Init => NoLostWakeup
    BY DEF Init, NoLostWakeup
  <1> QED
    BY <1>1, WakeupStep, OwnershipInvariant, ArmedInvariant, BridgeInvariant, PTL DEF Spec

-------------------------------------------------------------------------------
(***************************************************************************)
(* The submission queue.  One operation per connection (OwnOperation), one *)
(* accept and one eventfd Read (ArmedOnce) are what can wait in it.        *)
(***************************************************************************)
LEMMA AtMostOne ==
  ASSUME NEW S, S \subseteq {1}
  PROVE  Cardinality(S) \in Nat /\ Cardinality(S) <= 1
  <1>1. IsFiniteSet({1}) /\ Cardinality({1}) = 1
    BY FS_Singleton
  <1>2. IsFiniteSet(S) /\ Cardinality(S) <= 1
    BY <1>1, FS_Subset
  <1> QED BY <1>2, FS_CardinalityType

LEMMA SqBounded ==
  ASSUME Ownership, ArmedOK, SlotCount + 2 <= RingEntries
  PROVE  SqFits
  <1> PICK pushed, accept, efd :
        /\ pushed = UNION {{i} \X At(ring[i], "sq") : i \in Idx}
        /\ accept = At(acceptOp, "sq") /\ efd = At(eventfdOp, "sq")
    OBVIOUS
  <1>1. pushed \subseteq Idx \X {1}
    <2>1. ASSUME NEW i \in Idx PROVE At(ring[i], "sq") \subseteq {1}
      <3>1. ring[i] = <<>> \/ \E op : ring[i] = <<op>>
        BY DEF Ownership, RingOK, RingAt
      <3> QED BY <3>1 DEF At
    <2> QED BY <2>1
  <1>2. IsFiniteSet(Idx) /\ Cardinality(Idx) = SlotCount
    <2>1. 0 \in Int /\ SlotCount - 1 \in Int /\ ~(0 > SlotCount - 1)
      BY WorkerAssumption
    <2>2. IsFiniteSet(0 .. SlotCount - 1) /\ Cardinality(0 .. SlotCount - 1) = (SlotCount - 1) - 0 + 1
      BY <2>1, FS_Interval
    <2>3. (SlotCount - 1) - 0 + 1 = SlotCount
      BY WorkerAssumption
    <2> QED BY <2>2, <2>3 DEF Idx
  <1>3. IsFiniteSet({1}) /\ Cardinality({1}) = 1
    BY FS_Singleton
  <1>4. IsFiniteSet(Idx \X {1}) /\ Cardinality(Idx \X {1}) = SlotCount
    <2>1. IsFiniteSet(Idx \X {1}) /\ Cardinality(Idx \X {1}) = Cardinality(Idx) * Cardinality({1})
      BY <1>2, <1>3, FS_Product
    <2>2. SlotCount * 1 = SlotCount
      BY WorkerAssumption
    <2> QED BY <1>2, <1>3, <2>1, <2>2
  <1>5. Cardinality(pushed) \in Nat /\ Cardinality(pushed) <= SlotCount
    <2>1. IsFiniteSet(pushed) /\ Cardinality(pushed) <= Cardinality(Idx \X {1})
      BY <1>1, <1>4, FS_Subset
    <2> QED BY <1>4, <2>1, FS_CardinalityType
  <1>6. Cardinality(accept) \in Nat /\ Cardinality(accept) <= 1
    <2>1. acceptOp \in Seq(SysOp) /\ (acceptOp = <<>> \/ Len(acceptOp) = 1)
      BY DEF ArmedOK, ArmedOnce
    <2>2. DOMAIN acceptOp \subseteq {1}
      BY <2>1, LenProperties
    <2> QED BY <2>2, AtMostOne DEF At
  <1>7. Cardinality(efd) \in Nat /\ Cardinality(efd) <= 1
    <2>1. DOMAIN eventfdOp \subseteq {1}
      BY LenProperties DEF ArmedOK, ArmedOnce
    <2> QED BY <2>1, AtMostOne DEF At
  <1>8. Cardinality(pushed) + Cardinality(accept) + Cardinality(efd) <= RingEntries
    BY <1>5, <1>6, <1>7, WorkerAssumption
  <1> QED BY <1>8 DEF SqFits

(***************************************************************************)
(* With two entries more than buffer slots (4096 against 1024 in           *)
(* runtime.rs:10 and buffers.rs:6) no push ever finds the submission queue *)
(* full, so the error paths that end the worker are never taken.           *)
(***************************************************************************)
THEOREM SubmissionsFit ==
  ASSUME SlotCount + 2 <= RingEntries
  PROVE  Spec => []SqFits
  <1>1. Ownership /\ ArmedOK => SqFits
    BY SqBounded
  <1> QED BY <1>1, OwnershipInvariant, ArmedInvariant, PTL


-------------------------------------------------------------------------------
(***************************************************************************)
(* Induction over the natural numbers, for a set rather than a predicate:  *)
(* the least element of what is left out is the contradiction.             *)
(***************************************************************************)
LEMMA Smallest ==
  ASSUME NEW T \in SUBSET Nat, T # {}
  PROVE  \E n \in T : \A k \in T : n <= k
  <1>1. PICK R : R = OpToRel(<, Nat)
    OBVIOUS
  <1>2. IsWellFoundedOn(R, Nat)
    BY <1>1, NatLessThanWellFounded
  <1>3. PICK n \in T : \A k \in T : <<k, n>> \notin R
    BY <1>2, WFMin
  <1>4. \A k \in T : <<k, n>> \in R <=> k < n
    BY <1>1 DEF OpToRel
  <1>5. \A k \in T : ~(k < n)
    BY <1>3, <1>4
  <1>6. n \in Nat /\ \A k \in T : k \in Nat
    OBVIOUS
  <1> QED BY <1>5, <1>6

LEMMA Induct ==
  ASSUME NEW S, 0 \in S, \A n \in Nat : n \in S => n + 1 \in S
  PROVE  Nat \subseteq S
  <1> SUFFICES ASSUME Nat \ S # {} PROVE FALSE
    OBVIOUS
  <1>1. PICK n \in Nat \ S : \A k \in Nat \ S : n <= k
    BY Smallest
  <1>2. n # 0 /\ n - 1 \in Nat /\ n - 1 \in S
    BY <1>1
  <1> QED BY <1>1, <1>2

\* Induction up to N.
LEMMA InductTo ==
  ASSUME NEW N \in Nat, NEW S, 0 \in S, \A n \in 0 .. N - 1 : n \in S => n + 1 \in S
  PROVE  \A n \in 0 .. N : n \in S
  <1> DEFINE T == {n \in Nat : n <= N => n \in S}
  <1>1. Nat \subseteq T
    <2>1. 0 \in T
      OBVIOUS
    <2>2. \A n \in Nat : n \in T => n + 1 \in T
      OBVIOUS
    <2> HIDE DEF T
    <2> QED BY <2>1, <2>2, Induct
  <1> QED BY <1>1

(***************************************************************************)
(* FlattenSeq is a chosen function with a recursive domain; what is shown  *)
(* here is that it concatenates: Joined(p, n) is Joined(p, n - 1) followed *)
(* by p[n].                                                                *)
(***************************************************************************)
IsJoin(f, p, n) ==
  \A i \in 1 .. n : f[i] = IF i = 1 THEN p[i] ELSE f[i - 1] \o p[i]

LEMMA RunExists ==
  ASSUME NEW T, NEW N \in Nat, NEW p \in [1 .. N -> Seq(T)]
  PROVE  \E f \in [1 .. N -> Seq(T)] : IsJoin(f, p, N)
  <1> DEFINE S == {n \in Nat : n <= N => \E f \in [1 .. n -> Seq(T)] : IsJoin(f, p, n)}
  <1>1. 0 \in S
    <2>1. [i \in 1 .. 0 |-> <<>>] \in [1 .. 0 -> Seq(T)]
      OBVIOUS
    <2>2. \A f : IsJoin(f, p, 0)
      BY DEF IsJoin
    <2> QED BY <2>1, <2>2
  <1>2. ASSUME NEW n \in Nat, n \in S PROVE n + 1 \in S
    <2> SUFFICES ASSUME n + 1 <= N
                 PROVE  \E f \in [1 .. n + 1 -> Seq(T)] : IsJoin(f, p, n + 1)
      OBVIOUS
    <2>1. PICK f \in [1 .. n -> Seq(T)] : IsJoin(f, p, n)
      BY <1>2
    <2>2. n + 1 \in 1 .. N /\ p[n + 1] \in Seq(T)
      OBVIOUS
    <2>3. PICK last : last = IF n = 0 THEN p[n + 1] ELSE f[n] \o p[n + 1]
      OBVIOUS
    <2>4. last \in Seq(T)
      <3>1. CASE n = 0
        BY <2>2, <2>3, <3>1
      <3>2. CASE n # 0
        <4>1. f[n] \in Seq(T)
          BY <3>2
        <4> QED BY <2>2, <2>3, <3>2, <4>1, ConcatProperties
      <3> QED BY <3>1, <3>2
    <2>5. PICK g : g = [i \in 1 .. n + 1 |-> IF i = n + 1 THEN last ELSE f[i]]
      OBVIOUS
    <2>6. g \in [1 .. n + 1 -> Seq(T)]
      BY <2>4, <2>5
    <2>7. ASSUME NEW i \in 1 .. n + 1
          PROVE  g[i] = IF i = 1 THEN p[i] ELSE g[i - 1] \o p[i]
      <3>1. CASE i = n + 1
        BY <2>3, <2>5, <3>1
      <3>2. CASE i # n + 1
        <4>1. i \in 1 .. n /\ (i # 1 => i - 1 \in 1 .. n)
          BY <3>2
        <4>2. g[i] = f[i] /\ (i # 1 => g[i - 1] = f[i - 1])
          BY <2>5, <4>1
        <4>3. f[i] = IF i = 1 THEN p[i] ELSE f[i - 1] \o p[i]
          BY <2>1, <4>1 DEF IsJoin
        <4> QED BY <4>2, <4>3
      <3> QED BY <3>1, <3>2
    <2> QED BY <2>6, <2>7 DEF IsJoin
  <1>3. N \in S
    <2> HIDE DEF S
    <2> QED BY <1>1, <1>2, Induct
  <1> QED BY <1>3

LEMMA RunUnique ==
  ASSUME NEW p, NEW n \in Nat, NEW f, NEW g, IsJoin(f, p, n), IsJoin(g, p, n)
  PROVE  \A i \in 1 .. n : f[i] = g[i]
  <1> DEFINE S == {m \in Nat : m + 1 <= n => f[m + 1] = g[m + 1]}
  <1>1. 0 \in S
    BY DEF IsJoin
  <1>2. ASSUME NEW m \in Nat, m \in S PROVE m + 1 \in S
    <2> SUFFICES ASSUME (m + 1) + 1 <= n PROVE f[(m + 1) + 1] = g[(m + 1) + 1]
      OBVIOUS
    <2>1. PICK i : i = (m + 1) + 1
      OBVIOUS
    <2>2. i \in 1 .. n /\ i # 1 /\ i - 1 = m + 1
      BY <2>1
    <2>3. f[i - 1] = g[i - 1]
      BY <1>2, <2>2
    <2>4. f[i] = f[i - 1] \o p[i] /\ g[i] = g[i - 1] \o p[i]
      BY <2>2 DEF IsJoin
    <2> QED BY <2>1, <2>3, <2>4
  <1>3. Nat \subseteq S
    <2> HIDE DEF S
    <2> QED BY <1>1, <1>2, Induct
  <1> SUFFICES ASSUME NEW i \in 1 .. n PROVE f[i] = g[i]
    OBVIOUS
  <1>4. i - 1 \in Nat /\ (i - 1) + 1 = i
    OBVIOUS
  <1> QED BY <1>3, <1>4

Joined(p, n) == FlattenSeq([m \in 1 .. n |-> p[m]])

LEMMA FlattenIs ==
  ASSUME NEW T, NEW N \in Nat, NEW p \in [1 .. N -> Seq(T)], NEW n \in 1 .. N,
         NEW f \in [1 .. N -> Seq(T)], IsJoin(f, p, N)
  PROVE  Joined(p, n) = f[n]
  <1>1. PICK s : s = [m \in 1 .. n |-> p[m]]
    OBVIOUS
  <1>2. s \in Seq(Seq(T)) /\ Len(s) = n
    BY <1>1
  <1> DEFINE P(g) == g = [i \in 1 .. Len(s) |-> IF i = 1 THEN s[i] ELSE g[i - 1] \o s[i]]
  <1>3. FlattenSeq(s) = (CHOOSE g : P(g))[n]
    BY <1>2 DEF FlattenSeq
  <1>4. PICK h : h = [i \in 1 .. n |-> f[i]]
    OBVIOUS
  <1>5. P(h)
    <2>1. ASSUME NEW i \in 1 .. n
          PROVE  h[i] = IF i = 1 THEN s[i] ELSE h[i - 1] \o s[i]
      <3>1. i \in 1 .. N /\ (i # 1 => i - 1 \in 1 .. n) /\ s[i] = p[i] /\ h[i] = f[i]
        BY <1>1, <1>4
      <3>2. f[i] = IF i = 1 THEN p[i] ELSE f[i - 1] \o p[i]
        BY <3>1 DEF IsJoin
      <3>3. i # 1 => h[i - 1] = f[i - 1]
        BY <1>4, <3>1
      <3> QED BY <3>1, <3>2, <3>3
    <2> QED BY <1>2, <1>4, <2>1
  <1>6. PICK g : g = CHOOSE x : P(x)
    OBVIOUS
  <1>7. P(g)
    <2> HIDE DEF P
    <2> QED BY <1>5, <1>6
  <1>8. IsJoin(g, p, n)
    BY <1>1, <1>2, <1>7 DEF IsJoin
  <1>9. IsJoin(f, p, n)
    <2>1. \A i \in 1 .. n : i \in 1 .. N
      OBVIOUS
    <2> QED BY <2>1, Zenon DEF IsJoin
  <1>10. g[n] = f[n]
    BY <1>8, <1>9, RunUnique
  <1>11. FlattenSeq(s) = g[n]
    <2> HIDE DEF P
    <2> QED BY <1>3, <1>6
  <1> QED BY <1>1, <1>10, <1>11 DEF Joined

JoinsUp(T, N, p) ==
  /\ Joined(p, 0) = <<>>
  /\ \A n \in 0 .. N : Joined(p, n) \in Seq(T)
  /\ \A n \in 1 .. N : Joined(p, n) = Joined(p, n - 1) \o p[n]

LEMMA JoinedStep ==
  ASSUME NEW T, NEW N \in Nat, NEW p \in [1 .. N -> Seq(T)]
  PROVE  JoinsUp(T, N, p)
  <1>1. PICK f \in [1 .. N -> Seq(T)] : IsJoin(f, p, N)
    BY RunExists
  <1>2. Joined(p, 0) = <<>>
    <2>1. [m \in 1 .. 0 |-> p[m]] = <<>>
      OBVIOUS
    <2>2. FlattenSeq(<<>>) = <<>>
      BY DEF FlattenSeq
    <2> QED BY <2>1, <2>2 DEF Joined
  <1>3. \A n \in 1 .. N : Joined(p, n) = f[n]
    BY <1>1, FlattenIs
  <1>4. \A n \in 0 .. N : Joined(p, n) \in Seq(T)
    <2> TAKE n \in 0 .. N
    <2>1. CASE n = 0
      <3>1. <<>> \in Seq(T)
        OBVIOUS
      <3> QED BY <1>2, <2>1, <3>1, Zenon
    <2>2. CASE n # 0
      BY <1>3, <2>2
    <2> QED BY <2>1, <2>2
  <1>5. ASSUME NEW n \in 1 .. N PROVE Joined(p, n) = Joined(p, n - 1) \o p[n]
    <2>1. f[n] = IF n = 1 THEN p[n] ELSE f[n - 1] \o p[n]
      BY <1>1 DEF IsJoin
    <2>2. CASE n = 1
      <3>1. <<>> \o p[n] = p[n]
        BY ConcatEmptySeq
      <3> QED BY <1>2, <1>3, <2>1, <2>2, <3>1
    <2>3. CASE n # 1
      <3>1. n - 1 \in 1 .. N
        BY <2>3
      <3> QED BY <1>3, <2>1, <2>3, <3>1
    <2> QED BY <2>2, <2>3
  <1> QED BY <1>2, <1>4, <1>5 DEF JoinsUp

-------------------------------------------------------------------------------
(***************************************************************************)
(* The streams of cells. Requests of the given lengths laid out one after  *)
(* another: cell j of request k is at position j after the end of request  *)
(* k - 1, and every position is in one of the requests.                    *)
(***************************************************************************)
Cells(c, len, n) == FlattenSeq([m \in 1 .. n |-> Pieces(c, m, len[m])])

ArePieces(s, c, k, n) ==
  /\ s \in Seq(Cell) /\ Len(s) = n
  /\ \A j \in 1 .. n : s[j] = [c |-> c, k |-> k, j |-> j]

LEMMA PiecesTyped ==
  ASSUME NEW c \in Client, NEW k \in Nat \ {0}, NEW n \in Nat
  PROVE  ArePieces(Pieces(c, k, n), c, k, n)
  <1>1. \A j \in 1 .. n : [c |-> c, k |-> k, j |-> j] \in Cell
    BY DEF Cell
  <1>2. Pieces(c, k, n) \in [1 .. n -> Cell]
    BY <1>1 DEF Pieces
  <1>3. Pieces(c, k, n) \in Seq(Cell) /\ Len(Pieces(c, k, n)) = n
    BY <1>2, SeqDef
  <1> QED BY <1>3 DEF Pieces, ArePieces

LEMMA LaidStep ==
  ASSUME NEW c \in Client, NEW len \in Seq(Nat \ {0})
  PROVE  /\ Cells(c, len, 0) = <<>>
         /\ \A n \in 0 .. Len(len) : Cells(c, len, n) \in Seq(Cell)
         /\ \A n \in 1 .. Len(len) :
              /\ Cells(c, len, n) = Cells(c, len, n - 1) \o Pieces(c, n, len[n])
              /\ Len(Cells(c, len, n)) = Len(Cells(c, len, n - 1)) + len[n]
  <1> PICK N : N = Len(len)
    OBVIOUS
  <1>0. N \in Nat /\ \A m \in 1 .. N : len[m] \in Nat \ {0}
    BY LenProperties
  <1> PICK p : p = [m \in 1 .. N |-> Pieces(c, m, len[m])]
    OBVIOUS
  <1>1. p \in [1 .. N -> Seq(Cell)]
    <2>1. ASSUME NEW m \in 1 .. N PROVE Pieces(c, m, len[m]) \in Seq(Cell)
      <3>1. m \in Nat \ {0} /\ len[m] \in Nat
        BY <1>0
      <3> QED BY <3>1, PiecesTyped DEF ArePieces
    <2> QED BY <2>1
  <1>2. \A n \in 0 .. N : Cells(c, len, n) = Joined(p, n)
    <2> TAKE n \in 0 .. N
    <2>1. [m \in 1 .. n |-> Pieces(c, m, len[m])] = [m \in 1 .. n |-> p[m]]
      BY <1>0
    <2> QED BY <2>1 DEF Cells, Joined
  <1>3. /\ Joined(p, 0) = <<>>
        /\ \A n \in 0 .. N : Joined(p, n) \in Seq(Cell)
        /\ \A n \in 1 .. N : Joined(p, n) = Joined(p, n - 1) \o p[n]
    <2>1. JoinsUp(Cell, N, p)
      BY <1>0, <1>1, JoinedStep
    <2> QED BY <2>1, Zenon DEF JoinsUp
  <1>4. Cells(c, len, 0) = <<>> /\ \A n \in 0 .. N : Cells(c, len, n) \in Seq(Cell)
    <2>1. 0 \in 0 .. N
      BY <1>0
    <2> QED BY <1>2, <1>3, <2>1, Zenon
  <1>5. ASSUME NEW n \in 1 .. N
        PROVE  Cells(c, len, n) = Cells(c, len, n - 1) \o Pieces(c, n, len[n])
    <2>1. n \in 0 .. N /\ n - 1 \in 0 .. N
      BY <1>0
    <2> QED BY <1>2, <1>3, <2>1
  <1>6. ASSUME NEW n \in 1 .. N
        PROVE  Len(Cells(c, len, n)) = Len(Cells(c, len, n - 1)) + len[n]
    <2>1. n - 1 \in 0 .. N /\ n \in Nat \ {0}
      BY <1>0
    <2>2. Cells(c, len, n - 1) \in Seq(Cell)
      BY <1>4, <2>1
    <2>3. Pieces(c, n, len[n]) \in Seq(Cell) /\ Len(Pieces(c, n, len[n])) = len[n]
      <3>1. len[n] \in Nat
        BY <1>0
      <3>2. ArePieces(Pieces(c, n, len[n]), c, n, len[n])
        BY <2>1, <3>1, PiecesTyped
      <3> QED BY <3>2 DEF ArePieces
    <2> QED BY <1>5, <2>2, <2>3, ConcatProperties
  <1> QED BY <1>4, <1>5, <1>6

\* What has been laid out stays in place, and grows with every request.
Extends(t, s) == Len(s) <= Len(t) /\ \A p \in 1 .. Len(s) : t[p] = s[p]

LEMMA ExtendsConcat ==
  ASSUME NEW T, NEW s \in Seq(T), NEW t \in Seq(T), NEW u \in Seq(T), Extends(t, s)
  PROVE  Extends(t \o u, s)
  <1>1. Len(s) \in Nat /\ Len(t) \in Nat /\ Len(u) \in Nat
    BY LenProperties
  <1>2. Len(t \o u) = Len(t) + Len(u) /\ \A p \in 1 .. Len(t) : (t \o u)[p] = t[p]
    <2>1. /\ Len(t \o u) = Len(t) + Len(u)
          /\ \A p \in 1 .. Len(t) + Len(u) : (t \o u)[p] = IF p <= Len(t) THEN t[p] ELSE u[p - Len(t)]
      BY ConcatProperties
    <2> QED BY <1>1, <2>1
  <1> QED BY <1>1, <1>2 DEF Extends

LEMMA LaidPrefix ==
  ASSUME NEW c \in Client, NEW len \in Seq(Nat \ {0}),
         NEW m \in 0 .. Len(len), NEW n \in m .. Len(len)
  PROVE  /\ Extends(Cells(c, len, n), Cells(c, len, m))
         /\ m < n => Len(Cells(c, len, m)) < Len(Cells(c, len, n))
  <1> DEFINE L(k) == Cells(c, len, k)
             P(d) == Extends(L(m + d), L(m)) /\ (0 < d => Len(L(m)) < Len(L(m + d)))
             S == {d \in 0 .. Len(len) - m : P(d)}
  <1>0. Len(len) \in Nat /\ (\A k \in 1 .. Len(len) : len[k] \in Nat \ {0}) /\ m \in Nat
    BY LenProperties
  <1>1. \A k \in 0 .. Len(len) : L(k) \in Seq(Cell) /\ Len(L(k)) \in Nat
    BY LaidStep, LenProperties
  <1>2. P(0)
    <2>1. m + 0 = m /\ ~(0 < 0)
      BY <1>0
    <2>2. Extends(L(m), L(m))
      BY <1>1 DEF Extends
    <2> QED BY <2>1, <2>2
  <1>3. ASSUME NEW d \in 0 .. (Len(len) - m) - 1, P(d) PROVE P(d + 1)
    <2> PICK k : k = m + (d + 1)
      OBVIOUS
    <2>1. /\ k \in 1 .. Len(len) /\ k \in 0 .. Len(len) /\ k - 1 \in 0 .. Len(len)
          /\ k - 1 = m + d /\ k \in Nat \ {0} /\ d \in Nat
      BY <1>0
    <2>2. Extends(L(k - 1), L(m)) /\ Len(L(m)) <= Len(L(k - 1))
      BY <1>3, <2>1 DEF Extends
    <2>3. L(k) = L(k - 1) \o Pieces(c, k, len[k]) /\ Len(L(k)) = Len(L(k - 1)) + len[k]
      BY <2>1, LaidStep
    <2>4. len[k] \in Nat \ {0}
      BY <1>0, <2>1
    <2>5. Pieces(c, k, len[k]) \in Seq(Cell) /\ L(k - 1) \in Seq(Cell) /\ L(m) \in Seq(Cell)
      BY <1>1, <2>1, <2>4, PiecesTyped DEF ArePieces
    <2>6. Len(L(m)) \in Nat /\ Len(L(k - 1)) \in Nat
      BY <1>1, <2>1
    <2> PICK old, piece, first : old = L(k - 1) /\ piece = Pieces(c, k, len[k]) /\ first = L(m)
      OBVIOUS
    <2> HIDE DEF L
    <2>7. Extends(L(k), L(m))
      <3>1. old \in Seq(Cell) /\ piece \in Seq(Cell) /\ first \in Seq(Cell)
        BY <2>5
      <3>2. Extends(old \o piece, first)
        BY <2>2, <3>1, ExtendsConcat
      <3> QED BY <2>3, <3>2
    <2>8. Len(L(m)) < Len(L(k))
      BY <2>2, <2>3, <2>4, <2>6
    <2> QED BY <2>7, <2>8
  <1>4. n - m \in 0 .. Len(len) - m /\ m + (n - m) = n /\ Len(len) - m \in Nat
    BY <1>0
  <1>5. n - m \in S
    <2>1. 0 \in S
      <3> HIDE DEF P
      <3> QED BY <1>0, <1>2
    <2>2. \A d \in 0 .. (Len(len) - m) - 1 : d \in S => d + 1 \in S
      <3> HIDE DEF P
      <3> QED BY <1>0, <1>3
    <2> HIDE DEF S
    <2> QED BY <1>4, <2>1, <2>2, InductTo
  <1>6. P(n - m)
    <2> HIDE DEF P
    <2> QED BY <1>5
  <1>7. m < n => 0 < n - m
    BY <1>0
  <1> QED BY <1>4, <1>6, <1>7

LEMMA LaidAt ==
  ASSUME NEW c \in Client, NEW len \in Seq(Nat \ {0}),
         NEW n \in 1 .. Len(len), NEW q \in n .. Len(len), NEW j \in 1 .. len[n]
  PROVE  /\ Len(Cells(c, len, n - 1)) + j \in 1 .. Len(Cells(c, len, q))
         /\ Cells(c, len, q)[Len(Cells(c, len, n - 1)) + j] = [c |-> c, k |-> n, j |-> j]
  <1>0. Len(len) \in Nat /\ len[n] \in Nat \ {0} /\ n \in Nat \ {0} /\ len[n] \in Nat
    BY LenProperties
  <1> PICK before, now, piece : /\ before = Cells(c, len, n - 1) /\ now = Cells(c, len, n)
                                /\ piece = Pieces(c, n, len[n])
    OBVIOUS
  <1>1. before \in Seq(Cell) /\ Len(before) \in Nat /\ now \in Seq(Cell)
    <2>1. n - 1 \in 0 .. Len(len) /\ n \in 0 .. Len(len)
      BY <1>0
    <2> QED BY <2>1, LaidStep, LenProperties
  <1>2. now = before \o piece /\ Len(now) = Len(before) + len[n]
    BY LaidStep
  <1>3. piece \in Seq(Cell) /\ Len(piece) = len[n] /\ piece[j] = [c |-> c, k |-> n, j |-> j]
    <2>1. ArePieces(piece, c, n, len[n])
      BY <1>0, PiecesTyped
    <2> QED BY <2>1 DEF ArePieces
  <1>4. now[Len(before) + j] = [c |-> c, k |-> n, j |-> j]
    <2>1. Len(before) + j \in 1 .. Len(before) + Len(piece)
      BY <1>0, <1>1, <1>3
    <2>2. now[Len(before) + j] = IF Len(before) + j <= Len(before) THEN before[Len(before) + j]
                                 ELSE piece[(Len(before) + j) - Len(before)]
      BY <1>1, <1>2, <1>3, <2>1, ConcatProperties
    <2>3. ~(Len(before) + j <= Len(before)) /\ (Len(before) + j) - Len(before) = j
      BY <1>0, <1>1
    <2> QED BY <1>3, <2>2, <2>3
  <1> PICK all : all = Cells(c, len, q)
    OBVIOUS
  <1>5. Len(now) <= Len(all) /\ \A p \in 1 .. Len(now) : all[p] = now[p]
    <2>1. n \in 0 .. Len(len)
      BY <1>0
    <2> QED BY <2>1, LaidPrefix DEF Extends
  <1>6. Len(all) \in Nat
    <2>1. q \in 0 .. Len(len)
      BY <1>0
    <2> QED BY <2>1, LaidStep, LenProperties
  <1>7. Len(before) + j \in 1 .. Len(now) /\ Len(before) + j \in 1 .. Len(all)
    BY <1>0, <1>1, <1>2, <1>5, <1>6
  <1>8. all[Len(before) + j] = [c |-> c, k |-> n, j |-> j]
    BY <1>4, <1>5, <1>7
  <1> QED BY <1>7, <1>8

\* Every cell belongs to one of the requests laid out.
Within(c, len, q, p) ==
  \E n \in 1 .. q : \E j \in 1 .. len[n] : p = Len(Cells(c, len, n - 1)) + j

LEMMA LaidFind ==
  ASSUME NEW c \in Client, NEW len \in Seq(Nat \ {0}),
         NEW q \in 0 .. Len(len), NEW p \in 1 .. Len(Cells(c, len, q))
  PROVE  Within(c, len, q, p)
  <1> DEFINE L(k) == Len(Cells(c, len, k))
             P(k) == \A x \in 1 .. L(k) : \E n \in 1 .. k : \E j \in 1 .. len[n] : x = L(n - 1) + j
             S == {k \in 0 .. Len(len) : P(k)}
  <1>0. Len(len) \in Nat /\ (\A k \in 1 .. Len(len) : len[k] \in Nat \ {0})
    BY LenProperties
  <1>1. \A k \in 0 .. Len(len) : L(k) \in Nat
    BY LaidStep, LenProperties
  <1>2. P(0)
    <2>1. L(0) = 0
      BY LaidStep
    <2> QED BY <2>1
  <1>3. ASSUME NEW k \in 0 .. Len(len) - 1, P(k) PROVE P(k + 1)
    <2> SUFFICES ASSUME NEW x \in 1 .. L(k + 1)
                 PROVE  \E n \in 1 .. k + 1 : \E j \in 1 .. len[n] : x = L(n - 1) + j
      OBVIOUS
    <2>0. k + 1 \in 1 .. Len(len) /\ (k + 1) - 1 = k /\ k \in 0 .. Len(len)
      BY <1>0
    <2>1. L(k + 1) = L(k) + len[k + 1]
      BY <2>0, LaidStep
    <2>2. L(k) \in Nat /\ len[k + 1] \in Nat \ {0}
      BY <1>0, <1>1, <2>0
    <2> HIDE DEF L
    <2>3. CASE x <= L(k)
      <3>1. PICK n \in 1 .. k : \E j \in 1 .. len[n] : x = L(n - 1) + j
        BY <1>3, <2>2, <2>3
      <3>2. n \in 1 .. k + 1
        OBVIOUS
      <3> QED BY <3>1, <3>2
    <2>4. CASE x > L(k)
      <3>1. PICK j : j = x - L(k)
        OBVIOUS
      <3>2. j \in 1 .. len[k + 1] /\ x = L(k) + j
        BY <2>1, <2>2, <2>4, <3>1
      <3>3. k + 1 \in 1 .. k + 1 /\ (k + 1) - 1 = k
        OBVIOUS
      <3> QED BY <3>2, <3>3
    <2> QED BY <2>1, <2>2, <2>3, <2>4
  <1>4. q \in S
    <2>1. 0 \in S
      <3> HIDE DEF P
      <3> QED BY <1>0, <1>2
    <2>2. \A k \in 0 .. Len(len) - 1 : k \in S => k + 1 \in S
      <3> HIDE DEF P
      <3> QED BY <1>0, <1>3
    <2> HIDE DEF S
    <2> QED BY <1>0, <2>1, <2>2, InductTo
  <1>5. P(q)
    <2> HIDE DEF P
    <2> QED BY <1>4
  <1> QED BY <1>5 DEF Within

LEMMA CellsAssociative ==
  \A s, t, u \in Seq(Cell) : (s \o t) \o u = s \o (t \o u)
  BY ConcatAssociative

\* The requests after the first k, laid out by themselves.
LEMMA LaidAfter ==
  ASSUME NEW c \in Client, NEW len \in Seq(Nat \ {0}),
         NEW k \in 0 .. Len(len), NEW n \in Nat, k + n <= Len(len),
         NEW p \in [1 .. n -> Seq(Cell)],
         \A m \in 1 .. n : p[m] = Pieces(c, k + m, len[k + m])
  PROVE  \A m \in 0 .. n : Cells(c, len, k + m) = Cells(c, len, k) \o Joined(p, m)
  <1> DEFINE P(m) == Cells(c, len, k + m) = Cells(c, len, k) \o Joined(p, m)
             S == {m \in 0 .. n : P(m)}
  <1>0. Len(len) \in Nat /\ (\A m \in 1 .. Len(len) : len[m] \in Nat \ {0}) /\ k \in Nat
    BY LenProperties
  <1> PICK base : base = Cells(c, len, k)
    OBVIOUS
  <1>1. base \in Seq(Cell)
    BY LaidStep
  <1>2. /\ Joined(p, 0) = <<>>
        /\ \A m \in 0 .. n : Joined(p, m) \in Seq(Cell)
        /\ \A m \in 1 .. n : Joined(p, m) = Joined(p, m - 1) \o p[m]
    <2>1. JoinsUp(Cell, n, p)
      BY JoinedStep
    <2> QED BY <2>1, Zenon DEF JoinsUp
  <1>3. P(0)
    <2>1. k + 0 = k /\ base \o <<>> = base
      BY <1>0, <1>1, ConcatEmptySeq
    <2> QED BY <1>2, <2>1
  <1>4. ASSUME NEW m \in 0 .. n - 1, P(m) PROVE P(m + 1)
    <2>1. m + 1 \in 1 .. n /\ (m + 1) - 1 = m /\ m \in 0 .. n
      OBVIOUS
    <2>2. k + (m + 1) \in 1 .. Len(len) /\ (k + (m + 1)) - 1 = k + m
      BY <1>0
    <2> PICK piece, tail : piece = p[m + 1] /\ tail = Joined(p, m)
      OBVIOUS
    <2>3. Cells(c, len, k + (m + 1)) = Cells(c, len, k + m) \o piece
      <3>1. Cells(c, len, k + (m + 1)) = Cells(c, len, k + m) \o Pieces(c, k + (m + 1), len[k + (m + 1)])
        BY <2>2, LaidStep
      <3>2. p[m + 1] = Pieces(c, k + (m + 1), len[k + (m + 1)])
        BY <2>1
      <3> QED BY <3>1, <3>2
    <2>4. piece \in Seq(Cell) /\ tail \in Seq(Cell)
      BY <1>2, <2>1
    <2>5. Cells(c, len, k + m) = base \o tail
      BY <1>4
    <2>6. Joined(p, m + 1) = tail \o piece
      BY <1>2, <2>1
    <2>7. (base \o tail) \o piece = base \o (tail \o piece)
      BY <1>1, <2>4, CellsAssociative
    <2> QED BY <2>3, <2>5, <2>6, <2>7
  <1>5. \A m \in 0 .. n : m \in S
    <2>1. 0 \in S
      <3> HIDE DEF P
      <3> QED BY <1>3
    <2>2. \A m \in 0 .. n - 1 : m \in S => m + 1 \in S
      <3> HIDE DEF P
      <3> QED BY <1>4
    <2> HIDE DEF S
    <2> QED BY <2>1, <2>2, InductTo
  <1> QED BY <1>5

-------------------------------------------------------------------------------
(***************************************************************************)
(* The stream of a client and the replies to it, as cells laid out request *)
(* by request (HttpPipeline).                                              *)
(***************************************************************************)
Lens(c) == [m \in 1 .. Len(Script[c]) |-> Script[c][m].len]
Resps(c) == [m \in 1 .. Len(Script[c]) |-> RespLen(Script[c][m])]

\* Requests sent, and cells sent with them.
NumReqs(c) == Len(Script[c])
ReqEnd(c, k) == Len(RequestCells(c, k))
RepEnd(c, k) == Len(ReplyCells(c, k))

LEMMA ScriptTyped ==
  ASSUME NEW c \in Client
  PROVE  /\ NumReqs(c) \in Nat
         /\ \A k \in 1 .. NumReqs(c) :
              /\ Script[c][k].len \in Nat \ {0} /\ RespLen(Script[c][k]) \in Nat \ {0}
              /\ Script[c][k].kind \in Kinds /\ Script[c][k].http10 \in BOOLEAN
         /\ Lens(c) \in Seq(Nat \ {0}) /\ Len(Lens(c)) = NumReqs(c)
         /\ Resps(c) \in Seq(Nat \ {0}) /\ Len(Resps(c)) = NumReqs(c)
  <1>1. Script[c] \in Seq(Request)
    BY PipelineAssumption
  <1>2. NumReqs(c) \in Nat /\ \A k \in 1 .. NumReqs(c) : Script[c][k] \in Request
    BY <1>1, LenProperties DEF NumReqs
  <1>3. \A r \in Request : /\ r.len \in Nat \ {0} /\ RespLen(r) \in Nat \ {0}
                           /\ r.kind \in Kinds /\ r.http10 \in BOOLEAN
    BY DEF Request, RespLen
  <1>4. Lens(c) \in [1 .. NumReqs(c) -> Nat \ {0}]
    BY <1>2, <1>3 DEF Lens, NumReqs
  <1>5. Resps(c) \in [1 .. NumReqs(c) -> Nat \ {0}]
    BY <1>2, <1>3 DEF Resps, NumReqs
  <1>6. Lens(c) \in Seq(Nat \ {0}) /\ Len(Lens(c)) = NumReqs(c)
    BY <1>2, <1>4, SeqDef
  <1>7. Resps(c) \in Seq(Nat \ {0}) /\ Len(Resps(c)) = NumReqs(c)
    BY <1>2, <1>5, SeqDef
  <1> QED BY <1>2, <1>3, <1>6, <1>7

LEMMA CellsOf ==
  ASSUME NEW c \in Client, NEW k \in 0 .. NumReqs(c)
  PROVE  RequestCells(c, k) = Cells(c, Lens(c), k) /\ ReplyCells(c, k) = Cells(c, Resps(c), k)
  <1>1. \A m \in 1 .. k : m \in 1 .. Len(Script[c])
    BY ScriptTyped DEF NumReqs
  <1>2. [m \in 1 .. k |-> Pieces(c, m, Script[c][m].len)] = [m \in 1 .. k |-> Pieces(c, m, Lens(c)[m])]
    BY <1>1 DEF Lens
  <1>3. [m \in 1 .. k |-> Pieces(c, m, RespLen(Script[c][m]))] = [m \in 1 .. k |-> Pieces(c, m, Resps(c)[m])]
    BY <1>1 DEF Resps
  <1> QED BY <1>2, <1>3 DEF RequestCells, ReplyCells, Cells

\* The cells of the first k requests (or of the responses to them), by their number.
LEMMA RequestSteps ==
  ASSUME NEW c \in Client
  PROVE  /\ RequestCells(c, 0) = <<>> /\ ReqEnd(c, 0) = 0
         /\ \A k \in 0 .. NumReqs(c) : RequestCells(c, k) \in Seq(Cell) /\ ReqEnd(c, k) \in Nat
         /\ \A k \in 1 .. NumReqs(c) : ReqEnd(c, k) = ReqEnd(c, k - 1) + Script[c][k].len
         /\ Stream(c) = RequestCells(c, NumReqs(c))
  <1> PICK len : len = Lens(c)
    OBVIOUS
  <1>1. len \in Seq(Nat \ {0}) /\ Len(len) = NumReqs(c) /\ NumReqs(c) \in Nat
    BY ScriptTyped
  <1>2. \A k \in 0 .. NumReqs(c) : RequestCells(c, k) = Cells(c, len, k)
    BY CellsOf
  <1>3. RequestCells(c, 0) = <<>>
    BY <1>1, <1>2, LaidStep
  <1>4. \A k \in 0 .. NumReqs(c) : RequestCells(c, k) \in Seq(Cell)
    BY <1>1, <1>2, LaidStep
  <1>5. ASSUME NEW k \in 1 .. NumReqs(c) PROVE ReqEnd(c, k) = ReqEnd(c, k - 1) + Script[c][k].len
    <2>1. k \in 0 .. NumReqs(c) /\ k - 1 \in 0 .. NumReqs(c)
      BY <1>1
    <2>2. Len(Cells(c, len, k)) = Len(Cells(c, len, k - 1)) + len[k]
      BY <1>1, LaidStep
    <2>3. len[k] = Script[c][k].len
      BY DEF Lens, NumReqs
    <2> QED BY <1>2, <2>1, <2>2, <2>3 DEF ReqEnd
  <1> QED BY <1>3, <1>4, <1>5, LenProperties DEF ReqEnd, Stream, NumReqs

LEMMA ReplySteps ==
  ASSUME NEW c \in Client
  PROVE  /\ ReplyCells(c, 0) = <<>> /\ RepEnd(c, 0) = 0
         /\ \A k \in 0 .. NumReqs(c) : ReplyCells(c, k) \in Seq(Cell) /\ RepEnd(c, k) \in Nat
         /\ \A k \in 1 .. NumReqs(c) : RepEnd(c, k) = RepEnd(c, k - 1) + RespLen(Script[c][k])
         /\ Replies(c) = ReplyCells(c, NumReqs(c))
  <1> PICK len : len = Resps(c)
    OBVIOUS
  <1>1. len \in Seq(Nat \ {0}) /\ Len(len) = NumReqs(c) /\ NumReqs(c) \in Nat
    BY ScriptTyped
  <1>2. \A k \in 0 .. NumReqs(c) : ReplyCells(c, k) = Cells(c, len, k)
    BY CellsOf
  <1>3. ReplyCells(c, 0) = <<>>
    BY <1>1, <1>2, LaidStep
  <1>4. \A k \in 0 .. NumReqs(c) : ReplyCells(c, k) \in Seq(Cell)
    BY <1>1, <1>2, LaidStep
  <1>5. ASSUME NEW k \in 1 .. NumReqs(c) PROVE RepEnd(c, k) = RepEnd(c, k - 1) + RespLen(Script[c][k])
    <2>1. k \in 0 .. NumReqs(c) /\ k - 1 \in 0 .. NumReqs(c)
      BY <1>1
    <2>2. Len(Cells(c, len, k)) = Len(Cells(c, len, k - 1)) + len[k]
      BY <1>1, LaidStep
    <2>3. len[k] = RespLen(Script[c][k])
      BY DEF Resps, NumReqs
    <2> QED BY <1>2, <2>1, <2>2, <2>3 DEF RepEnd
  <1> QED BY <1>3, <1>4, <1>5, LenProperties DEF RepEnd, Replies, NumReqs

LEMMA EndsGrow ==
  ASSUME NEW c \in Client, NEW m \in 0 .. NumReqs(c), NEW n \in m .. NumReqs(c)
  PROVE  /\ Extends(RequestCells(c, n), RequestCells(c, m))
         /\ Extends(ReplyCells(c, n), ReplyCells(c, m))
         /\ m < n => ReqEnd(c, m) < ReqEnd(c, n) /\ RepEnd(c, m) < RepEnd(c, n)
  <1>1. /\ NumReqs(c) \in Nat
        /\ Lens(c) \in Seq(Nat \ {0}) /\ Len(Lens(c)) = NumReqs(c)
        /\ Resps(c) \in Seq(Nat \ {0}) /\ Len(Resps(c)) = NumReqs(c)
    BY ScriptTyped
  <1>2. n \in 0 .. NumReqs(c)
    BY <1>1
  <1>3. /\ RequestCells(c, m) = Cells(c, Lens(c), m) /\ RequestCells(c, n) = Cells(c, Lens(c), n)
        /\ ReplyCells(c, m) = Cells(c, Resps(c), m) /\ ReplyCells(c, n) = Cells(c, Resps(c), n)
    BY <1>2, CellsOf
  <1> QED BY <1>1, <1>3, LaidPrefix DEF ReqEnd, RepEnd

\* Every cell of the stream belongs to one request.
LEMMA StreamAt ==
  ASSUME NEW c \in Client, NEW k \in 1 .. NumReqs(c), NEW j \in 1 .. Script[c][k].len
  PROVE  /\ ReqEnd(c, k - 1) + j \in 1 .. Len(Stream(c))
         /\ Stream(c)[ReqEnd(c, k - 1) + j] = [c |-> c, k |-> k, j |-> j]
  <1> PICK len : len = Lens(c)
    OBVIOUS
  <1>1. len \in Seq(Nat \ {0}) /\ Len(len) = NumReqs(c) /\ NumReqs(c) \in Nat
    BY ScriptTyped
  <1>2. NumReqs(c) \in k .. Len(len) /\ j \in 1 .. len[k] /\ NumReqs(c) \in 0 .. NumReqs(c) /\ k - 1 \in 0 .. NumReqs(c)
    BY <1>1 DEF Lens, NumReqs
  <1>3. Stream(c) = Cells(c, len, NumReqs(c)) /\ ReqEnd(c, k - 1) = Len(Cells(c, len, k - 1))
    BY <1>2, CellsOf, RequestSteps DEF ReqEnd
  <1> QED BY <1>1, <1>2, <1>3, LaidAt

LEMMA StreamFind ==
  ASSUME NEW c \in Client, NEW p \in 1 .. Len(Stream(c))
  PROVE  \E k \in 1 .. NumReqs(c) : \E j \in 1 .. Script[c][k].len : p = ReqEnd(c, k - 1) + j
  <1> PICK len : len = Lens(c)
    OBVIOUS
  <1>1. len \in Seq(Nat \ {0}) /\ Len(len) = NumReqs(c) /\ NumReqs(c) \in Nat
    BY ScriptTyped
  <1>2. NumReqs(c) \in 0 .. Len(len) /\ Stream(c) = Cells(c, len, NumReqs(c))
    BY <1>1, CellsOf, RequestSteps
  <1>3. PICK k \in 1 .. NumReqs(c) : \E j \in 1 .. len[k] : p = Len(Cells(c, len, k - 1)) + j
    <2>1. Within(c, len, NumReqs(c), p)
      BY <1>1, <1>2, LaidFind
    <2> QED BY <2>1 DEF Within
  <1>4. k - 1 \in 0 .. NumReqs(c) /\ len[k] = Script[c][k].len
    BY <1>1 DEF Lens, NumReqs
  <1>5. Len(Cells(c, len, k - 1)) = ReqEnd(c, k - 1)
    BY <1>4, CellsOf DEF ReqEnd
  <1> QED BY <1>3, <1>4, <1>5

LEMMA ReplyAt ==
  ASSUME NEW c \in Client, NEW p \in 1 .. Len(Replies(c))
  PROVE  \E k \in 1 .. NumReqs(c) : /\ RepEnd(c, k - 1) < p /\ p <= RepEnd(c, k)
                                 /\ Replies(c)[p].k = k
  <1> PICK len : len = Resps(c)
    OBVIOUS
  <1>1. len \in Seq(Nat \ {0}) /\ Len(len) = NumReqs(c) /\ NumReqs(c) \in Nat
    BY ScriptTyped
  <1>2. NumReqs(c) \in 0 .. Len(len) /\ Replies(c) = Cells(c, len, NumReqs(c))
    BY <1>1, CellsOf, ReplySteps
  <1>3. PICK k \in 1 .. NumReqs(c) : \E j \in 1 .. len[k] : p = Len(Cells(c, len, k - 1)) + j
    <2>1. Within(c, len, NumReqs(c), p)
      BY <1>1, <1>2, LaidFind
    <2> QED BY <2>1 DEF Within
  <1>4. PICK j \in 1 .. len[k] : p = Len(Cells(c, len, k - 1)) + j
    BY <1>3
  <1>5. /\ k - 1 \in 0 .. NumReqs(c) /\ len[k] = RespLen(Script[c][k]) /\ NumReqs(c) \in k .. Len(len)
        /\ len[k] \in Nat
    BY <1>1, ScriptTyped DEF Resps, NumReqs
  <1>6. Len(Cells(c, len, k - 1)) = RepEnd(c, k - 1) /\ RepEnd(c, k - 1) \in Nat
    BY <1>5, CellsOf, ReplySteps DEF RepEnd
  <1>7. RepEnd(c, k) = RepEnd(c, k - 1) + len[k]
    BY <1>5, ReplySteps
  <1>8. Replies(c)[p] = [c |-> c, k |-> k, j |-> j]
    BY <1>1, <1>2, <1>4, <1>5, LaidAt
  <1> QED BY <1>4, <1>5, <1>6, <1>7, <1>8

-------------------------------------------------------------------------------
(***************************************************************************)
(* The parser and the batch (benchmark/parser.rs, connection.rs:167-382):  *)
(* from a buffer that starts at a request boundary, RequestEnds finds the  *)
(* ends of the complete requests, at most MaxPipeline of them, and stops   *)
(* short only at the end of what is there; Parsed gives those requests in  *)
(* order; Responses gives their responses in order.                        *)
(***************************************************************************)
\* Buffer r holds what client c sent after its first k requests.
BufferOf(c, k, r) ==
  /\ k \in 0 .. NumReqs(c)
  /\ r \in Seq(Cell) /\ ReqEnd(c, k) + Len(r) <= Len(Stream(c))
  /\ \A p \in 1 .. Len(r) : r[p] = Stream(c)[ReqEnd(c, k) + p]

\* s are the ends of the requests after k that end in the first p cells.
EndsAre(c, k, s, p) ==
  /\ s \in Seq(1 .. p) /\ Len(s) <= MaxPipeline /\ k + Len(s) <= NumReqs(c)
  /\ \A m \in 1 .. Len(s) : ReqEnd(c, k) + s[m] = ReqEnd(c, k + m)
  /\ \/ Len(s) = MaxPipeline
     \/ k + Len(s) = NumReqs(c)
     \/ ReqEnd(c, k) + p < ReqEnd(c, k + Len(s) + 1)

NextEnds(buf, s, p) ==
  IF buf[p].j = Req(buf[p]).len /\ Len(s) < MaxPipeline THEN Append(s, p) ELSE s

IsEnds(e, buf) ==
  e = [p \in 0 .. Len(buf) |-> IF p = 0 THEN <<>> ELSE NextEnds(buf, e[p - 1], p)]

LEMMA EndsExist ==
  ASSUME NEW buf \in Seq(Cell)
  PROVE  \E e : IsEnds(e, buf)
  <1> PICK N : N = Len(buf)
    OBVIOUS
  <1>0. N \in Nat
    BY LenProperties
  <1> DEFINE P(n) == \E e \in [0 .. n -> Seq(Nat)] :
                        e = [p \in 0 .. n |-> IF p = 0 THEN <<>> ELSE NextEnds(buf, e[p - 1], p)]
             S == {n \in 0 .. N : P(n)}
  <1>1. P(0)
    <2>1. PICK e : e = [p \in 0 .. 0 |-> <<>>]
      OBVIOUS
    <2>2. e \in [0 .. 0 -> Seq(Nat)]
      BY <2>1
    <2>3. e = [p \in 0 .. 0 |-> IF p = 0 THEN <<>> ELSE NextEnds(buf, e[p - 1], p)]
      BY <2>1
    <2> QED BY <2>2, <2>3
  <1>2. ASSUME NEW n \in 0 .. N - 1, P(n) PROVE P(n + 1)
    <2>1. PICK e \in [0 .. n -> Seq(Nat)] :
             e = [p \in 0 .. n |-> IF p = 0 THEN <<>> ELSE NextEnds(buf, e[p - 1], p)]
      BY <1>2
    <2>2. PICK last : last = NextEnds(buf, e[n], n + 1)
      OBVIOUS
    <2>3. last \in Seq(Nat)
      <3>1. e[n] \in Seq(Nat) /\ n + 1 \in Nat
        OBVIOUS
      <3> QED BY <2>2, <3>1, AppendProperties DEF NextEnds
    <2>4. PICK f : f = [p \in 0 .. n + 1 |-> IF p = n + 1 THEN last ELSE e[p]]
      OBVIOUS
    <2>5. f \in [0 .. n + 1 -> Seq(Nat)]
      BY <2>3, <2>4
    <2>6. ASSUME NEW p \in 0 .. n + 1
          PROVE  f[p] = IF p = 0 THEN <<>> ELSE NextEnds(buf, f[p - 1], p)
      <3>1. CASE p = n + 1
        <4>1. p # 0 /\ p - 1 = n /\ n \in 0 .. n + 1 /\ n # n + 1
          BY <3>1
        <4>2. f[p] = last /\ f[p - 1] = e[n]
          BY <2>4, <3>1, <4>1
        <4> QED BY <2>2, <3>1, <4>1, <4>2
      <3>2. CASE p # n + 1
        <4>1. p \in 0 .. n /\ (p # 0 => p - 1 \in 0 .. n)
          BY <3>2
        <4>2. f[p] = e[p] /\ (p # 0 => f[p - 1] = e[p - 1])
          BY <2>4, <4>1
        <4>3. e[p] = IF p = 0 THEN <<>> ELSE NextEnds(buf, e[p - 1], p)
          BY <2>1, <4>1
        <4> QED BY <4>2, <4>3
      <3> QED BY <3>1, <3>2
    <2>7. f = [p \in 0 .. n + 1 |-> f[p]]
      BY <2>4
    <2>8. f = [p \in 0 .. n + 1 |-> IF p = 0 THEN <<>> ELSE NextEnds(buf, f[p - 1], p)]
      BY <2>6, <2>7
    <2> QED BY <2>5, <2>8
  <1>3. N \in S
    <2>1. 0 \in S
      <3> HIDE DEF P
      <3> QED BY <1>0, <1>1
    <2>2. \A n \in 0 .. N - 1 : n \in S => n + 1 \in S
      <3> HIDE DEF P
      <3> QED BY <1>0, <1>2
    <2> HIDE DEF S
    <2> QED BY <1>0, <2>1, <2>2, InductTo
  <1>4. P(N)
    <2> HIDE DEF P
    <2> QED BY <1>3
  <1> QED BY <1>4 DEF IsEnds

LEMMA EndsFix ==
  ASSUME NEW buf \in Seq(Cell)
  PROVE  \E e : IsEnds(e, buf) /\ RequestEnds(buf) = e[Len(buf)]
  <1> DEFINE P(e) == e = [p \in 0 .. Len(buf) |->
                            IF p = 0 THEN <<>>
                            ELSE IF buf[p].j = Req(buf[p]).len /\ Len(e[p - 1]) < MaxPipeline
                              THEN Append(e[p - 1], p)
                              ELSE e[p - 1]]
  <1>1. RequestEnds(buf) = (CHOOSE e : P(e))[Len(buf)]
    BY DEF RequestEnds
  <1>2. \A e : P(e) <=> IsEnds(e, buf)
    BY DEF IsEnds, NextEnds
  <1>3. \E e : P(e)
    <2> HIDE DEF P
    <2> QED BY <1>2, EndsExist
  <1>4. P(CHOOSE e : P(e))
    <2> HIDE DEF P
    <2> QED BY <1>3
  <1> QED BY <1>1, <1>2, <1>4

-------------------------------------------------------------------------------
\* One more cell: it ends a request or it does not.
LEMMA EndsStep ==
  ASSUME NEW c \in Client, NEW k, NEW buf, BufferOf(c, k, buf),
         NEW p \in 1 .. Len(buf), NEW s, EndsAre(c, k, s, p - 1)
  PROVE  EndsAre(c, k, NextEnds(buf, s, p), p)
  <1> PICK N, base, L, q : /\ N = NumReqs(c) /\ base = ReqEnd(c, k) /\ L = Len(s) /\ q = base + p
    OBVIOUS
  <1>1. N \in Nat /\ k \in 0 .. N /\ Len(buf) \in Nat /\ p \in Nat \ {0} /\ MaxPipeline \in Nat \ {0}
    BY ScriptTyped, LenProperties, PipelineAssumption DEF BufferOf
  <1>2. /\ s \in Seq(1 .. p - 1) /\ L \in Nat /\ L <= MaxPipeline /\ k + L <= N
        /\ \A m \in 1 .. L : s[m] \in 1 .. p - 1 /\ base + s[m] = ReqEnd(c, k + m)
        /\ L = MaxPipeline \/ k + L = N \/ base + (p - 1) < ReqEnd(c, k + L + 1)
    <2>1. s \in Seq(1 .. p - 1) /\ L \in Nat /\ (\A m \in 1 .. L : s[m] \in 1 .. p - 1)
      BY LenProperties DEF EndsAre
    <2> QED BY <2>1 DEF EndsAre
  <1>3. s \in Seq(1 .. p)
    <2>1. 1 .. p - 1 \subseteq 1 .. p
      BY <1>1
    <2> QED BY <1>2, <2>1, SeqMonotonic
  <1>4. \A n \in 0 .. N : ReqEnd(c, n) \in Nat
    BY RequestSteps
  <1>5. base \in Nat /\ q \in 1 .. Len(Stream(c)) /\ Len(Stream(c)) = ReqEnd(c, N) /\ buf[p] = Stream(c)[q]
    <2>1. base \in Nat /\ Len(Stream(c)) = ReqEnd(c, N) /\ ReqEnd(c, N) \in Nat
      BY <1>1, <1>4, RequestSteps DEF ReqEnd
    <2>2. /\ ReqEnd(c, k) + Len(buf) <= Len(Stream(c))
          /\ \A x \in 1 .. Len(buf) : buf[x] = Stream(c)[ReqEnd(c, k) + x]
      BY DEF BufferOf
    <2>3. base + Len(buf) <= Len(Stream(c)) /\ Len(Stream(c)) \in Nat
      BY <2>1, <2>2
    <2>4. q \in 1 .. Len(Stream(c))
      BY <1>1, <2>1, <2>3
    <2>5. buf[p] = Stream(c)[q]
      BY <2>2
    <2> QED BY <2>1, <2>4, <2>5
  <1>6. PICK n \in 1 .. N : \E j \in 1 .. Script[c][n].len : q = ReqEnd(c, n - 1) + j
    BY <1>5, StreamFind
  <1>7. PICK j \in 1 .. Script[c][n].len : q = ReqEnd(c, n - 1) + j
    BY <1>6
  <1>8. /\ n \in Nat \ {0} /\ Script[c][n].len \in Nat \ {0} /\ ReqEnd(c, n - 1) \in Nat
        /\ ReqEnd(c, n) = ReqEnd(c, n - 1) + Script[c][n].len
        /\ buf[p] = [c |-> c, k |-> n, j |-> j]
    <2>1. n \in Nat \ {0} /\ n - 1 \in 0 .. N
      BY <1>1
    <2>2. Script[c][n].len \in Nat \ {0} /\ ReqEnd(c, n - 1) \in Nat
      BY <1>4, <2>1, ScriptTyped
    <2>3. ReqEnd(c, n) = ReqEnd(c, n - 1) + Script[c][n].len
      BY RequestSteps
    <2>4. Stream(c)[ReqEnd(c, n - 1) + j] = [c |-> c, k |-> n, j |-> j]
      BY StreamAt
    <2> QED BY <1>5, <1>7, <2>1, <2>2, <2>3, <2>4
  <1>9. (buf[p].j = Req(buf[p]).len) <=> (q = ReqEnd(c, n))
    BY <1>7, <1>8 DEF Req
  <1>10. CASE L = MaxPipeline
    <2>1. NextEnds(buf, s, p) = s
      BY <1>1, <1>10 DEF NextEnds
    <2> QED BY <1>2, <1>3, <1>10, <2>1 DEF EndsAre
  <1>11. CASE L # MaxPipeline
    <2>1. ReqEnd(c, k + L) < q
      <3>1. CASE L = 0
        BY <1>1, <1>5, <3>1
      <3>2. CASE L # 0
        <4>1. L \in 1 .. L
          BY <1>2, <3>2
        <4>2. s[L] \in 1 .. p - 1 /\ base + s[L] = ReqEnd(c, k + L)
          BY <1>2, <4>1
        <4> QED BY <1>1, <1>5, <4>2
      <3> QED BY <3>1, <3>2
    <2>2. k + L # N
      BY <1>5, <2>1, <1>1, <1>4
    <2> PICK K : K = k + L + 1
      OBVIOUS
    <2>3. K \in 1 .. N /\ q <= ReqEnd(c, K) /\ K - 1 = k + L /\ K - 1 \in 0 .. N /\ K \in 0 .. N
      <3>0. N \in Nat /\ k \in Nat /\ L \in Nat /\ k + L <= N
        BY <1>1, <1>2
      <3>a. k + L \in Nat /\ k + L < N
        BY <2>2, <3>0
      <3>1. K \in 1 .. N /\ K - 1 = k + L /\ K - 1 \in 0 .. N /\ K \in 0 .. N
        BY <3>0, <3>a
      <3>2. base + (p - 1) < ReqEnd(c, K)
        BY <1>2, <1>11, <2>2
      <3>3. ReqEnd(c, K) \in Nat
        BY <1>4, <3>1
      <3>4. base \in Nat /\ p \in Nat
        BY <1>1, <1>5
      <3>5. q <= ReqEnd(c, K)
        BY <3>2, <3>3, <3>4
      <3> QED BY <3>1, <3>5
    <2>4. n = K
      <3>1. CASE n < K
        <4>1. n \in 0 .. N /\ K - 1 \in n .. N
          BY <1>1, <2>3, <3>1
        <4>2. ReqEnd(c, n) <= ReqEnd(c, K - 1)
          BY <4>1, EndsGrow DEF Extends, ReqEnd
        <4>3. q <= ReqEnd(c, n) /\ ReqEnd(c, K - 1) < q
          <5>1. q <= ReqEnd(c, n)
            BY <1>7, <1>8
          <5> QED BY <2>1, <2>3, <5>1
        <4>4. ReqEnd(c, n) \in Nat /\ ReqEnd(c, K - 1) \in Nat
          BY <1>4, <2>3, <4>1
        <4> QED BY <1>5, <4>2, <4>3, <4>4
      <3>2. CASE K < n
        <4>1. n - 1 \in K .. N /\ n - 1 \in 0 .. N
          BY <1>1, <2>3, <3>2
        <4>2. ReqEnd(c, K) <= ReqEnd(c, n - 1)
          BY <2>3, <4>1, EndsGrow DEF Extends, ReqEnd
        <4>3. ReqEnd(c, n - 1) < q /\ q <= ReqEnd(c, K)
          BY <1>7, <1>8, <2>3
        <4>4. ReqEnd(c, n - 1) \in Nat /\ ReqEnd(c, K) \in Nat
          BY <1>4, <2>3, <4>1
        <4> QED BY <1>5, <4>2, <4>3, <4>4
      <3> QED BY <1>1, <2>3, <3>1, <3>2
    <2>5. CASE q = ReqEnd(c, n)
      <3>1. PICK t : t = Append(s, p)
        OBVIOUS
      <3>2. NextEnds(buf, s, p) = t
        BY <1>1, <1>2, <1>9, <1>11, <2>5, <3>1 DEF NextEnds
      <3>3. p \in 1 .. p
        BY <1>1
      <3>4. /\ t \in Seq(1 .. p) /\ Len(t) = L + 1 /\ t[L + 1] = p
            /\ \A m \in 1 .. L : t[m] = s[m]
        BY <1>2, <1>3, <3>1, <3>3, AppendProperties
      <3>5. L + 1 <= MaxPipeline /\ k + (L + 1) <= N
        BY <1>1, <1>2, <1>11, <2>2
      <3>6. ASSUME NEW m \in 1 .. L + 1 PROVE base + t[m] = ReqEnd(c, k + m)
        <4>1. CASE m = L + 1
          <5>1. k + m = n
            BY <1>1, <1>2, <2>4, <4>1
          <5>2. t[m] = p
            BY <3>4, <4>1
          <5> QED BY <2>5, <5>1, <5>2
        <4>2. CASE m # L + 1
          <5>1. m \in 1 .. L
            BY <1>2, <4>2
          <5> QED BY <1>2, <3>4, <5>1
        <4> QED BY <4>1, <4>2
      <3>7. k + (L + 1) = N \/ base + p < ReqEnd(c, k + (L + 1) + 1)
        <4>1. CASE k + (L + 1) # N
          <5>1. n \in 0 .. N /\ n + 1 \in n .. N /\ n < n + 1 /\ k + (L + 1) + 1 = n + 1
            BY <1>1, <1>2, <2>4, <4>1
          <5>2. ReqEnd(c, n) < ReqEnd(c, n + 1)
            BY <5>1, EndsGrow
          <5> QED BY <2>5, <5>1, <5>2
        <4> QED BY <4>1
      <3> QED BY <3>2, <3>4, <3>5, <3>6, <3>7 DEF EndsAre
    <2>6. CASE q # ReqEnd(c, n)
      <3>1. NextEnds(buf, s, p) = s
        BY <1>9, <2>6 DEF NextEnds
      <3>2. base + p < ReqEnd(c, k + L + 1)
        <4>1. q <= ReqEnd(c, K) /\ q # ReqEnd(c, K)
          BY <2>3, <2>4, <2>6
        <4>2. q \in Nat /\ ReqEnd(c, K) \in Nat
          BY <1>4, <1>5, <2>3
        <4> QED BY <4>1, <4>2
      <3> QED BY <1>2, <1>3, <3>1, <3>2 DEF EndsAre
    <2> QED BY <2>5, <2>6
  <1> QED BY <1>10, <1>11

LEMMA EndsSound ==
  ASSUME NEW c \in Client, NEW k, NEW buf, BufferOf(c, k, buf)
  PROVE  EndsAre(c, k, RequestEnds(buf), Len(buf))
  <1>1. buf \in Seq(Cell) /\ Len(buf) \in Nat
    BY LenProperties DEF BufferOf
  <1>2. PICK e : IsEnds(e, buf) /\ RequestEnds(buf) = e[Len(buf)]
    BY <1>1, EndsFix
  <1> DEFINE S == {p \in 0 .. Len(buf) : EndsAre(c, k, e[p], p)}
  <1>3. 0 \in S
    <2>1. e[0] = <<>>
      BY <1>1, <1>2 DEF IsEnds
    <2>2. NumReqs(c) \in Nat /\ k \in 0 .. NumReqs(c) /\ MaxPipeline \in Nat
      BY ScriptTyped, PipelineAssumption DEF BufferOf
    <2>3. k # NumReqs(c) => ReqEnd(c, k) < ReqEnd(c, k + 1)
      <3>1. ASSUME k # NumReqs(c) PROVE ReqEnd(c, k) < ReqEnd(c, k + 1)
        <4>1. k + 1 \in k .. NumReqs(c) /\ k < k + 1
          BY <2>2, <3>1
        <4> QED BY <2>2, <4>1, EndsGrow
      <3> QED BY <3>1
    <2>4. ReqEnd(c, k) \in Nat
      BY <2>2, RequestSteps
    <2>5. <<>> \in Seq(1 .. 0) /\ Len(<<>>) = 0
      OBVIOUS
    <2>6. k + 0 = k /\ ReqEnd(c, k) + 0 = ReqEnd(c, k) /\ k + 0 + 1 = k + 1 /\ k <= NumReqs(c) /\ 0 <= MaxPipeline
      BY <2>2, <2>4
    <2>7. EndsAre(c, k, <<>>, 0)
      BY <2>3, <2>5, <2>6 DEF EndsAre
    <2> QED BY <1>1, <2>1, <2>7
  <1>4. ASSUME NEW p \in 0 .. Len(buf) - 1, p \in S PROVE p + 1 \in S
    <2>1. p + 1 \in 1 .. Len(buf) /\ (p + 1) - 1 = p /\ p + 1 # 0 /\ p + 1 \in 0 .. Len(buf)
      BY <1>1
    <2>2. e[p + 1] = NextEnds(buf, e[p], p + 1)
      BY <1>2, <2>1 DEF IsEnds
    <2>3. EndsAre(c, k, e[p], (p + 1) - 1)
      BY <1>4, <2>1
    <2> QED BY <2>1, <2>2, <2>3, EndsStep
  <1>5. Len(buf) \in S
    <2>1. \A p \in 0 .. Len(buf) - 1 : p \in S => p + 1 \in S
      <3> HIDE DEF S
      <3> QED BY <1>4
    <2>2. Len(buf) \in 0 .. Len(buf)
      BY <1>1
    <2> HIDE DEF S
    <2> QED BY <1>1, <1>3, <2>1, <2>2, InductTo
  <1> QED BY <1>2, <1>5

\* The requests parsed are the ones after the first k, in order.
ReqsAre(c, k, reqs) ==
  /\ reqs \in Seq(Cell) /\ k + Len(reqs) <= NumReqs(c)
  /\ \A m \in 1 .. Len(reqs) : reqs[m].c = c /\ reqs[m].k = k + m

LEMMA ParsedSound ==
  ASSUME NEW c \in Client, NEW k, NEW buf, BufferOf(c, k, buf),
         NEW s, EndsAre(c, k, s, Len(buf))
  PROVE  ReqsAre(c, k, Parsed(buf, s)) /\ Len(Parsed(buf, s)) = Len(s)
  <1>1. Len(buf) \in Nat /\ buf \in Seq(Cell) /\ k \in 0 .. NumReqs(c) /\ NumReqs(c) \in Nat
    BY ScriptTyped, LenProperties DEF BufferOf
  <1>2. /\ Len(s) \in Nat /\ DOMAIN s = 1 .. Len(s) /\ k + Len(s) <= NumReqs(c)
        /\ \A m \in 1 .. Len(s) : s[m] \in 1 .. Len(buf) /\ ReqEnd(c, k) + s[m] = ReqEnd(c, k + m)
    <2>1. s \in Seq(1 .. Len(buf))
      BY DEF EndsAre
    <2>2. Len(s) \in Nat /\ DOMAIN s = 1 .. Len(s) /\ \A m \in 1 .. Len(s) : s[m] \in 1 .. Len(buf)
      BY <2>1, LenProperties
    <2> QED BY <2>2 DEF EndsAre
  <1> PICK reqs : reqs = Parsed(buf, s)
    OBVIOUS
  <1>3. reqs = [m \in 1 .. Len(s) |-> buf[s[m]]]
    BY <1>2 DEF Parsed
  <1>4. ASSUME NEW m \in 1 .. Len(s) PROVE reqs[m].c = c /\ reqs[m].k = k + m
    <2> PICK n : n = k + m
      OBVIOUS
    <2>1. n \in 1 .. NumReqs(c) /\ n - 1 \in 0 .. NumReqs(c) /\ s[m] \in 1 .. Len(buf)
      BY <1>1, <1>2
    <2>2. /\ Script[c][n].len \in Nat \ {0} /\ ReqEnd(c, n - 1) \in Nat
          /\ ReqEnd(c, n) = ReqEnd(c, n - 1) + Script[c][n].len
      BY <2>1, ScriptTyped, RequestSteps
    <2>3. Script[c][n].len \in 1 .. Script[c][n].len
      BY <2>2
    <2>4. Stream(c)[ReqEnd(c, n)] = [c |-> c, k |-> n, j |-> Script[c][n].len]
      BY <2>1, <2>2, <2>3, StreamAt
    <2>5. buf[s[m]] = Stream(c)[ReqEnd(c, n)]
      <3>1. buf[s[m]] = Stream(c)[ReqEnd(c, k) + s[m]]
        BY <2>1 DEF BufferOf
      <3> QED BY <1>2, <3>1
    <2> QED BY <1>3, <2>4, <2>5
  <1>5. reqs \in [1 .. Len(s) -> Cell]
    <2>1. \A p \in 1 .. Len(buf) : buf[p] \in Cell
      BY <1>1, LenProperties
    <2> QED BY <1>2, <1>3, <2>1
  <1>6. reqs \in Seq(Cell) /\ Len(reqs) = Len(s)
    BY <1>2, <1>5, SeqDef
  <1> QED BY <1>2, <1>4, <1>6 DEF ReqsAre

\* The responses to the first n of them follow the responses to the first k.
Follow(c, k, reqs, n) ==
  /\ Responses(reqs, n) \in Seq(Cell)
  /\ ReplyCells(c, k + n) = ReplyCells(c, k) \o Responses(reqs, n)
  /\ Len(Responses(reqs, n)) = RepEnd(c, k + n) - RepEnd(c, k)

LEMMA ResponsesSound ==
  ASSUME NEW c \in Client, NEW k \in 0 .. NumReqs(c), NEW reqs, ReqsAre(c, k, reqs),
         NEW n \in 0 .. Len(reqs)
  PROVE  Follow(c, k, reqs, n)
  <1> PICK len : len = Resps(c)
    OBVIOUS
  <1>1. len \in Seq(Nat \ {0}) /\ Len(len) = NumReqs(c) /\ NumReqs(c) \in Nat
    BY ScriptTyped
  <1>2. Len(reqs) \in Nat /\ k + n <= NumReqs(c) /\ n \in Nat /\ k \in 0 .. Len(len) /\ k + n <= Len(len)
    <2>1. Len(reqs) \in Nat
      BY LenProperties DEF ReqsAre
    <2> QED BY <1>1, <2>1 DEF ReqsAre
  <1> PICK p : p = [m \in 1 .. n |-> Response(reqs[m])]
    OBVIOUS
  <1>3. ASSUME NEW m \in 1 .. n
        PROVE  p[m] = Pieces(c, k + m, len[k + m]) /\ p[m] \in Seq(Cell)
    <2>1. m \in 1 .. Len(reqs) /\ k + m \in 1 .. NumReqs(c) /\ k + m \in Nat \ {0}
      BY <1>1, <1>2
    <2>2. reqs[m].c = c /\ reqs[m].k = k + m
      BY <2>1 DEF ReqsAre
    <2>3. Response(reqs[m]) = Pieces(c, k + m, RespLen(Script[c][k + m]))
      BY <2>2 DEF Response, Req
    <2>4. len[k + m] = RespLen(Script[c][k + m]) /\ len[k + m] \in Nat
      BY <1>1, <2>1, ScriptTyped DEF Resps, NumReqs
    <2>5. ArePieces(Pieces(c, k + m, len[k + m]), c, k + m, len[k + m])
      BY <2>1, <2>4, PiecesTyped
    <2> QED BY <2>3, <2>4, <2>5 DEF ArePieces
  <1>4. p \in [1 .. n -> Seq(Cell)]
    BY <1>3
  <1>5. Joined(p, n) = Responses(reqs, n)
    <2>1. [m \in 1 .. n |-> p[m]] = [m \in 1 .. n |-> Response(reqs[m])]
      OBVIOUS
    <2> QED BY <2>1 DEF Joined, Responses
  <1>6. \A m \in 1 .. n : p[m] = Pieces(c, k + m, len[k + m])
    BY <1>3
  <1>7. \A m \in 0 .. n : Cells(c, len, k + m) = Cells(c, len, k) \o Joined(p, m)
    BY <1>1, <1>2, <1>4, <1>6, LaidAfter
  <1>8. ReplyCells(c, k + n) = Cells(c, len, k + n) /\ ReplyCells(c, k) = Cells(c, len, k)
    <2>1. k + n \in 0 .. NumReqs(c)
      BY <1>1, <1>2
    <2> QED BY <2>1, CellsOf
  <1>9. Joined(p, n) \in Seq(Cell)
    <2>1. JoinsUp(Cell, n, p)
      BY <1>2, <1>4, JoinedStep
    <2>2. n \in 0 .. n
      BY <1>2
    <2> QED BY <2>1, <2>2, Zenon DEF JoinsUp
  <1>10. ReplyCells(c, k + n) = ReplyCells(c, k) \o Responses(reqs, n)
    <2>1. n \in 0 .. n
      BY <1>2
    <2> QED BY <1>5, <1>7, <1>8, <2>1, Zenon
  <1>11. ReplyCells(c, k) \in Seq(Cell) /\ RepEnd(c, k) \in Nat
    BY ReplySteps
  <1>12. RepEnd(c, k + n) = RepEnd(c, k) + Len(Responses(reqs, n))
    BY <1>5, <1>9, <1>10, <1>11, ConcatProperties DEF RepEnd
  <1>13. Len(Responses(reqs, n)) \in Nat
    BY <1>5, <1>9, LenProperties
  <1> QED BY <1>5, <1>9, <1>10, <1>11, <1>12, <1>13 DEF Follow

-------------------------------------------------------------------------------
(***************************************************************************)
(* The synchronous requests at the head of a pipeline: the batch stops at  *)
(* an asynchronous handler, at a request that ends the connection, and     *)
(* where the write region is full.                                         *)
(***************************************************************************)
LEMMA BatchIs ==
  ASSUME NEW reqs, Len(reqs) \in Nat
  PROVE  /\ BatchSize(reqs) \in 0 .. Len(reqs) /\ Batchable(reqs, BatchSize(reqs))
         /\ \A n \in 1 .. Len(reqs) : Batchable(reqs, n) => n <= BatchSize(reqs)
  <1> DEFINE T == {n \in 0 .. Len(reqs) : Batchable(reqs, n)}
             R == {d \in 0 .. Len(reqs) : Len(reqs) - d \in T}
  <1>1. 0 \in T
    <2>1. Responses(reqs, 0) = <<>>
      <3>1. [m \in 1 .. 0 |-> Response(reqs[m])] = <<>>
        OBVIOUS
      <3>2. FlattenSeq(<<>>) = <<>>
        BY DEF FlattenSeq
      <3> QED BY <3>1, <3>2 DEF Responses
    <2>2. Len(Responses(reqs, 0)) = 0 /\ 0 <= WriteRegion
      BY <2>1, PipelineAssumption
    <2> QED BY <2>2 DEF Batchable
  <1>2. PICK d \in R : \A e \in R : d <= e
    <2>1. Len(reqs) \in R /\ R \in SUBSET Nat
      BY <1>1
    <2> HIDE DEF R
    <2> QED BY <2>1, Smallest
  <1>3. \E x \in T : \A y \in T : x >= y
    <2>1. Len(reqs) - d \in T
      BY <1>2
    <2>2. ASSUME NEW y \in T PROVE Len(reqs) - d >= y
      <3>1. y \in 0 .. Len(reqs) /\ Len(reqs) - y \in 0 .. Len(reqs) /\ Len(reqs) - (Len(reqs) - y) = y
        OBVIOUS
      <3>2. Len(reqs) - y \in R
        BY <3>1
      <3> QED BY <1>2, <3>1, <3>2
    <2> QED BY <2>1, <2>2
  <1>4. BatchSize(reqs) = CHOOSE x \in T : \A y \in T : x >= y
    BY DEF BatchSize, Max
  <1>5. BatchSize(reqs) \in T /\ \A y \in T : BatchSize(reqs) >= y
    <2> HIDE DEF T
    <2> QED BY <1>3, <1>4
  <1> QED BY <1>5

\* When the first request is not async, the batch is empty only because its
\* response does not fit.
LEMMA BatchSound ==
  ASSUME NEW c \in Client, NEW k \in 0 .. NumReqs(c), NEW reqs, ReqsAre(c, k, reqs),
         reqs # <<>>, Req(reqs[1]).kind # "async"
  PROVE  /\ k < NumReqs(c)
         /\ BatchSize(reqs) = 0 => RespLen(Script[c][k + 1]) > WriteRegion
  <1>1. /\ Len(reqs) \in Nat \ {0} /\ 1 \in 1 .. Len(reqs) /\ 1 \in 0 .. Len(reqs)
        /\ k + Len(reqs) <= NumReqs(c) /\ NumReqs(c) \in Nat
    BY ScriptTyped, LenProperties, EmptySeq DEF ReqsAre
  <1>2. k < NumReqs(c) /\ k + 1 \in 1 .. NumReqs(c) /\ (k + 1) - 1 = k
    BY <1>1
  <1>3. CASE RespLen(Script[c][k + 1]) <= WriteRegion
    <2>1. Len(Responses(reqs, 1)) = RepEnd(c, k + 1) - RepEnd(c, k)
      BY <1>1, ResponsesSound DEF Follow
    <2>2. RepEnd(c, k + 1) = RepEnd(c, k) + RespLen(Script[c][k + 1])
      BY <1>2, ReplySteps
    <2>3. RepEnd(c, k) \in Nat /\ RespLen(Script[c][k + 1]) \in Nat
      BY <1>2, ReplySteps, ScriptTyped
    <2>4. Len(Responses(reqs, 1)) <= WriteRegion
      BY <1>3, <2>1, <2>2, <2>3
    <2>5. Batchable(reqs, 1)
      BY <2>4 DEF Batchable
    <2>6. 1 <= BatchSize(reqs)
      BY <1>1, <2>5, BatchIs
    <2> QED BY <1>2, <2>6
  <1>4. RespLen(Script[c][k + 1]) \in Nat /\ WriteRegion \in Nat
    BY <1>2, ScriptTyped, PipelineAssumption
  <1> QED BY <1>2, <1>3, <1>4

-------------------------------------------------------------------------------
(***************************************************************************)
(* The account of a connection. There is a k such that the first k         *)
(* requests of the client are behind it: what the worker has read is those *)
(* requests and the read region (Consistent), and what the client got is   *)
(* their responses, less what the write region still holds (WritingOK) or  *)
(* what a handler still owes (ParkedOK). A peer that is gone is owed       *)
(* nothing, so the part about its client is under p = "open".              *)
(***************************************************************************)
\* Of the n cells client c has sent, the first k requests are answered and the
\* read region holds the rest.
Consistent(c, k, r, n) ==
  /\ BufferOf(c, k, r) /\ Len(r) <= ReadRegion
  /\ n \in Nat /\ n = ReqEnd(c, k) + Len(r)

OpStage(op, p) ==
  /\ op.stage \in {"sq", "kernel"} => op.res = 0
  /\ op.stage \in {"cq", "batch"} => op.res # 0 \/ p # "open"

ReadingOK(cn, op, r, w, c, k, g, p) ==
  /\ OpStage(op, p)
  /\ cn.read_filled \in Nat /\ cn.read_filled < ReadRegion
  /\ cn.write_filled = 0 /\ cn.write_offset = 0 /\ ~cn.close_after_drain
  /\ op.off = cn.read_filled /\ op.len = ReadRegion - cn.read_filled /\ op.res \in 0 .. op.len
  /\ Len(r) = cn.read_filled + op.res /\ w = <<>>
  /\ p = "open" => g = ReplyCells(c, k)

\* The first k responses are sent, or the last of them end connection c.
Ends(c, k) == k > 0 /\ (Unavailable(Script[c][k]) \/ CloseOf(Script[c][k]))

WritingOK(cn, op, r, w, c, k, g, p) ==
  /\ OpStage(op, p)
  /\ cn.read_filled = Len(r)
  /\ w \in Seq(Cell) /\ Len(w) <= WriteRegion /\ cn.write_filled = Len(w)
  /\ cn.write_offset \in Nat /\ cn.write_offset < Len(w)
  /\ op.off = cn.write_offset /\ op.len = Len(w) - cn.write_offset /\ op.res \in 0 .. op.len
  /\ cn.close_after_drain => Ends(c, k)
  /\ p = "open" => g \o SubSeq(w, cn.write_offset + op.res + 1, Len(w)) = ReplyCells(c, k)

ParkedOK(cn, r, w, c, k, g, p) ==
  /\ cn.read_filled = Len(r) /\ w = <<>>
  /\ cn.write_filled = 0 /\ cn.write_offset = 0 /\ ~cn.close_after_drain
  /\ k > 0 /\ Script[c][k].kind = "async" /\ HasRegistry
  /\ p = "open" => g = ReplyCells(c, k - 1)

\* Connection cn with operations ops and regions r and w, of a client c of whom
\* n cells were read, who got g and whose socket is p; owed is the requests that
\* handlers still run for.
ConnAt(cn, ops, r, w, c, n, g, p, owed, k) ==
  /\ Consistent(c, k, r, n)
  /\ \A e \in owed : e.c = c /\ e.k = k
  /\ cn.state = "Reading" => ReadingOK(cn, ops[1], r, w, c, k, g, p)
  /\ cn.state = "Writing" => WritingOK(cn, ops[1], r, w, c, k, g, p)
  /\ cn.state = "AwaitingAsync" => ParkedOK(cn, r, w, c, k, g, p)

ConnOK(cn, ops, r, w, c, n, g, p, owed) ==
  /\ c \in Client /\ g \in Seq(Cell) /\ ~cn.parked_close_after
  /\ \E k : ConnAt(cn, ops, r, w, c, n, g, p, owed, k)

\* t is what follows the first a elements of s, up to the b-th.
IsPart(t, s, a, b) == Len(t) = b - a /\ \A i \in 1 .. b - a : t[i] = s[a + i]

LEMMA PartOf ==
  ASSUME NEW T, NEW s \in Seq(T), NEW a \in Nat, NEW b \in a .. Len(s)
  PROVE  SubSeq(s, a + 1, b) \in Seq(T) /\ IsPart(SubSeq(s, a + 1, b), s, a, b)
  <1>1. Len(s) \in Nat /\ \A i \in 1 .. Len(s) : s[i] \in T
    BY LenProperties
  <1>2. a + 1 \in Int /\ b \in Int /\ b \in Nat /\ \A i \in a + 1 .. b : s[i] \in T
    BY <1>1
  <1>3. PICK t : t = SubSeq(s, a + 1, b)
    OBVIOUS
  <1>4. /\ t \in Seq(T) /\ Len(t) = IF a + 1 <= b THEN b - (a + 1) + 1 ELSE 0
        /\ \A i \in 1 .. b - (a + 1) + 1 : t[i] = s[(a + 1) + i - 1]
    BY <1>2, <1>3, SubSeqProperties
  <1>5. b - (a + 1) + 1 = b - a /\ Len(t) = b - a
    BY <1>2, <1>4
  <1>6. \A i \in 1 .. b - a : t[i] = s[a + i]
    <2> TAKE i \in 1 .. b - a
    <2>1. (a + 1) + i - 1 = a + i
      BY <1>2
    <2> QED BY <1>4, <1>5, <2>1
  <1> QED BY <1>3, <1>4, <1>5, <1>6 DEF IsPart

LEMMA ConsistentTyped ==
  ASSUME NEW c \in Client, NEW k, NEW r, NEW n, Consistent(c, k, r, n)
  PROVE  /\ k \in 0 .. NumReqs(c) /\ NumReqs(c) \in Nat /\ ReqEnd(c, k) \in Nat
         /\ r \in Seq(Cell) /\ Len(r) \in Nat /\ n \in Nat /\ n <= Len(Stream(c))
         /\ Stream(c) \in Seq(Cell) /\ Len(Stream(c)) \in Nat /\ ReadRegion \in Nat \ {0}
         /\ r = SubSeq(Stream(c), ReqEnd(c, k) + 1, n)
         /\ ReplyCells(c, k) \in Seq(Cell)
  <1>1. /\ k \in 0 .. NumReqs(c) /\ r \in Seq(Cell) /\ Len(r) \in Nat /\ NumReqs(c) \in Nat
        /\ n = ReqEnd(c, k) + Len(r) /\ n <= Len(Stream(c)) /\ n \in Nat
        /\ \A p \in 1 .. Len(r) : r[p] = Stream(c)[ReqEnd(c, k) + p]
    BY ScriptTyped, LenProperties DEF Consistent, BufferOf
  <1>2. NumReqs(c) \in 0 .. NumReqs(c)
    BY <1>1
  <1>3. Stream(c) \in Seq(Cell) /\ ReqEnd(c, k) \in Nat
    BY <1>1, <1>2, RequestSteps
  <1>4. Len(Stream(c)) \in Nat /\ DOMAIN Stream(c) = 1 .. Len(Stream(c))
        /\ \A p \in 1 .. Len(Stream(c)) : Stream(c)[p] \in Cell
    BY <1>3, LenProperties
  <1> PICK e : e = ReqEnd(c, k)
    OBVIOUS
  <1>5. e \in Nat /\ n \in e .. Len(Stream(c)) /\ n - e = Len(r)
    BY <1>1, <1>3, <1>4
  <1>6. PICK t : t = SubSeq(Stream(c), e + 1, n)
    OBVIOUS
  <1>7. t \in Seq(Cell) /\ IsPart(t, Stream(c), e, n)
    BY <1>3, <1>5, <1>6, PartOf
  <1>8. Len(t) = Len(r) /\ \A i \in 1 .. Len(t) : t[i] = r[i]
    BY <1>1, <1>5, <1>7 DEF IsPart
  <1>9. r = SubSeq(Stream(c), ReqEnd(c, k) + 1, n)
    BY <1>1, <1>6, <1>7, <1>8, SeqEqual
  <1>10. ReadRegion \in Nat \ {0} /\ ReplyCells(c, k) \in Seq(Cell)
    BY <1>1, ReplySteps, PipelineAssumption
  <1> QED BY <1>1, <1>3, <1>4, <1>9, <1>10

\* Requests consumed leave the buffer.
LEMMA Consumed ==
  ASSUME NEW c \in Client, NEW k, NEW r, NEW n, Consistent(c, k, r, n),
         NEW m \in 0 .. NumReqs(c), NEW e \in 1 .. Len(r), ReqEnd(c, k) + e = ReqEnd(c, m)
  PROVE  /\ Consistent(c, m, SubSeq(r, e + 1, Len(r)), n)
         /\ Len(SubSeq(r, e + 1, Len(r))) = Len(r) - e
  <1>1. /\ r \in Seq(Cell) /\ Len(r) \in Nat /\ n = ReqEnd(c, k) + Len(r) /\ n \in Nat /\ ReqEnd(c, k) \in Nat
        /\ n <= Len(Stream(c)) /\ Len(r) <= ReadRegion /\ ReadRegion \in Nat /\ Len(Stream(c)) \in Nat
        /\ \A p \in 1 .. Len(r) : r[p] = Stream(c)[ReqEnd(c, k) + p] /\ r[p] \in Cell
    BY ConsistentTyped, LenProperties DEF Consistent, BufferOf
  <1>2. PICK t : t = SubSeq(r, e + 1, Len(r))
    OBVIOUS
  <1>3. t \in Seq(Cell) /\ IsPart(t, r, e, Len(r))
    <2>1. e \in Nat /\ Len(r) \in e .. Len(r)
      BY <1>1
    <2> QED BY <1>1, <1>2, <2>1, PartOf
  <1>4. Len(t) = Len(r) - e /\ \A i \in 1 .. Len(r) - e : t[i] = r[e + i]
    BY <1>3 DEF IsPart
  <1>5. ASSUME NEW i \in 1 .. Len(t) PROVE t[i] = Stream(c)[ReqEnd(c, m) + i]
    <2>1. i \in 1 .. Len(r) - e /\ e + i \in 1 .. Len(r)
      BY <1>1, <1>4
    <2>2. t[i] = r[e + i]
      BY <1>4, <2>1
    <2>3. r[e + i] = Stream(c)[ReqEnd(c, k) + (e + i)]
      BY <1>1, <2>1
    <2>4. ReqEnd(c, k) + (e + i) = ReqEnd(c, m) + i
      BY <1>1
    <2> QED BY <2>2, <2>3, <2>4
  <1>6. n = ReqEnd(c, m) + Len(t) /\ Len(t) <= ReadRegion
    BY <1>1, <1>4
  <1>7. BufferOf(c, m, t)
    BY <1>1, <1>3, <1>5, <1>6 DEF BufferOf
  <1> QED BY <1>1, <1>2, <1>4, <1>6, <1>7 DEF Consistent

\* What the kernel reads goes behind what is there.
LEMMA Received ==
  ASSUME NEW c \in Client, NEW k, NEW r, NEW n, Consistent(c, k, r, n),
         NEW m \in Nat \ {0}, n + m <= Len(Stream(c)), Len(r) + m <= ReadRegion
  PROVE  /\ Consistent(c, k, Overwrite(r, Len(r), SubSeq(Stream(c), n + 1, n + m)), n + m)
         /\ Len(Overwrite(r, Len(r), SubSeq(Stream(c), n + 1, n + m))) = Len(r) + m
  <1>1. /\ r \in Seq(Cell) /\ Len(r) \in Nat /\ n = ReqEnd(c, k) + Len(r) /\ n \in Nat /\ ReqEnd(c, k) \in Nat
        /\ Len(Stream(c)) \in Nat /\ Stream(c) \in Seq(Cell)
        /\ \A p \in 1 .. Len(r) : r[p] = Stream(c)[ReqEnd(c, k) + p]
    BY ConsistentTyped DEF Consistent, BufferOf
  <1>2. PICK u : u = SubSeq(Stream(c), n + 1, n + m)
    OBVIOUS
  <1>3. u \in Seq(Cell) /\ IsPart(u, Stream(c), n, n + m)
    <2>1. n + m \in n .. Len(Stream(c))
      BY <1>1
    <2> QED BY <1>1, <1>2, <2>1, PartOf
  <1>4. Len(u) = m /\ \A i \in 1 .. m : u[i] = Stream(c)[n + i]
    <2>1. (n + m) - n = m
      BY <1>1
    <2> QED BY <1>3, <2>1 DEF IsPart
  <1>5. PICK t : t = r \o u
    OBVIOUS
  <1>6. Overwrite(r, Len(r), SubSeq(Stream(c), n + 1, n + m)) = t
    BY <1>1, <1>2, <1>5, SubSeqFull DEF Overwrite
  <1>7. /\ t \in Seq(Cell) /\ Len(t) = Len(r) + m
        /\ \A i \in 1 .. Len(r) + m : t[i] = IF i <= Len(r) THEN r[i] ELSE u[i - Len(r)]
    BY <1>1, <1>3, <1>4, <1>5, ConcatProperties
  <1>8. ASSUME NEW i \in 1 .. Len(t) PROVE t[i] = Stream(c)[ReqEnd(c, k) + i]
    <2>1. i \in 1 .. Len(r) + m
      BY <1>7
    <2>2. CASE i <= Len(r)
      <3>1. i \in 1 .. Len(r)
        BY <2>1, <2>2
      <3>2. t[i] = r[i]
        BY <1>7, <2>1, <2>2
      <3> QED BY <1>1, <3>1, <3>2
    <2>3. CASE ~(i <= Len(r))
      <3>1. i - Len(r) \in 1 .. m /\ n + (i - Len(r)) = ReqEnd(c, k) + i
        BY <1>1, <2>1, <2>3
      <3>2. t[i] = u[i - Len(r)]
        BY <1>7, <2>1, <2>3
      <3> QED BY <1>4, <3>1, <3>2
    <2> QED BY <2>2, <2>3
  <1>9. ReqEnd(c, k) + Len(t) <= Len(Stream(c)) /\ Len(t) <= ReadRegion /\ n + m \in Nat
        /\ n + m = ReqEnd(c, k) + Len(t)
    BY <1>1, <1>7
  <1>10. Consistent(c, k, t, n + m)
    BY <1>7, <1>8, <1>9, ConsistentTyped DEF Consistent, BufferOf
  <1> QED BY <1>6, <1>7, <1>10

-------------------------------------------------------------------------------
\* What the kernel does to the operation of a connection.
LEMMA RecvKeeps ==
  ASSUME NEW cn, cn.state = "Reading", NEW op, IsOp(op), op.stage = "kernel",
         NEW c, NEW r, NEW w, NEW n, NEW g, NEW p, NEW owed,
         ConnOK(cn, <<op>>, r, w, c, n, g, p, owed),
         NEW m \in 1 .. op.len, n + m <= Len(Stream(c)),
         NEW mv, mv = [op EXCEPT !.stage = "cq", !.res = m]
  PROVE  ConnOK(cn, <<mv>>, Overwrite(r, op.off, SubSeq(Stream(c), n + 1, n + m)), w, c, n + m, g, p, owed)
  <1>1. PICK k : ConnAt(cn, <<op>>, r, w, c, n, g, p, owed, k)
    BY DEF ConnOK
  <1>2. Consistent(c, k, r, n) /\ ReadingOK(cn, op, r, w, c, k, g, p) /\ c \in Client
    BY <1>1 DEF ConnAt, ConnOK
  <1>3. /\ op.res = 0 /\ cn.read_filled = Len(r) /\ op.off = Len(r) /\ op.len = ReadRegion - Len(r)
        /\ Len(r) \in Nat /\ ReadRegion \in Nat
    BY <1>2, ConsistentTyped DEF ReadingOK, OpStage
  <1>4. m \in Nat \ {0} /\ Len(r) + m <= ReadRegion /\ m \in 0 .. op.len
    BY <1>3
  <1>5. PICK t : t = Overwrite(r, op.off, SubSeq(Stream(c), n + 1, n + m))
    OBVIOUS
  <1>6. Consistent(c, k, t, n + m) /\ Len(t) = Len(r) + m
    BY <1>2, <1>3, <1>4, <1>5, Received
  <1>7. mv.stage = "cq" /\ mv.res = m /\ mv.off = op.off /\ mv.len = op.len
    BY DEF IsOp
  <1>8. OpStage(mv, p)
    BY <1>4, <1>7 DEF OpStage
  <1>9. ReadingOK(cn, mv, t, w, c, k, g, p)
    BY <1>2, <1>3, <1>4, <1>6, <1>7, <1>8 DEF ReadingOK
  <1>10. ConnAt(cn, <<mv>>, t, w, c, n + m, g, p, owed, k)
    BY <1>1, <1>6, <1>9 DEF ConnAt
  <1> QED BY <1>5, <1>10 DEF ConnOK

\* The m cells sent after g, which make it h, belong to answers to requests that
\* were read to the end.
Answers(c, g, h, m, n) ==
  /\ \E k \in 0 .. NumReqs(c), rest \in Seq(Cell) : h \o rest = ReplyCells(c, k) /\ ReqEnd(c, k) <= n
  /\ Len(h) = Len(g) + m /\ h \in Seq(Cell)

\* The operation op, completed with result m, is mv.
CompletedAs(op, mv, m) == mv = [op EXCEPT !.stage = "cq", !.res = m]

\* A Send of m cells leaves its client, who had g, with h.
Leaves(op, w, g, p, m, h) == h = IF p = "hungup" THEN g ELSE g \o SubSeq(w, op.off + 1, op.off + m)

LEMMA SendKeeps ==
  ASSUME NEW cn, cn.state = "Writing", NEW op, IsOp(op), op.stage = "kernel",
         NEW c, NEW r, NEW w, NEW n, NEW g, NEW p, NEW owed,
         ConnOK(cn, <<op>>, r, w, c, n, g, p, owed),
         NEW m \in 1 .. op.len, NEW mv, CompletedAs(op, mv, m), NEW h, Leaves(op, w, g, p, m, h)
  PROVE  /\ ConnOK(cn, <<mv>>, r, w, c, n, h, p, owed)
         /\ p = "open" => Answers(c, g, h, m, n)
  <1>1. PICK k : ConnAt(cn, <<op>>, r, w, c, n, g, p, owed, k)
    BY DEF ConnOK
  <1>2. Consistent(c, k, r, n) /\ WritingOK(cn, op, r, w, c, k, g, p) /\ c \in Client /\ g \in Seq(Cell)
    BY <1>1 DEF ConnAt, ConnOK
  <1>3. PICK off : off = cn.write_offset
    OBVIOUS
  <1>4. /\ op.res = 0 /\ op.off = off /\ op.len = Len(w) - off /\ off \in Nat /\ w \in Seq(Cell)
        /\ Len(w) \in Nat /\ off < Len(w)
        /\ p = "open" => g \o SubSeq(w, off + op.res + 1, Len(w)) = ReplyCells(c, k)
    BY <1>2, <1>3, LenProperties DEF WritingOK, OpStage
  <1>5. m \in Nat \ {0} /\ m \in 0 .. op.len /\ off + m \in off .. Len(w) /\ off + m \in Nat
    BY <1>4
  <1>6. PICK new, rest : new = SubSeq(w, off + 1, off + m) /\ rest = SubSeq(w, off + m + 1, Len(w))
    OBVIOUS
  <1>7. new \in Seq(Cell) /\ Len(new) = m
    <2>1. new \in Seq(Cell) /\ IsPart(new, w, off, off + m)
      BY <1>4, <1>5, <1>6, PartOf
    <2> QED BY <1>4, <1>5, <2>1 DEF IsPart
  <1>8. rest \in Seq(Cell)
    <2>1. Len(w) \in off + m .. Len(w)
      BY <1>4, <1>5
    <2> QED BY <1>4, <1>5, <1>6, <2>1, PartOf
  <1>9. new \o rest = SubSeq(w, off + 1, Len(w))
    <2>1. off + 1 \in 1 .. Len(w) + 1 /\ off + m \in (off + 1) - 1 .. Len(w) /\ Len(w) \in off + m .. Len(w)
      BY <1>4, <1>5
    <2> QED BY <1>4, <1>6, <2>1, ConcatAdjacentSubSeq
  <1>10. h \in Seq(Cell)
    BY <1>2, <1>4, <1>6, <1>7, ConcatProperties DEF Leaves
  <1>11. ASSUME p = "open"
         PROVE  h = g \o new /\ h \o rest = ReplyCells(c, k) /\ Len(h) = Len(g) + m
    <2>1. h = g \o new
      BY <1>4, <1>6, <1>11 DEF Leaves
    <2>2. (g \o new) \o rest = g \o (new \o rest)
      BY <1>2, <1>7, <1>8, CellsAssociative
    <2>3. off + op.res + 1 = off + 1
      BY <1>4
    <2>4. g \o (new \o rest) = ReplyCells(c, k)
      BY <1>4, <1>9, <1>11, <2>3
    <2>5. Len(h) = Len(g) + m
      BY <1>2, <1>7, <2>1, ConcatProperties
    <2> QED BY <2>1, <2>2, <2>4, <2>5
  <1>12. mv.stage = "cq" /\ mv.res = m /\ mv.off = op.off /\ mv.len = op.len
    BY DEF IsOp, CompletedAs
  <1>13. OpStage(mv, p)
    BY <1>5, <1>12 DEF OpStage
  <1>14. WritingOK(cn, mv, r, w, c, k, h, p)
    <2>1. p = "open" => h \o SubSeq(w, cn.write_offset + mv.res + 1, Len(w)) = ReplyCells(c, k)
      BY <1>3, <1>6, <1>11, <1>12
    <2>2. mv.res \in 0 .. mv.len
      BY <1>5, <1>12
    <2> QED BY <1>2, <1>12, <1>13, <2>1, <2>2 DEF WritingOK
  <1>15. ConnAt(cn, <<mv>>, r, w, c, n, h, p, owed, k)
    BY <1>1, <1>14 DEF ConnAt
  <1>16. ReqEnd(c, k) <= n /\ k \in 0 .. NumReqs(c)
    BY <1>2, ConsistentTyped DEF Consistent
  <1>17. p = "open" => Answers(c, g, h, m, n)
    BY <1>8, <1>10, <1>11, <1>16 DEF Answers
  <1> QED BY <1>2, <1>10, <1>15, <1>17 DEF ConnOK

\* The operation moves on, failed (res = 0, a peer that is gone) or unchanged.
Advances(op, mv, p) ==
  \/ op.stage = "sq" /\ mv = [op EXCEPT !.stage = "kernel"]
  \/ op.stage = "cq" /\ mv = [op EXCEPT !.stage = "batch"]
  \/ op.stage = "kernel" /\ p # "open" /\ mv = [op EXCEPT !.stage = "cq", !.res = 0]
  \/ mv = op

LEMMA StageKeeps ==
  ASSUME NEW cn, NEW op, IsOp(op), NEW c, NEW r, NEW w, NEW n, NEW g, NEW p, NEW owed,
         ConnOK(cn, <<op>>, r, w, c, n, g, p, owed), NEW mv,
         Advances(op, mv, p)
  PROVE  ConnOK(cn, <<mv>>, r, w, c, n, g, p, owed)
  <1>1. PICK k : ConnAt(cn, <<op>>, r, w, c, n, g, p, owed, k)
    BY DEF ConnOK
  <1>2. mv.off = op.off /\ mv.len = op.len
    BY DEF IsOp, Advances
  <1>3. OpStage(op, p) => OpStage(mv, p) /\ mv.res = op.res
    BY DEF IsOp, OpStage, Advances
  <1>4. /\ ReadingOK(cn, op, r, w, c, k, g, p) => ReadingOK(cn, mv, r, w, c, k, g, p)
        /\ WritingOK(cn, op, r, w, c, k, g, p) => WritingOK(cn, mv, r, w, c, k, g, p)
    BY <1>2, <1>3 DEF ReadingOK, WritingOK
  <1>5. ConnAt(cn, <<mv>>, r, w, c, n, g, p, owed, k)
    BY <1>1, <1>4 DEF ConnAt
  <1> QED BY <1>5 DEF ConnOK

\* A client that hangs up is owed nothing more.
LEMMA HungUpKeeps ==
  ASSUME NEW cn, NEW ops, NEW c, NEW r, NEW w, NEW n, NEW g, NEW p, NEW owed,
         ConnOK(cn, ops, r, w, c, n, g, p, owed)
  PROVE  ConnOK(cn, ops, r, w, c, n, g, "hungup", owed)
  <1>1. PICK k : ConnAt(cn, ops, r, w, c, n, g, p, owed, k)
    BY DEF ConnOK
  <1>2. ConnAt(cn, ops, r, w, c, n, g, "hungup", owed, k)
    BY <1>1 DEF ConnAt, ReadingOK, WritingOK, ParkedOK, OpStage
  <1> QED BY <1>2 DEF ConnOK

-------------------------------------------------------------------------------
(***************************************************************************)
(* The handlers, one lemma per branch: whatever the branch does, either    *)
(* the account still balances or the connection is closed for a reason its *)
(* client can see (Refused).                                               *)
(***************************************************************************)
\* The connection at the head of process_buffered: nothing left to send.
Ready(cn, r, c, k, n, g, p) ==
  /\ IsConn(cn) /\ cn.state = "Reading" /\ cn.write_filled = 0 /\ cn.write_offset = 0
  /\ ~cn.close_after_drain /\ ~cn.parked_close_after
  /\ cn.read_filled = Len(r) /\ Consistent(c, k, r, n)
  /\ c \in Client /\ g \in Seq(Cell) /\ (p = "open" => g = ReplyCells(c, k))

\* Why client c, which has g, may be hung up on.
Refused(c, g) ==
  \E k \in 0 .. NumReqs(c) :
    /\ g = ReplyCells(c, k)
    /\ \/ Ends(c, k)
       \/ /\ k < NumReqs(c)
          /\ Script[c][k + 1].len > ReadRegion \/ RespLen(Script[c][k + 1]) > WriteRegion

LEMMA RecvReady ==
  ASSUME NEW cn, IsConn(cn), cn.state = "Reading", NEW op,
         NEW c, NEW r, NEW w, NEW n, NEW g, NEW p, NEW owed,
         ConnOK(cn, <<op>>, r, w, c, n, g, p, owed),
         NEW rd, rd = [cn EXCEPT !.read_filled = @ + op.res]
  PROVE  \E k : Ready(rd, r, c, k, n, g, p)
  <1>1. PICK k : ConnAt(cn, <<op>>, r, w, c, n, g, p, owed, k)
    BY DEF ConnOK
  <1>2. Consistent(c, k, r, n) /\ ReadingOK(cn, op, r, w, c, k, g, p)
    BY <1>1 DEF ConnAt
  <1>3. /\ IsConn(rd) /\ rd.state = "Reading" /\ rd.read_filled = cn.read_filled + op.res
        /\ rd.write_filled = cn.write_filled /\ rd.write_offset = cn.write_offset
        /\ rd.close_after_drain = cn.close_after_drain /\ rd.parked_close_after = cn.parked_close_after
    BY DEF IsConn
  <1>4. rd.read_filled = Len(r)
    BY <1>2, <1>3 DEF ReadingOK
  <1> QED BY <1>2, <1>3, <1>4 DEF Ready, ReadingOK, ConnOK

\* A Send completed: wr is the connection then, nx the one that reads again.
AfterSend(wr, nx, r, w, c, n, g, p) ==
  /\ wr.write_offset < wr.write_filled => ConnOK(wr, <<SubmitWrite(wr)>>, r, w, c, n, g, p, {})
  /\ wr.write_offset >= wr.write_filled /\ wr.close_after_drain /\ p = "open" => Refused(c, g)
  /\ wr.write_offset >= wr.write_filled /\ ~wr.close_after_drain =>
       \E k : Ready(nx, r, c, k, n, g, p)
  /\ wr.read_filled = Len(r) /\ Len(r) \in Nat

LEMMA SentOutcome ==
  ASSUME NEW cn, IsConn(cn), cn.state = "Writing", NEW op,
         NEW c, NEW r, NEW w, NEW n, NEW g, NEW p, NEW owed,
         ConnOK(cn, <<op>>, r, w, c, n, g, p, owed),
         NEW wr, wr = [cn EXCEPT !.write_offset = @ + op.res],
         NEW nx, nx = [wr EXCEPT !.write_filled = 0, !.write_offset = 0, !.state = "Reading"]
  PROVE  AfterSend(wr, nx, r, w, c, n, g, p)
  <1>1. PICK k : ConnAt(cn, <<op>>, r, w, c, n, g, p, owed, k)
    BY DEF ConnOK
  <1>2. Consistent(c, k, r, n) /\ WritingOK(cn, op, r, w, c, k, g, p) /\ c \in Client /\ g \in Seq(Cell)
    BY <1>1 DEF ConnAt, ConnOK
  <1>3. /\ wr.state = "Writing" /\ wr.write_offset = cn.write_offset + op.res
        /\ wr.write_filled = cn.write_filled /\ wr.read_filled = cn.read_filled
        /\ wr.close_after_drain = cn.close_after_drain /\ wr.parked_close_after = cn.parked_close_after
    BY DEF IsConn
  <1>4. IsConn(nx) /\ nx.state = "Reading" /\ nx.write_offset = 0 /\ nx.write_filled = 0
        /\ nx.read_filled = cn.read_filled /\ nx.close_after_drain = cn.close_after_drain
        /\ nx.parked_close_after = cn.parked_close_after
    BY DEF IsConn, States
  <1>5. PICK off : off = cn.write_offset + op.res
    OBVIOUS
  <1>6. /\ w \in Seq(Cell) /\ Len(w) \in Nat /\ cn.write_filled = Len(w) /\ off \in 0 .. Len(w)
        /\ cn.read_filled = Len(r)
        /\ p = "open" => g \o SubSeq(w, off + 1, Len(w)) = ReplyCells(c, k)
    <2>1. /\ w \in Seq(Cell) /\ cn.write_filled = Len(w) /\ cn.write_offset \in Nat
          /\ op.len = Len(w) - cn.write_offset /\ op.res \in 0 .. op.len /\ cn.read_filled = Len(r)
          /\ p = "open" => g \o SubSeq(w, cn.write_offset + op.res + 1, Len(w)) = ReplyCells(c, k)
      BY <1>2 DEF WritingOK
    <2>2. Len(w) \in Nat
      BY <2>1, LenProperties
    <2>3. off \in 0 .. Len(w)
      BY <1>5, <2>1, <2>2
    <2> QED BY <1>5, <2>1, <2>2, <2>3
  <1>7. ASSUME wr.write_offset < wr.write_filled
        PROVE  ConnOK(wr, <<SubmitWrite(wr)>>, r, w, c, n, g, p, {})
    <2>1. PICK nw : nw = SubmitWrite(wr)
      OBVIOUS
    <2>2. nw.stage = "sq" /\ nw.res = 0 /\ nw.off = off /\ nw.len = Len(w) - off
      BY <1>3, <1>5, <1>6, <2>1 DEF SubmitWrite
    <2>3. OpStage(nw, p)
      BY <2>2 DEF OpStage
    <2>4. nw.res \in 0 .. nw.len /\ off \in Nat /\ off < Len(w) /\ off + nw.res + 1 = off + 1
      BY <1>3, <1>5, <1>6, <1>7, <2>2
    <2>5. Len(w) <= WriteRegion /\ (wr.close_after_drain => Ends(c, k))
      BY <1>2, <1>3 DEF WritingOK
    <2>6. WritingOK(wr, nw, r, w, c, k, g, p)
      BY <1>3, <1>5, <1>6, <2>2, <2>3, <2>4, <2>5 DEF WritingOK
    <2>7. ConnAt(wr, <<nw>>, r, w, c, n, g, p, {}, k)
      BY <1>2, <1>3, <2>6 DEF ConnAt
    <2> QED BY <1>2, <1>3, <2>1, <2>7 DEF ConnOK
  <1>8. ASSUME wr.write_offset >= wr.write_filled PROVE p = "open" => g = ReplyCells(c, k)
    <2>1. off = Len(w)
      BY <1>3, <1>5, <1>6, <1>8
    <2>2. SubSeq(w, off + 1, Len(w)) = <<>>
      <3>1. off + 1 \in Int /\ Len(w) \in Int /\ Len(w) < off + 1
        BY <1>6, <2>1
      <3> QED BY <3>1, SubSeqEmpty
    <2>3. g \o <<>> = g
      BY <1>2, ConcatEmptySeq
    <2> QED BY <1>6, <2>2, <2>3
  <1>9. ASSUME wr.write_offset >= wr.write_filled, wr.close_after_drain, p = "open"
        PROVE  Refused(c, g)
    <2>1. Ends(c, k)
      BY <1>2, <1>3, <1>9 DEF WritingOK
    <2>2. k \in 0 .. NumReqs(c)
      BY <1>2, ConsistentTyped
    <2> QED BY <1>8, <1>9, <2>1, <2>2 DEF Refused
  <1>10. ASSUME wr.write_offset >= wr.write_filled, ~wr.close_after_drain
         PROVE  Ready(nx, r, c, k, n, g, p)
    <2>1. ~nx.parked_close_after /\ ~nx.close_after_drain
      BY <1>3, <1>4, <1>10 DEF ConnOK
    <2> QED BY <1>2, <1>4, <1>6, <1>8, <1>10, <2>1 DEF Ready
  <1>11. Len(r) \in Nat
    BY <1>2, ConsistentTyped
  <1> QED BY <1>3, <1>6, <1>7, <1>9, <1>10, <1>11 DEF AfterSend

LEMMA ReadMoreKeeps ==
  ASSUME NEW cn, NEW r, NEW c, NEW k, NEW n, NEW g, NEW p, Ready(cn, r, c, k, n, g, p),
         Len(r) # ReadRegion
  PROVE  ConnOK(cn, <<SubmitRead(cn)>>, r, <<>>, c, n, g, p, {})
  <1>1. PICK op : op = SubmitRead(cn)
    OBVIOUS
  <1>2. Len(r) \in Nat /\ ReadRegion \in Nat /\ Len(r) <= ReadRegion /\ cn.read_filled = Len(r)
    BY ConsistentTyped DEF Ready, Consistent
  <1>3. op.stage = "sq" /\ op.res = 0 /\ op.off = Len(r) /\ op.len = ReadRegion - Len(r)
    BY <1>1, <1>2 DEF SubmitRead
  <1>4. OpStage(op, p)
    BY <1>3 DEF OpStage
  <1>5. op.res \in 0 .. op.len /\ Len(r) < ReadRegion /\ Len(r) = Len(r) + op.res
    BY <1>2, <1>3
  <1>6. ReadingOK(cn, op, r, <<>>, c, k, g, p)
    BY <1>2, <1>3, <1>4, <1>5 DEF ReadingOK, Ready
  <1>7. ConnAt(cn, <<op>>, r, <<>>, c, n, g, p, {}, k)
    BY <1>6 DEF ConnAt, Ready
  <1> QED BY <1>1, <1>7 DEF ConnOK, Ready

\* The buffer is full and no request in it is complete.
LEMMA TooLarge ==
  ASSUME NEW cn, NEW r, NEW c, NEW k, NEW n, NEW g, NEW p, Ready(cn, r, c, k, n, g, p),
         EndsAre(c, k, <<>>, Len(r)), Len(r) = ReadRegion, p = "open"
  PROVE  Refused(c, g)
  <1>1. /\ k \in 0 .. NumReqs(c) /\ NumReqs(c) \in Nat /\ ReqEnd(c, k) \in Nat /\ Len(r) \in Nat
        /\ Consistent(c, k, r, n) /\ c \in Client /\ g = ReplyCells(c, k) /\ MaxPipeline # 0
        /\ ReadRegion \in Nat \ {0}
    BY ConsistentTyped, PipelineAssumption DEF Ready
  <1>2. Len(<<>>) = 0 /\ k + 0 = k
    BY <1>1
  <1>3. k = NumReqs(c) \/ ReqEnd(c, k) + Len(r) < ReqEnd(c, k + 0 + 1)
    BY <1>1, <1>2 DEF EndsAre
  <1>4. k # NumReqs(c)
    <2>1. CASE k = NumReqs(c)
      <3>1. Len(Stream(c)) = ReqEnd(c, k)
        BY <1>1, <2>1, RequestSteps DEF ReqEnd
      <3>2. ReqEnd(c, k) + Len(r) <= Len(Stream(c))
        BY <1>1 DEF Consistent, BufferOf
      <3> QED BY <1>1, <3>1, <3>2
    <2> QED BY <2>1
  <1>5. k + 1 \in 1 .. NumReqs(c) /\ (k + 1) - 1 = k /\ k + 0 + 1 = k + 1 /\ k < NumReqs(c)
    BY <1>1, <1>4
  <1>6. ReqEnd(c, k + 1) = ReqEnd(c, k) + Script[c][k + 1].len /\ Script[c][k + 1].len \in Nat
    BY <1>1, <1>5, RequestSteps, ScriptTyped
  <1>7. Script[c][k + 1].len > ReadRegion
    BY <1>1, <1>3, <1>4, <1>5, <1>6
  <1> QED BY <1>1, <1>5, <1>7 DEF Refused

\* Requests are at hand: what process_buffered knows of them.
HeadOf(cn, r, c, k, n, s, m) ==
  /\ ReqsAre(c, k, Parsed(r, s)) /\ Len(Parsed(r, s)) = Len(s)
  /\ k \in 0 .. NumReqs(c) /\ NumReqs(c) \in Nat /\ k + m \in 1 .. NumReqs(c)
  /\ Req(Parsed(r, s)[m]) = Script[c][k + m]
  /\ Parsed(r, s)[m].c = c /\ Parsed(r, s)[m].k = k + m
  /\ Consistent(c, k + m, SubSeq(r, s[m] + 1, cn.read_filled), n)
  /\ Len(SubSeq(r, s[m] + 1, cn.read_filled)) = cn.read_filled - s[m]

LEMMA AtHand ==
  ASSUME NEW cn, NEW r, NEW c, NEW k, NEW n, NEW g, NEW p, Ready(cn, r, c, k, n, g, p),
         NEW s, EndsAre(c, k, s, Len(r)), NEW m \in 1 .. Len(s)
  PROVE  HeadOf(cn, r, c, k, n, s, m)
  <1>1. /\ k \in 0 .. NumReqs(c) /\ NumReqs(c) \in Nat /\ BufferOf(c, k, r) /\ Consistent(c, k, r, n)
        /\ c \in Client /\ cn.read_filled = Len(r)
    BY ConsistentTyped DEF Ready, Consistent
  <1>2. ReqsAre(c, k, Parsed(r, s)) /\ Len(Parsed(r, s)) = Len(s)
    BY <1>1, ParsedSound
  <1>3. s[m] \in 1 .. Len(r) /\ ReqEnd(c, k) + s[m] = ReqEnd(c, k + m) /\ k + Len(s) <= NumReqs(c)
        /\ Len(s) \in Nat
    <2>1. s \in Seq(1 .. Len(r)) /\ Len(s) \in Nat
      BY LenProperties DEF EndsAre
    <2>2. s[m] \in 1 .. Len(r)
      BY <2>1, LenProperties
    <2> QED BY <2>1, <2>2 DEF EndsAre
  <1>4. k + m \in 1 .. NumReqs(c) /\ k + m \in 0 .. NumReqs(c)
    BY <1>1, <1>3
  <1>5. Parsed(r, s)[m].c = c /\ Parsed(r, s)[m].k = k + m
    BY <1>2 DEF ReqsAre
  <1>6. /\ Consistent(c, k + m, SubSeq(r, s[m] + 1, Len(r)), n)
        /\ Len(SubSeq(r, s[m] + 1, Len(r))) = Len(r) - s[m]
    BY <1>1, <1>3, <1>4, Consumed
  <1> QED BY <1>1, <1>2, <1>4, <1>5, <1>6 DEF Req, HeadOf

-------------------------------------------------------------------------------
\* The head of the pipeline is asynchronous: the connection parks.
LEMMA ParkKeeps ==
  ASSUME NEW cn, NEW r, NEW c, NEW k, NEW n, NEW g, NEW p, Ready(cn, r, c, k, n, g, p),
         NEW s, EndsAre(c, k, s, Len(r)), s # <<>>,
         NEW req, req = Parsed(r, s)[1], Req(req).kind = "async", HasRegistry,
         NEW nx, nx = [cn EXCEPT !.read_filled = @ - s[1], !.state = "AwaitingAsync",
                                 !.parked_close_after = CloseOf(Req(req))]
  PROVE  /\ ConnOK(nx, <<>>, SubSeq(r, s[1] + 1, cn.read_filled), <<>>, c, n, g, p, {req})
         /\ IsConn(nx) /\ SameOwner(nx, cn) /\ nx.state = "AwaitingAsync"
  <1>1. 1 \in 1 .. Len(s)
    BY LenProperties, EmptySeq DEF EndsAre
  <1>2. PICK t : t = SubSeq(r, s[1] + 1, cn.read_filled)
    OBVIOUS
  <1>3. /\ k \in 0 .. NumReqs(c) /\ k + 1 \in 1 .. NumReqs(c)
        /\ Req(req) = Script[c][k + 1] /\ req.c = c /\ req.k = k + 1
        /\ Consistent(c, k + 1, t, n) /\ Len(t) = cn.read_filled - s[1]
    <2>1. HeadOf(cn, r, c, k, n, s, 1)
      BY <1>1, AtHand
    <2> QED BY <1>2, <2>1 DEF HeadOf
  <1>4. ~CloseOf(Req(req))
    BY DEF CloseOf
  <1>5. /\ IsConn(nx) /\ SameOwner(nx, cn) /\ nx.state = "AwaitingAsync"
        /\ nx.read_filled = cn.read_filled - s[1] /\ nx.write_filled = cn.write_filled
        /\ nx.write_offset = cn.write_offset /\ nx.close_after_drain = cn.close_after_drain
        /\ nx.parked_close_after = CloseOf(Req(req))
    BY DEF Ready, IsConn, SameOwner, States
  <1>6. (k + 1) - 1 = k /\ k + 1 > 0
    BY <1>3
  <1>7. p = "open" => g = ReplyCells(c, (k + 1) - 1)
    BY <1>6 DEF Ready
  <1>8. Script[c][k + 1].kind = "async"
    BY <1>3
  <1>9. ParkedOK(nx, t, <<>>, c, k + 1, g, p)
    BY <1>3, <1>5, <1>6, <1>7, <1>8 DEF ParkedOK, Ready
  <1>10. ConnAt(nx, <<>>, t, <<>>, c, n, g, p, {req}, k + 1)
    BY <1>3, <1>5, <1>9 DEF ConnAt
  <1>11. ~nx.parked_close_after
    BY <1>4, <1>5
  <1> QED BY <1>2, <1>5, <1>10, <1>11 DEF ConnOK, Ready

\* The responses to the first m requests at hand fit and are written.
Fits(cn, r, c, k, n, g, p, s, m, closing, cells) ==
  /\ Ready(cn, r, c, k, n, g, p) /\ EndsAre(c, k, s, Len(r)) /\ m \in 1 .. Len(s)
  /\ cells = Responses(Parsed(r, s), m) /\ Len(cells) <= WriteRegion
  /\ closing => Ends(c, k + m)

Answering(cn, r, w, c, n, g, p, s, m, cells, nx) ==
  /\ ConnOK(nx, <<SubmitWrite(nx)>>, SubSeq(r, s[m] + 1, cn.read_filled),
            Overwrite(w, cn.write_filled, cells), c, n, g, p, {})
  /\ IsConn(nx) /\ SameOwner(nx, cn) /\ nx.state = "Writing"

LEMMA WriteKeeps ==
  ASSUME NEW cn, NEW r, NEW c, NEW k, NEW n, NEW g, NEW p, NEW s, NEW m, NEW closing, NEW cells,
         Fits(cn, r, c, k, n, g, p, s, m, closing, cells), NEW w,
         NEW nx, nx = [cn EXCEPT !.read_filled = @ - s[m], !.write_filled = @ + Len(cells),
                                 !.close_after_drain = closing, !.state = "Writing"]
  PROVE  Answering(cn, r, w, c, n, g, p, s, m, cells, nx)
  <1>0. /\ Ready(cn, r, c, k, n, g, p) /\ EndsAre(c, k, s, Len(r)) /\ m \in 1 .. Len(s)
        /\ cells = Responses(Parsed(r, s), m) /\ Len(cells) <= WriteRegion
        /\ closing => Ends(c, k + m)
    BY DEF Fits
  <1>1. PICK t : t = SubSeq(r, s[m] + 1, cn.read_filled)
    OBVIOUS
  <1>2. /\ k \in 0 .. NumReqs(c) /\ NumReqs(c) \in Nat /\ k + m \in 1 .. NumReqs(c)
        /\ ReqsAre(c, k, Parsed(r, s)) /\ Len(Parsed(r, s)) = Len(s)
        /\ Consistent(c, k + m, t, n) /\ Len(t) = cn.read_filled - s[m]
    <2>1. HeadOf(cn, r, c, k, n, s, m)
      BY <1>0, AtHand
    <2> QED BY <1>1, <2>1 DEF HeadOf
  <1>3. c \in Client /\ g \in Seq(Cell) /\ (p = "open" => g = ReplyCells(c, k))
        /\ cn.write_filled = 0 /\ cn.write_offset = 0
    BY <1>0 DEF Ready
  <1>4. m \in 0 .. Len(Parsed(r, s)) /\ m \in Nat \ {0}
    BY <1>0, <1>2
  <1>5. /\ cells \in Seq(Cell) /\ ReplyCells(c, k + m) = ReplyCells(c, k) \o cells
        /\ Len(cells) = RepEnd(c, k + m) - RepEnd(c, k)
    <2>1. PICK reqs : reqs = Parsed(r, s)
      OBVIOUS
    <2>2. k \in 0 .. NumReqs(c) /\ ReqsAre(c, k, reqs) /\ m \in 0 .. Len(reqs) /\ cells = Responses(reqs, m)
      BY <1>0, <1>2, <1>4, <2>1
    <2>3. Follow(c, k, reqs, m)
      BY <1>3, <2>2, ResponsesSound
    <2> QED BY <2>2, <2>3 DEF Follow
  <1>6. Len(cells) \in Nat \ {0}
    <2>1. k + m \in k .. NumReqs(c) /\ k < k + m /\ k + m \in 0 .. NumReqs(c)
      BY <1>2, <1>4
    <2>2. RepEnd(c, k) < RepEnd(c, k + m)
      BY <1>2, <1>3, <2>1, EndsGrow
    <2>3. RepEnd(c, k) \in Nat /\ RepEnd(c, k + m) \in Nat
      BY <1>2, <1>3, <2>1, ReplySteps
    <2> QED BY <1>5, <2>2, <2>3
  <1>7. Overwrite(w, cn.write_filled, cells) = cells
    <2>1. SubSeq(w, 1, 0) = <<>>
      BY SubSeqEmpty
    <2>2. <<>> \o cells = cells
      BY <1>5, ConcatEmptySeq
    <2> QED BY <1>3, <2>1, <2>2 DEF Overwrite
  <1>8. /\ IsConn(nx) /\ SameOwner(nx, cn) /\ nx.state = "Writing"
        /\ nx.read_filled = cn.read_filled - s[m] /\ nx.write_filled = cn.write_filled + Len(cells)
        /\ nx.write_offset = cn.write_offset /\ nx.close_after_drain = closing
        /\ nx.parked_close_after = cn.parked_close_after
    BY <1>0 DEF Ready, IsConn, SameOwner, States
  <1>9. nx.write_filled = Len(cells) /\ nx.write_offset = 0 /\ nx.read_filled = Len(t)
    BY <1>2, <1>3, <1>6, <1>8
  <1>10. PICK op : op = SubmitWrite(nx)
    OBVIOUS
  <1>11. op.stage = "sq" /\ op.res = 0 /\ op.off = 0 /\ op.len = Len(cells)
    BY <1>6, <1>9, <1>10 DEF SubmitWrite
  <1>12. OpStage(op, p) /\ op.res \in 0 .. op.len /\ op.len = Len(cells) - 0
    BY <1>6, <1>11 DEF OpStage
  <1>13. p = "open" => g \o SubSeq(cells, nx.write_offset + op.res + 1, Len(cells)) = ReplyCells(c, k + m)
    <2>1. SubSeq(cells, 1, Len(cells)) = cells
      BY <1>5, SubSeqFull
    <2>2. nx.write_offset + op.res + 1 = 1
      BY <1>9, <1>11
    <2> QED BY <1>3, <1>5, <2>1, <2>2
  <1>14. WritingOK(nx, op, t, cells, c, k + m, g, p)
    <2>1. 0 \in Nat /\ 0 < Len(cells)
      BY <1>6
    <2> QED BY <1>0, <1>5, <1>8, <1>9, <1>11, <1>12, <1>13, <2>1 DEF WritingOK
  <1>15. ConnAt(nx, <<op>>, t, cells, c, n, g, p, {}, k + m)
    BY <1>2, <1>8, <1>14 DEF ConnAt
  <1>16. ~nx.parked_close_after
    BY <1>0, <1>8 DEF Ready
  <1> QED BY <1>1, <1>3, <1>7, <1>8, <1>10, <1>15, <1>16 DEF ConnOK, Answering

\* A response has arrived for a parked connection.
\* The response cells is delivered to the parked connection cn, which becomes nx.
Resumed(cn, nx, r, cells, c, n, g, p) ==
  /\ Len(cells) <= WriteRegion => ConnOK(nx, <<SubmitWrite(nx)>>, r, cells, c, n, g, p, {})
  /\ ~(Len(cells) <= WriteRegion) /\ p = "open" => Refused(c, g)
  /\ IsConn(nx) /\ SameOwner(nx, cn) /\ nx.state = "Writing" /\ Len(cells) \in Nat

LEMMA DeliverKeeps ==
  ASSUME NEW cn, IsConn(cn), cn.state = "AwaitingAsync", NEW ops,
         NEW c, NEW r, NEW w, NEW n, NEW g, NEW p, NEW owed,
         ConnOK(cn, ops, r, w, c, n, g, p, owed), NEW req \in owed,
         NEW cells, cells = Response(req),
         NEW nx, nx = [cn EXCEPT !.write_filled = Len(cells), !.write_offset = 0,
                                 !.close_after_drain = cn.parked_close_after, !.state = "Writing"]
  PROVE  Resumed(cn, nx, r, cells, c, n, g, p)
  <1>1. PICK k : ConnAt(cn, ops, r, w, c, n, g, p, owed, k)
    BY DEF ConnOK
  <1>2. /\ Consistent(c, k, r, n) /\ ParkedOK(cn, r, w, c, k, g, p) /\ req.c = c /\ req.k = k
        /\ c \in Client /\ g \in Seq(Cell) /\ ~cn.parked_close_after
    BY <1>1 DEF ConnAt, ConnOK
  <1>3. /\ k \in 1 .. NumReqs(c) /\ k - 1 \in 0 .. NumReqs(c) /\ k \in Nat \ {0} /\ NumReqs(c) \in Nat
        /\ k \in 0 .. NumReqs(c)
    <2>1. k \in 0 .. NumReqs(c) /\ NumReqs(c) \in Nat /\ k > 0
      BY <1>2, ConsistentTyped DEF ParkedOK
    <2> QED BY <2>1
  <1>4. PICK len : len = RespLen(Script[c][k])
    OBVIOUS
  <1>5. len \in Nat \ {0}
    BY <1>2, <1>3, <1>4, ScriptTyped
  <1>6. cells \in Seq(Cell) /\ Len(cells) = len
    <2>1. cells = Pieces(c, k, len)
      BY <1>2, <1>4 DEF Response, Req
    <2>2. ArePieces(Pieces(c, k, len), c, k, len)
      BY <1>2, <1>3, <1>5, PiecesTyped
    <2> QED BY <2>1, <2>2 DEF ArePieces
  <1>7. ReplyCells(c, k) = ReplyCells(c, k - 1) \o cells
    <2>1. PICK ls : ls = Resps(c)
      OBVIOUS
    <2>2. ls \in Seq(Nat \ {0}) /\ Len(ls) = NumReqs(c) /\ ls[k] = len
      BY <1>2, <1>3, <1>4, <2>1, ScriptTyped DEF Resps, NumReqs
    <2>3. ReplyCells(c, k) = Cells(c, ls, k) /\ ReplyCells(c, k - 1) = Cells(c, ls, k - 1)
      BY <1>2, <1>3, <2>1, CellsOf
    <2>4. Cells(c, ls, k) = Cells(c, ls, k - 1) \o Pieces(c, k, ls[k])
      BY <1>2, <1>3, <2>2, LaidStep
    <2>5. cells = Pieces(c, k, len)
      BY <1>2, <1>4 DEF Response, Req
    <2> QED BY <2>2, <2>3, <2>4, <2>5
  <1>8. /\ IsConn(nx) /\ SameOwner(nx, cn) /\ nx.state = "Writing"
        /\ nx.read_filled = cn.read_filled /\ nx.write_filled = Len(cells)
        /\ nx.write_offset = 0 /\ nx.close_after_drain = cn.parked_close_after
        /\ nx.parked_close_after = cn.parked_close_after
    BY DEF IsConn, SameOwner, States
  <1>9. ASSUME Len(cells) <= WriteRegion
        PROVE  ConnOK(nx, <<SubmitWrite(nx)>>, r, cells, c, n, g, p, {})
    <2>1. PICK op : op = SubmitWrite(nx)
      OBVIOUS
    <2>2. op.stage = "sq" /\ op.res = 0 /\ op.off = 0 /\ op.len = Len(cells)
      BY <1>5, <1>6, <1>8, <2>1 DEF SubmitWrite
    <2>3. OpStage(op, p) /\ op.res \in 0 .. op.len /\ op.len = Len(cells) - 0
      BY <1>5, <1>6, <2>2 DEF OpStage
    <2>4. p = "open" => g \o SubSeq(cells, nx.write_offset + op.res + 1, Len(cells)) = ReplyCells(c, k)
      <3>1. SubSeq(cells, 1, Len(cells)) = cells
        BY <1>6, SubSeqFull
      <3>2. nx.write_offset + op.res + 1 = 1
        BY <1>8, <2>2
      <3>3. p = "open" => g = ReplyCells(c, k - 1)
        BY <1>2 DEF ParkedOK
      <3> QED BY <1>7, <3>1, <3>2, <3>3
    <2>5. nx.read_filled = Len(r) /\ ~nx.close_after_drain /\ ~nx.parked_close_after
      BY <1>2, <1>8 DEF ParkedOK
    <2>6. 0 \in Nat /\ 0 < Len(cells)
      BY <1>5, <1>6
    <2>7. WritingOK(nx, op, r, cells, c, k, g, p)
      BY <1>6, <1>8, <1>9, <2>2, <2>3, <2>4, <2>5, <2>6 DEF WritingOK
    <2>8. ConnAt(nx, <<op>>, r, cells, c, n, g, p, {}, k)
      BY <1>2, <1>8, <2>7 DEF ConnAt
    <2> QED BY <1>2, <2>1, <2>5, <2>8 DEF ConnOK
  <1>10. ASSUME ~(Len(cells) <= WriteRegion), p = "open" PROVE Refused(c, g)
    <2>1. (k - 1) + 1 = k /\ k - 1 < NumReqs(c)
      BY <1>3
    <2>2. RespLen(Script[c][(k - 1) + 1]) > WriteRegion
      BY <1>4, <1>5, <1>6, <1>10, <2>1, PipelineAssumption
    <2>3. g = ReplyCells(c, k - 1)
      BY <1>2, <1>10 DEF ParkedOK
    <2> QED BY <1>3, <2>1, <2>2, <2>3 DEF Refused
  <1> QED BY <1>8, <1>9, <1>10 DEF Resumed

-------------------------------------------------------------------------------
(***************************************************************************)
(* A step of the worker for one connection, with the bytes: it Keeps the   *)
(* account, or it Closes the connection (accept.rs:152-158).               *)
(***************************************************************************)
\* The client behind connection i, and the requests its response is awaited for.
ClientOf(i) == fds[conns[i].fd]

Owed(i) ==
  {t.req : t \in {u \in Running : u.slot_id = i}}
  \cup {Undelivered[p].req : p \in {q \in DOMAIN Undelivered : Undelivered[q].slot_id = i}}

\* In a connection of client c.
Holds(cn, ops, r, w, c, owed) == ConnOK(cn, ops, r, w, c, nread[c], got[c], peer[c], owed)

AccountAt(i) ==
  Holds(conns[i], ring[i], rmem[conns[i].slot], wmem[conns[i].slot], ClientOf(i), Owed(i))

Spawned(i, owed) == {[slot_id |-> i, req |-> e, pc |-> "run"] : e \in owed}

\* What handling a completion of connection i comes to, with the bytes.
Keeps(i) ==
  /\ \E cn, ops, r, w, owed :
       /\ IsConn(cn) /\ SameOwner(cn, conns[i])
       /\ conns' = [conns EXCEPT ![i] = cn] /\ ring' = [ring EXCEPT ![i] = ops]
       /\ rmem' = [rmem EXCEPT ![cn.slot] = r] /\ wmem' = [wmem EXCEPT ![cn.slot] = w]
       /\ Holds(cn, ops, r, w, ClientOf(i), owed)
       /\ tasks' = tasks \cup Spawned(i, owed)
  /\ UNCHANGED <<vacant, free, acceptCqe, queue, drained, net>>

Closes(i) ==
  /\ Freed(i) /\ ring' = [ring EXCEPT ![i] = <<>>]
  /\ peer[ClientOf(i)] = "open" => Refused(ClientOf(i), got[ClientOf(i)])
  /\ UNCHANGED <<acceptCqe, tasks, queue, drained>>

MemoryTyped == rmem = [s \in Slot |-> rmem[s]] /\ wmem = [s \in Slot |-> wmem[s]]

LEMMA KeepsAlive ==
  ASSUME NEW i, NEW x, ring[i] = <<x>>, NEW cn, IsConn(cn), SameOwner(cn, conns[i]),
         NEW ops, ops = <<>> \/ \E op : ops = <<op>>, Alive(i, 1, cn, ops),
         NEW r, NEW w, NEW owed,
         rmem' = [rmem EXCEPT ![cn.slot] = r], wmem' = [wmem EXCEPT ![cn.slot] = w],
         Holds(cn, ops, r, w, ClientOf(i), owed),
         tasks' = tasks \cup Spawned(i, owed)
  PROVE  Keeps(i)
  <1>1. RemoveAt(<<x>>, 1) \o ops = ops
    BY Replaced
  <1>2. conns' = [conns EXCEPT ![i] = cn] /\ ring' = [ring EXCEPT ![i] = ops]
    BY <1>1 DEF Alive
  <1>3. UNCHANGED <<vacant, free, acceptCqe, queue, drained, net>>
    BY DEF Alive
  <1> QED BY <1>2, <1>3, Zenon DEF Keeps

LEMMA ClosesRemoved ==
  ASSUME NEW i, NEW x, ring[i] = <<x>>, Removed(i, 1),
         peer[ClientOf(i)] = "open" => Refused(ClientOf(i), got[ClientOf(i)])
  PROVE  Closes(i)
  BY Replaced DEF Removed, Closes, bridge

LEMMA ReadMoreResult ==
  ASSUME MemoryTyped, NEW i, NEW x, ring[i] = <<x>>, NEW cn, SameOwner(cn, conns[i]), NEW k,
         NEW c, c = ClientOf(i),
         Ready(cn, rmem[cn.slot], c, k, nread[c], got[c], peer[c]),
         Len(rmem[cn.slot]) # ReadRegion, ReadMore(i, 1, cn)
  PROVE  Keeps(i)
  <1>1. PICK op, r : op = SubmitRead(cn) /\ r = rmem[cn.slot]
    OBVIOUS
  <1>2. Alive(i, 1, cn, <<op>>) /\ wmem' = [wmem EXCEPT ![cn.slot] = <<>>] /\ rmem' = rmem /\ tasks' = tasks
    BY <1>1 DEF ReadMore, Idle
  <1>3. rmem' = [rmem EXCEPT ![cn.slot] = r]
    BY <1>1, <1>2 DEF MemoryTyped
  <1>4. Holds(cn, <<op>>, r, <<>>, c, {})
    BY <1>1, ReadMoreKeeps DEF Holds
  <1>5. tasks' = tasks \cup Spawned(i, {})
    BY <1>2 DEF Spawned
  <1>6. IsConn(cn)
    BY DEF Ready
  <1> QED BY <1>2, <1>3, <1>4, <1>5, <1>6, KeepsAlive

LEMMA WriteResult ==
  ASSUME NEW i, NEW x, ring[i] = <<x>>, NEW cn, SameOwner(cn, conns[i]), NEW k,
         NEW c, c = ClientOf(i), NEW s, NEW m, NEW closing, NEW cells,
         Fits(cn, rmem[cn.slot], c, k, nread[c], got[c], peer[c], s, m, closing, cells),
         WriteReplies(i, 1, cn, s[m], cells, closing)
  PROVE  Keeps(i)
  <1>1. PICK nx : nx = [cn EXCEPT !.read_filled = @ - s[m], !.write_filled = @ + Len(cells),
                                  !.close_after_drain = closing, !.state = "Writing"]
    OBVIOUS
  <1>2. PICK t, v : /\ t = SubSeq(rmem[cn.slot], s[m] + 1, cn.read_filled)
                    /\ v = Overwrite(wmem[cn.slot], cn.write_filled, cells)
    OBVIOUS
  <1>3. /\ rmem' = [rmem EXCEPT ![cn.slot] = t] /\ wmem' = [wmem EXCEPT ![cn.slot] = v]
        /\ Alive(i, 1, nx, <<SubmitWrite(nx)>>) /\ tasks' = tasks
    BY <1>1, <1>2 DEF WriteReplies, Compact
  <1>4. Answering(cn, rmem[cn.slot], wmem[cn.slot], c, nread[c], got[c], peer[c], s, m, cells, nx)
    BY <1>1, WriteKeeps
  <1>5. /\ ConnOK(nx, <<SubmitWrite(nx)>>, t, v, c, nread[c], got[c], peer[c], {})
        /\ IsConn(nx) /\ SameOwner(nx, cn)
    BY <1>2, <1>4 DEF Answering
  <1>6. nx.slot = cn.slot /\ SameOwner(nx, conns[i])
    BY <1>5 DEF SameOwner
  <1>7. tasks' = tasks \cup Spawned(i, {})
    BY <1>3 DEF Spawned
  <1>8. Holds(nx, <<SubmitWrite(nx)>>, t, v, ClientOf(i), {})
    BY <1>5 DEF Holds
  <1> QED BY <1>3, <1>5, <1>6, <1>7, <1>8, KeepsAlive

LEMMA ParkResult ==
  ASSUME NEW i, NEW x, ring[i] = <<x>>, NEW cn, SameOwner(cn, conns[i]), NEW k,
         NEW c, c = ClientOf(i), NEW r, r = rmem[cn.slot],
         Ready(cn, r, c, k, nread[c], got[c], peer[c]),
         NEW s, EndsAre(c, k, s, Len(r)), s # <<>>,
         NEW req, req = Parsed(r, s)[1], Req(req).kind = "async", HasRegistry,
         Park(i, 1, cn, s[1], req)
  PROVE  Keeps(i)
  <1>1. PICK nx : nx = [cn EXCEPT !.read_filled = @ - s[1], !.state = "AwaitingAsync",
                                  !.parked_close_after = CloseOf(Req(req))]
    OBVIOUS
  <1>2. PICK t : t = SubSeq(r, s[1] + 1, cn.read_filled)
    OBVIOUS
  <1>3. /\ ConnOK(nx, <<>>, t, <<>>, c, nread[c], got[c], peer[c], {req})
        /\ IsConn(nx) /\ SameOwner(nx, cn)
    BY <1>1, <1>2, ParkKeeps
  <1>4. /\ rmem' = [rmem EXCEPT ![cn.slot] = t] /\ Idle(i, 1, nx, <<>>)
        /\ tasks' = tasks \cup {[slot_id |-> i, req |-> req, pc |-> "run"]}
    BY <1>1, <1>2 DEF Park, Compact
  <1>5. nx.slot = cn.slot /\ SameOwner(nx, conns[i])
    BY <1>3 DEF SameOwner
  <1>6. Alive(i, 1, nx, <<>>) /\ wmem' = [wmem EXCEPT ![nx.slot] = <<>>]
    BY <1>4 DEF Idle
  <1>7. tasks' = tasks \cup Spawned(i, {req})
    BY <1>4 DEF Spawned
  <1>8. Holds(nx, <<>>, t, <<>>, ClientOf(i), {req})
    BY <1>3 DEF Holds
  <1> QED BY <1>3, <1>4, <1>5, <1>6, <1>7, <1>8, KeepsAlive

LEMMA ProcessResult ==
  ASSUME MemoryTyped, NEW i, NEW x, ring[i] = <<x>>, NEW cn, SameOwner(cn, conns[i]), NEW k,
         NEW c, c = ClientOf(i),
         Ready(cn, rmem[cn.slot], c, k, nread[c], got[c], peer[c]), ProcessBuffered(i, 1, cn)
  PROVE  Keeps(i) \/ Closes(i)
  <1>1. PICK r, g, p : r = rmem[cn.slot] /\ g = got[c] /\ p = peer[c]
    OBVIOUS
  <1>2. /\ Ready(cn, r, c, k, nread[c], g, p) /\ cn.read_filled = Len(r) /\ c \in Client
        /\ r \in Seq(Cell) /\ BufferOf(c, k, r) /\ (p = "open" => g = ReplyCells(c, k))
        /\ k \in 0 .. NumReqs(c) /\ NumReqs(c) \in Nat
    BY <1>1, ConsistentTyped DEF Ready, Consistent
  <1>3. SubSeq(rmem[cn.slot], 1, cn.read_filled) = r
    BY <1>1, <1>2, SubSeqFull
  <1>4. PICK s : s = RequestEnds(r)
    OBVIOUS
  <1>5. EndsAre(c, k, s, Len(r))
    BY <1>2, <1>4, EndsSound
  <1>6. \/ s = <<>> /\ Len(r) = ReadRegion /\ Removed(i, 1)
        \/ s = <<>> /\ Len(r) # ReadRegion /\ ReadMore(i, 1, cn)
        \/ s # <<>> /\ Dispatch(i, 1, cn, s, Parsed(r, s))
    BY <1>2, <1>3, <1>4 DEF ProcessBuffered
  <1>7. CASE s = <<>> /\ Len(r) = ReadRegion /\ Removed(i, 1)
    <2>1. p = "open" => Refused(c, g)
      BY <1>2, <1>5, <1>7, TooLarge
    <2> QED BY <1>1, <1>7, <2>1, ClosesRemoved
  <1>8. CASE s = <<>> /\ Len(r) # ReadRegion /\ ReadMore(i, 1, cn)
    BY <1>1, <1>8, ReadMoreResult
  <1>9. CASE s # <<>> /\ Dispatch(i, 1, cn, s, Parsed(r, s))
    <2>1. PICK reqs : reqs = Parsed(r, s)
      OBVIOUS
    <2>2. 1 \in 1 .. Len(s) /\ Len(s) \in Nat
      BY <1>5, <1>9, LenProperties, EmptySeq DEF EndsAre
    <2>3. /\ ReqsAre(c, k, reqs) /\ Len(reqs) = Len(s) /\ k + 1 \in 1 .. NumReqs(c)
          /\ Req(reqs[1]) = Script[c][k + 1]
      <3>1. HeadOf(cn, r, c, k, nread[c], s, 1)
        BY <1>2, <1>5, <2>2, AtHand
      <3> QED BY <2>1, <3>1 DEF HeadOf
    <2>4. CASE Req(reqs[1]).kind = "async" /\ HasRegistry /\ Park(i, 1, cn, s[1], reqs[1])
      BY <1>1, <1>2, <1>5, <1>9, <2>1, <2>4, ParkResult
    <2>5. CASE /\ Req(reqs[1]).kind = "async" /\ ~HasRegistry
               /\ WriteReplies(i, 1, cn, s[1], Responses(reqs, 1), TRUE)
      <3>1. Unavailable(Script[c][k + 1]) /\ k + 1 > 0
        BY <2>3, <2>5 DEF Unavailable
      <3>2. Len(Responses(reqs, 1)) <= WriteRegion
        <4>1. Follow(c, k, reqs, 1)
          BY <1>2, <2>2, <2>3, ResponsesSound
        <4>2. RepEnd(c, k + 1) = RepEnd(c, k) + RespLen(Script[c][k + 1]) /\ RepEnd(c, k) \in Nat
          <5>1. (k + 1) - 1 = k
            BY <1>2
          <5> QED BY <1>2, <2>3, <5>1, ReplySteps
        <4>3. RespLen(Script[c][k + 1]) = 1 /\ WriteRegion \in Nat \ {0}
          BY <3>1, PipelineAssumption DEF RespLen
        <4> QED BY <4>1, <4>2, <4>3 DEF Follow
      <3>3. Ends(c, k + 1)
        BY <3>1 DEF Ends
      <3>4. PICK cells : cells = Responses(reqs, 1)
        OBVIOUS
      <3>5. Fits(cn, r, c, k, nread[c], g, p, s, 1, TRUE, cells)
        BY <1>2, <1>5, <2>1, <2>2, <3>2, <3>3, <3>4 DEF Fits
      <3> QED BY <1>1, <2>5, <3>4, <3>5, WriteResult
    <2>6. CASE Req(reqs[1]).kind # "async" /\ BatchSize(reqs) = 0 /\ Removed(i, 1)
      <3>1. reqs # <<>>
        BY <2>2, <2>3
      <3>2. k < NumReqs(c) /\ RespLen(Script[c][k + 1]) > WriteRegion
        BY <1>2, <2>3, <2>6, <3>1, BatchSound
      <3>3. p = "open" => Refused(c, g)
        BY <1>2, <3>2 DEF Refused
      <3> QED BY <1>1, <2>6, <3>3, ClosesRemoved
    <2>7. ASSUME NEW m, m = BatchSize(reqs), m > 0,
                 WriteReplies(i, 1, cn, s[m], Responses(reqs, m), CloseOf(Req(reqs[m])))
          PROVE  Keeps(i)
      <3>1. m \in 1 .. Len(s) /\ Len(Responses(reqs, m)) <= WriteRegion
        <4>1. Len(reqs) \in Nat
          BY <2>2, <2>3
        <4>2. m \in 0 .. Len(reqs) /\ Batchable(reqs, m)
          BY <2>7, <4>1, BatchIs
        <4> QED BY <2>3, <2>7, <4>1, <4>2 DEF Batchable
      <3>2. Req(reqs[m]) = Script[c][k + m] /\ k + m > 0
        <4>1. HeadOf(cn, r, c, k, nread[c], s, m)
          BY <1>2, <1>5, <3>1, AtHand
        <4> QED BY <2>1, <4>1 DEF HeadOf
      <3>3. CloseOf(Req(reqs[m])) => Ends(c, k + m)
        BY <3>2 DEF Ends
      <3>4. PICK cells, closing : cells = Responses(reqs, m) /\ closing = CloseOf(Req(reqs[m]))
        OBVIOUS
      <3>5. Fits(cn, r, c, k, nread[c], g, p, s, m, closing, cells)
        BY <1>2, <1>5, <2>1, <3>1, <3>3, <3>4 DEF Fits
      <3>6. WriteReplies(i, 1, cn, s[m], cells, closing)
        BY <2>7, <3>4
      <3> QED BY <1>1, <3>5, <3>6, WriteResult
    <2> QED BY <1>9, <2>1, <2>4, <2>5, <2>6, <2>7 DEF Dispatch
  <1> QED BY <1>6, <1>7, <1>8, <1>9

-------------------------------------------------------------------------------
\* The two completions a connection can have, and what HandleConn makes of them.
LEMMA SentResult ==
  ASSUME MemoryTyped, NEW i, NEW op, ring[i] = <<op>>, IsConn(conns[i]), conns[i].state = "Writing",
         AccountAt(i),
         Sent(i, 1, [conns[i] EXCEPT !.write_offset = @ + op.res])
  PROVE  Keeps(i) \/ Closes(i)
  <1>1. PICK cn : cn = conns[i]
    OBVIOUS
  <1>2. PICK wr : wr = [cn EXCEPT !.write_offset = @ + op.res]
    OBVIOUS
  <1>3. PICK nx : nx = [wr EXCEPT !.write_filled = 0, !.write_offset = 0, !.state = "Reading"]
    OBVIOUS
  <1>4. PICK c, r, w, n, g, p : /\ c = ClientOf(i) /\ r = rmem[cn.slot] /\ w = wmem[cn.slot]
                                /\ n = nread[c] /\ g = got[c] /\ p = peer[c]
    OBVIOUS
  <1>5. ConnOK(cn, <<op>>, r, w, c, n, g, p, Owed(i)) /\ IsConn(cn) /\ cn.state = "Writing"
    BY <1>1, <1>4 DEF AccountAt, Holds
  <1>6. AfterSend(wr, nx, r, w, c, n, g, p)
    BY <1>2, <1>3, <1>5, SentOutcome
  <1>7. /\ IsConn(wr) /\ SameOwner(wr, conns[i]) /\ wr.slot = cn.slot
        /\ IsConn(nx) /\ SameOwner(nx, conns[i]) /\ nx.slot = cn.slot
    BY <1>1, <1>2, <1>3, <1>5 DEF IsConn, SameOwner, States
  <1>8. \/ wr.write_offset < wr.write_filled /\ Alive(i, 1, wr, <<SubmitWrite(wr)>>)
           /\ UNCHANGED <<memory, tasks>>
        \/ wr.write_offset >= wr.write_filled /\ wr.close_after_drain /\ Removed(i, 1)
        \/ /\ wr.write_offset >= wr.write_filled /\ ~wr.close_after_drain
           /\ \/ wr.read_filled > 0 /\ ProcessBuffered(i, 1, nx)
              \/ wr.read_filled = 0 /\ ReadMore(i, 1, nx)
    BY <1>1, <1>2, <1>3 DEF Sent
  <1>9. CASE wr.write_offset < wr.write_filled /\ Alive(i, 1, wr, <<SubmitWrite(wr)>>)
             /\ UNCHANGED <<memory, tasks>>
    <2>1. rmem' = [rmem EXCEPT ![wr.slot] = r] /\ wmem' = [wmem EXCEPT ![wr.slot] = w]
      BY <1>4, <1>7, <1>9 DEF MemoryTyped, memory
    <2>2. tasks' = tasks \cup Spawned(i, {})
      BY <1>9 DEF Spawned
    <2>3. Holds(wr, <<SubmitWrite(wr)>>, r, w, ClientOf(i), {})
      BY <1>4, <1>6, <1>9 DEF Holds, AfterSend
    <2> QED BY <1>7, <1>9, <2>1, <2>2, <2>3, KeepsAlive
  <1>10. CASE wr.write_offset >= wr.write_filled /\ wr.close_after_drain /\ Removed(i, 1)
    BY <1>4, <1>6, <1>10, ClosesRemoved DEF AfterSend
  <1>11. CASE /\ wr.write_offset >= wr.write_filled /\ ~wr.close_after_drain
              /\ \/ wr.read_filled > 0 /\ ProcessBuffered(i, 1, nx)
                 \/ wr.read_filled = 0 /\ ReadMore(i, 1, nx)
    <2>1. PICK k : Ready(nx, r, c, k, n, g, p)
      BY <1>6, <1>11 DEF AfterSend
    <2>2. Ready(nx, rmem[nx.slot], c, k, nread[c], got[c], peer[c])
      BY <1>4, <1>7, <2>1
    <2>3. CASE ProcessBuffered(i, 1, nx)
      BY <1>4, <1>7, <2>2, <2>3, ProcessResult
    <2>4. CASE wr.read_filled = 0 /\ ReadMore(i, 1, nx)
      <3>1. Len(rmem[nx.slot]) # ReadRegion
        BY <1>4, <1>6, <1>7, <2>4, PipelineAssumption DEF AfterSend
      <3> QED BY <1>4, <1>7, <2>2, <2>4, <3>1, ReadMoreResult
    <2> QED BY <1>11, <2>3, <2>4
  <1> QED BY <1>8, <1>9, <1>10, <1>11

LEMMA ConnResult ==
  ASSUME Ownership, MemoryTyped, NEW i \in Idx, i \in DOMAIN conns => AccountAt(i), HandleConn(i)
  PROVE  i \in DOMAIN conns /\ ~Parked(i) /\ (Keeps(i) \/ Closes(i))
  <1> PICK n \in At(ring[i], "batch") :
        IF i \notin DOMAIN conns \/ conns[i].generation # ring[i][n].generation
          THEN TRUE ELSE HandleCompletion(i, n)
    BY DEF HandleConn
  <1>1. ring[i] # <<>>
    BY DEF At
  <1>2. RingAt(i)
    BY DEF Ownership, RingOK
  <1>3. PICK op : ring[i] = <<op>> /\ OpMatches(op, conns[i]) /\ Busy(i)
    BY <1>1, <1>2 DEF RingAt
  <1>4. n = 1 /\ op.stage = "batch"
    BY <1>3 DEF At
  <1>5. i \in DOMAIN conns /\ ~Parked(i) /\ IsConn(conns[i]) /\ conns[i].state \in {"Reading", "Writing"}
    BY <1>3 DEF Busy, Reading, Writing, Parked, Ownership, SlabOK
  <1>6. PICK res : res = op.res
    OBVIOUS
  <1>7. HandleCompletion(i, 1) /\ ring[i][1].res = res
    BY <1>3, <1>4, <1>5, <1>6 DEF OpMatches
  <1>8. \/ res = 0 /\ Removed(i, 1)
        \/ res > 0 /\ conns[i].state = "Reading"
           /\ ProcessBuffered(i, 1, [conns[i] EXCEPT !.read_filled = @ + res])
        \/ conns[i].state = "Writing" /\ Sent(i, 1, [conns[i] EXCEPT !.write_offset = @ + res])
    BY <1>5, <1>7, Zenon DEF HandleCompletion
  <1>9. PICK c, r, w, g, p : /\ c = ClientOf(i) /\ r = rmem[conns[i].slot] /\ w = wmem[conns[i].slot]
                             /\ g = got[c] /\ p = peer[c]
    OBVIOUS
  <1>10. ConnOK(conns[i], <<op>>, r, w, c, nread[c], g, p, Owed(i))
    BY <1>3, <1>5, <1>9 DEF AccountAt, Holds
  <1>11. CASE res = 0 /\ Removed(i, 1)
    <2>1. PICK k : ConnAt(conns[i], <<op>>, r, w, c, nread[c], g, p, Owed(i), k)
      BY <1>10 DEF ConnOK
    <2>2. OpStage(op, p)
      BY <1>5, <2>1 DEF ConnAt, ReadingOK, WritingOK
    <2>3. p # "open"
      BY <1>4, <1>6, <1>11, <2>2 DEF OpStage
    <2> QED BY <1>3, <1>5, <1>9, <1>11, <2>3, ClosesRemoved
  <1>12. CASE conns[i].state = "Reading"
              /\ ProcessBuffered(i, 1, [conns[i] EXCEPT !.read_filled = @ + res])
    <2>1. PICK rd : rd = [conns[i] EXCEPT !.read_filled = @ + op.res]
      OBVIOUS
    <2>2. PICK k : Ready(rd, r, c, k, nread[c], g, p)
      BY <1>5, <1>10, <1>12, <2>1, RecvReady
    <2>3. SameOwner(rd, conns[i]) /\ rd.slot = conns[i].slot
      BY <1>5, <2>1 DEF IsConn, SameOwner
    <2>4. Ready(rd, rmem[rd.slot], c, k, nread[c], got[c], peer[c]) /\ ProcessBuffered(i, 1, rd)
      BY <1>6, <1>9, <1>12, <2>1, <2>2, <2>3
    <2> QED BY <1>3, <1>5, <1>9, <2>3, <2>4, ProcessResult
  <1>13. CASE conns[i].state = "Writing" /\ Sent(i, 1, [conns[i] EXCEPT !.write_offset = @ + res])
    BY <1>3, <1>5, <1>6, <1>13, SentResult
  <1> QED BY <1>5, <1>8, <1>11, <1>12, <1>13

-------------------------------------------------------------------------------
(***************************************************************************)
(* Descriptors and clients. Every open descriptor is held by one           *)
(* connection or handed over in one completion of the accept, and the      *)
(* client behind it has no other; a client that is not yet accepted has    *)
(* sent and got nothing.                                                   *)
(***************************************************************************)
Open == {f \in Fd : fds[f] # None}

HeldOnce == \A i, j \in DOMAIN conns : conns[i].fd = conns[j].fd => i = j

HandedOnce ==
  \A m, n \in DOMAIN acceptCqe : acceptCqe[m].fd = acceptCqe[n].fd /\ acceptCqe[m].fd # 0 => m = n

\* A client is behind a descriptor while it is connected, and behind one only.
PeersOK ==
  /\ fds \in [Fd -> Client \cup {None}] /\ peer \in [Client -> {"off", "queued", "open", "hungup"}]
  /\ \A c \in Client : peer[c] \in {"open", "hungup"} <=> \E f \in Fd : fds[f] = c
  /\ \A f, h \in Fd : fds[f] # None /\ fds[f] = fds[h] => f = h

\* Nothing is read from a client, nor sent to it, before it has a connection.
Fresh(c) == nread[c] = 0 /\ got[c] = <<>>

FreshOK ==
  /\ nread = [c \in Client |-> nread[c]] /\ got = [c \in Client |-> got[c]]
  /\ \A c \in Client : peer[c] = "queued" => Fresh(c)
  /\ \A f \in Handed : Fresh(fds[f])

NetOK == PeersOK /\ FreshOK /\ DescriptorPartition

LEMMA PartitionIs ==
  DescriptorPartition <=> Open = Held \cup Handed /\ Held \cap Handed = {} /\ HeldOnce /\ HandedOnce
  BY DEF DescriptorPartition, Open, HeldOnce, HandedOnce

LEMMA HandedSame ==
  ASSUME HandedOnce, UNCHANGED acceptCqe
  PROVE  Handed' = Handed /\ HandedOnce'
  BY DEF Handed, HandedOnce

LEMMA HandedTail ==
  ASSUME ArmedOK, HandedOnce, acceptCqe # <<>>, acceptCqe' = Tail(acceptCqe)
  PROVE  /\ Handed' = Handed \ {Head(acceptCqe).fd} /\ HandedOnce'
         /\ Head(acceptCqe).fd # 0 => Head(acceptCqe).fd \in Handed
         /\ Head(acceptCqe).fd \in Fd \cup {0}
  <1> PICK s, t : s = acceptCqe /\ t = acceptCqe'
    OBVIOUS
  <1>1. /\ Len(s) \in Nat \ {0} /\ DOMAIN s = 1 .. Len(s) /\ Head(s) = s[1] /\ s[1] \in AcceptCqe
        /\ DOMAIN t = 1 .. Len(s) - 1 /\ \A n \in 1 .. Len(s) - 1 : t[n] = s[n + 1]
    BY EmptySeq, HeadTailProperties, LenProperties DEF ArmedOK
  <1>2. Handed = {s[n].fd : n \in 1 .. Len(s)} \ {0} /\ Handed' = {t[n].fd : n \in 1 .. Len(s) - 1} \ {0}
    BY <1>1 DEF Handed
  <1>3. \A m, n \in 1 .. Len(s) : s[m].fd = s[n].fd /\ s[m].fd # 0 => m = n
    BY <1>1 DEF HandedOnce
  <1>4. ASSUME NEW f PROVE f \in Handed' <=> f \in Handed /\ f # s[1].fd
    <2>1. ASSUME f \in Handed' PROVE f \in Handed /\ f # s[1].fd
      <3>1. PICK n \in 1 .. Len(s) - 1 : f = t[n].fd /\ f # 0
        BY <1>2, <2>1
      <3>2. n + 1 \in 1 .. Len(s) /\ n + 1 # 1 /\ 1 \in 1 .. Len(s) /\ f = s[n + 1].fd
        BY <1>1, <3>1
      <3> QED BY <1>2, <1>3, <3>1, <3>2
    <2>2. ASSUME f \in Handed, f # s[1].fd PROVE f \in Handed'
      <3>1. PICK n \in 1 .. Len(s) : f = s[n].fd /\ f # 0
        BY <1>2, <2>2
      <3>2. n # 1
        BY <2>2, <3>1
      <3>3. n - 1 \in 1 .. Len(s) - 1 /\ (n - 1) + 1 = n
        BY <1>1, <3>2
      <3> QED BY <1>1, <1>2, <3>1, <3>3
    <2> QED BY <2>1, <2>2
  <1>5. ASSUME NEW m \in 1 .. Len(s) - 1, NEW n \in 1 .. Len(s) - 1, t[m].fd = t[n].fd, t[m].fd # 0
        PROVE  m = n
    <2>1. m + 1 \in 1 .. Len(s) /\ n + 1 \in 1 .. Len(s)
      BY <1>1
    <2>2. m + 1 = n + 1
      BY <1>1, <1>3, <1>5, <2>1
    <2> QED BY <2>2
  <1>6. HandedOnce'
    BY <1>1, <1>5 DEF HandedOnce
  <1>7. s[1].fd \in Fd \cup {0} /\ (s[1].fd # 0 => s[1].fd \in Handed)
    <2>1. 1 \in 1 .. Len(s)
      BY <1>1
    <2> QED BY <1>1, <1>2, <2>1 DEF AcceptCqe
  <1> QED BY <1>1, <1>4, <1>6, <1>7

LEMMA HandedAppend ==
  ASSUME ArmedOK, HandedOnce, NEW fd \in Fd \cup {0}, fd \notin Handed, NEW e \in AcceptCqe, e.fd = fd,
         acceptCqe' = Append(acceptCqe, e)
  PROVE  Handed' = (Handed \cup {fd}) \ {0} /\ HandedOnce'
  <1> PICK s, t : s = acceptCqe /\ t = acceptCqe'
    OBVIOUS
  <1>1. /\ Len(s) \in Nat /\ DOMAIN s = 1 .. Len(s) /\ DOMAIN t = 1 .. Len(s) + 1
        /\ \A n \in 1 .. Len(s) : t[n] = s[n] /\ t[Len(s) + 1] = e
    BY AppendFacts, LenProperties DEF ArmedOK
  <1>2. t[Len(s) + 1] = e
    BY AppendFacts DEF ArmedOK
  <1>3. Handed = {s[n].fd : n \in 1 .. Len(s)} \ {0} /\ Handed' = {t[n].fd : n \in 1 .. Len(s) + 1} \ {0}
    BY <1>1 DEF Handed
  <1>4. \A n \in 1 .. Len(s) + 1 : n \in 1 .. Len(s) \/ n = Len(s) + 1
    BY <1>1
  <1>5. Len(s) + 1 \in 1 .. Len(s) + 1 /\ \A n \in 1 .. Len(s) : n \in 1 .. Len(s) + 1
    BY <1>1
  <1>6. ASSUME NEW f PROVE f \in Handed' <=> f \in (Handed \cup {fd}) \ {0}
    BY <1>1, <1>2, <1>3, <1>4, <1>5
  <1>7. \A n \in 1 .. Len(s) : s[n].fd # 0 => s[n].fd # fd
    BY <1>3
  <1>8. HandedOnce'
    BY <1>1, <1>2, <1>4, <1>7 DEF HandedOnce
  <1> QED BY <1>6, <1>8

LEMMA HandedRestage ==
  ASSUME ArmedOK, HandedOnce, acceptCqe' = Restage(acceptCqe, "cq", "batch")
  PROVE  Handed' = Handed /\ HandedOnce'
  <1> PICK s, t : s = acceptCqe /\ t = acceptCqe'
    OBVIOUS
  <1>1. \A x \in AcceptCqe : [x EXCEPT !.stage = "batch"].fd = x.fd
    BY DEF AcceptCqe
  <1>2. Staged(AcceptCqe, "batch")
    BY DEF AcceptCqe, Staged
  <1>3. s \in Seq(AcceptCqe)
    BY DEF ArmedOK
  <1>4. /\ t \in Seq(AcceptCqe) /\ Len(t) = Len(s)
        /\ DOMAIN s = 1 .. Len(s) /\ DOMAIN t = 1 .. Len(s)
    BY <1>2, <1>3, RestageSeq
  <1>5. \A n \in 1 .. Len(s) : t[n] = IF s[n].stage = "cq" THEN [s[n] EXCEPT !.stage = "batch"] ELSE s[n]
    BY <1>2, <1>3, RestageSeq
  <1>6. \A n \in 1 .. Len(s) : s[n] \in AcceptCqe
    BY <1>3, LenProperties
  <1>7. \A n \in 1 .. Len(s) : t[n].fd = s[n].fd
    BY <1>1, <1>5, <1>6
  <1> QED BY <1>4, <1>7 DEF Handed, HandedOnce

-------------------------------------------------------------------------------
\* What the handlers do to the descriptors that connections hold.
LEMMA HeldSame ==
  ASSUME HeldOnce, DOMAIN conns' = DOMAIN conns, \A j \in DOMAIN conns : conns'[j].fd = conns[j].fd
  PROVE  Held' = Held /\ HeldOnce'
  BY DEF Held, HeldOnce

LEMMA HeldRemoved ==
  ASSUME HeldOnce, NEW i \in DOMAIN conns, conns' = Restrict(conns, DOMAIN conns \ {i})
  PROVE  Held' = Held \ {conns[i].fd} /\ HeldOnce' /\ conns[i].fd \in Held
  <1>1. DOMAIN conns' = DOMAIN conns \ {i} /\ \A j \in DOMAIN conns \ {i} : conns'[j] = conns[j]
    BY DEF Restrict
  <1> QED BY <1>1 DEF Held, HeldOnce

LEMMA HeldAdded ==
  ASSUME HeldOnce, NEW i, i \notin DOMAIN conns, NEW cn, cn.fd \notin Held,
         conns' = [j \in DOMAIN conns \cup {i} |-> IF j = i THEN cn ELSE conns[j]]
  PROVE  Held' = Held \cup {cn.fd} /\ HeldOnce'
  <1>1. /\ DOMAIN conns' = DOMAIN conns \cup {i} /\ conns'[i] = cn
        /\ \A j \in DOMAIN conns : conns'[j] = conns[j]
    OBVIOUS
  <1>2. \A j \in DOMAIN conns : conns[j].fd # cn.fd
    BY DEF Held
  <1> QED BY <1>1, <1>2 DEF Held, HeldOnce

LEMMA Closed ==
  ASSUME PeersOK, NEW f \in Open, CloseFds({f})
  PROVE  /\ PeersOK' /\ Open' = Open \ {f} /\ fds[f] \in Client /\ peer[fds[f]] # "queued"
         /\ peer' = [peer EXCEPT ![fds[f]] = "off"]
         /\ \A h \in Fd \ {f} : fds'[h] = fds[h]
         /\ \A h \in Open \ {f} : fds[h] # fds[f] /\ peer'[fds[h]] = peer[fds[h]]
         /\ UNCHANGED <<nread, got>>
  <1> PICK c : c = fds[f]
    OBVIOUS
  <1>1. f \in Fd /\ c \in Client /\ c # None /\ None \notin Client
    BY WorkerAssumption DEF Open, PeersOK
  <1>2. /\ fds' = [h \in Fd |-> IF h = f THEN None ELSE fds[h]]
        /\ peer' = [d \in Client |-> IF d = c THEN "off" ELSE peer[d]]
        /\ UNCHANGED <<nread, got>>
    BY DEF CloseFds
  <1>3. Open' = Open \ {f}
    BY <1>1, <1>2 DEF Open
  <1>4. \A h \in Fd : h # f /\ fds[h] # None => fds[h] # c /\ fds[h] \in Client
    BY <1>1 DEF PeersOK
  <1>5. peer[c] # "queued"
    BY <1>1 DEF PeersOK
  <1>6. peer' = [peer EXCEPT ![c] = "off"]
    BY <1>2 DEF PeersOK
  <1>7. PeersOK'
    <2>1. fds' \in [Fd -> Client \cup {None}] /\ peer' \in [Client -> {"off", "queued", "open", "hungup"}]
      BY <1>2 DEF PeersOK
    <2>2. ASSUME NEW d \in Client PROVE peer'[d] \in {"open", "hungup"} <=> \E h \in Fd : fds'[h] = d
      <3>1. CASE d = c
        <4>1. peer'[d] = "off"
          BY <1>2, <3>1
        <4>2. \A h \in Fd : fds'[h] # d
          BY <1>1, <1>2, <1>4, <3>1
        <4> QED BY <4>1, <4>2
      <3>2. CASE d # c
        <4>1. peer'[d] = peer[d]
          BY <1>2, <3>2
        <4>2. \A h \in Fd : fds'[h] = d <=> fds[h] = d
          BY <1>1, <1>2, <3>2
        <4> QED BY <4>1, <4>2 DEF PeersOK
      <3> QED BY <3>1, <3>2
    <2>3. \A h, k \in Fd : fds'[h] # None /\ fds'[h] = fds'[k] => h = k
      BY <1>2 DEF PeersOK
    <2> QED BY <2>1, <2>2, <2>3 DEF PeersOK
  <1>8. \A h \in Open \ {f} : fds[h] # c /\ peer'[fds[h]] = peer[fds[h]]
    BY <1>2, <1>4 DEF Open
  <1> QED BY <1>1, <1>2, <1>3, <1>5, <1>6, <1>7, <1>8

-------------------------------------------------------------------------------
(***************************************************************************)
(* Balanced, the inductive invariant: the descriptors, the regions of the  *)
(* free slots (empty, so that the next connection starts with none of the  *)
(* bytes of the last), and the account of every connection. It needs       *)
(* Ownership, ArmedOK and BridgeOK, which are invariants by themselves.    *)
(*                                                                         *)
(* A step disturbs the account of at most one connection: the others are   *)
(* Apart from it, because no two share a slot, a descriptor or a client.   *)
(***************************************************************************)
FreeClean == \A n \in DOMAIN free : rmem[free[n]] = <<>> /\ wmem[free[n]] = <<>>

Accounts == \A i \in DOMAIN conns : AccountAt(i)

Balanced == NetOK /\ MemoryTyped /\ FreeClean /\ Accounts

\* Nothing that concerns connection j changes.
Apart(j) ==
  /\ conns'[j] = conns[j] /\ ring'[j] = ring[j]
  /\ rmem'[conns[j].slot] = rmem[conns[j].slot] /\ wmem'[conns[j].slot] = wmem[conns[j].slot]
  /\ fds'[conns[j].fd] = fds[conns[j].fd]
  /\ nread'[ClientOf(j)] = nread[ClientOf(j)] /\ got'[ClientOf(j)] = got[ClientOf(j)]
  /\ peer'[ClientOf(j)] = peer[ClientOf(j)]
  /\ Owed(j)' = Owed(j)

LEMMA ApartKeeps ==
  ASSUME NEW j, AccountAt(j), Apart(j)
  PROVE  AccountAt(j)'
  BY DEF Apart, AccountAt, Holds, ClientOf

\* Two connections share neither slot nor descriptor nor client.
LEMMA Distinct ==
  ASSUME Ownership, NetOK, NEW i \in DOMAIN conns
  PROVE  /\ conns[i].slot \in Slot /\ conns[i].fd \in Open /\ conns[i].fd \in Fd
         /\ ClientOf(i) \in Client /\ conns[i].fd \notin Handed
         /\ \A j \in DOMAIN conns \ {i} :
              /\ conns[j].slot # conns[i].slot /\ conns[j].fd # conns[i].fd
              /\ ClientOf(j) # ClientOf(i)
  <1>1. \A j \in DOMAIN conns : conns[j].slot \in Slot
    BY DEF Ownership, SlabOK, IsConn
  <1>2. \A j \in DOMAIN conns : conns[j].fd \in Held
    BY DEF Held
  <1>3. Open = Held \cup Handed /\ Held \cap Handed = {} /\ HeldOnce
    BY PartitionIs DEF NetOK
  <1>4. \A j \in DOMAIN conns : conns[j].fd \in Fd /\ fds[conns[j].fd] # None
    BY <1>2, <1>3 DEF Open
  <1>5. \A j \in DOMAIN conns \ {i} : conns[j].slot # conns[i].slot
    BY DEF Ownership, SlotPartition
  <1>6. \A j \in DOMAIN conns \ {i} : conns[j].fd # conns[i].fd
    BY <1>3 DEF HeldOnce
  <1>7. \A j \in DOMAIN conns \ {i} : fds[conns[j].fd] # fds[conns[i].fd]
    BY <1>4, <1>6 DEF NetOK, PeersOK
  <1>8. fds[conns[i].fd] \in Client
    BY <1>4 DEF NetOK, PeersOK
  <1> QED BY <1>1, <1>2, <1>3, <1>4, <1>5, <1>6, <1>7, <1>8 DEF ClientOf

LEMMA FreeSlots ==
  ASSUME Ownership
  PROVE  /\ free \in Seq(Slot) /\ \A n \in DOMAIN free : free[n] \in Slot
         /\ \A i \in DOMAIN conns, n \in DOMAIN free : free[n] # conns[i].slot
  <1>1. free \in Seq(Slot) /\ \A n \in DOMAIN free : free[n] \in Slot
    BY LenProperties DEF Ownership, SlabOK
  <1>2. \A i \in DOMAIN conns, n \in DOMAIN free : free[n] # conns[i].slot
    BY <1>1 DEF Ownership, SlotPartition
  <1> QED BY <1>1, <1>2

\* Only the connection that is parked is owed anything.
LEMMA OwedNone ==
  ASSUME Owners, NEW i, i \notin Waiting
  PROVE  Owed(i) = {}
  <1>1. \A t \in Running : t.slot_id # i
    BY DEF Owners, RunOwner
  <1>2. \A p \in DOMAIN Undelivered : Undelivered[p].slot_id # i
    BY DEF Owners, QueueOwner
  <1> QED BY <1>1, <1>2 DEF Owed

LEMMA OwedSame ==
  ASSUME UNCHANGED <<tasks, queue, drained>>, NEW j
  PROVE  Owed(j)' = Owed(j)
  BY DEF Owed, Running, Undelivered

LEMMA OwedSpawned ==
  ASSUME NEW i, NEW owed, tasks' = tasks \cup Spawned(i, owed), UNCHANGED <<queue, drained>>, NEW j
  PROVE  Owed(j)' = IF j = i THEN Owed(j) \cup owed ELSE Owed(j)
  <1>1. \A t \in Spawned(i, owed) : t.pc = "run" /\ t.slot_id = i /\ t.req \in owed
    BY DEF Spawned
  <1>2. \A e \in owed : \E t \in Spawned(i, owed) : t.req = e
    <2> TAKE e \in owed
    <2>1. [slot_id |-> i, req |-> e, pc |-> "run"] \in Spawned(i, owed)
      BY DEF Spawned
    <2> QED BY <2>1
  <1>3. Running' = Running \cup Spawned(i, owed) /\ Undelivered' = Undelivered
    BY <1>1 DEF Running, Undelivered
  <1> DEFINE run(k) == {t.req : t \in {u \in Running : u.slot_id = k}}
             que(k) == {Undelivered[p].req : p \in {q \in DOMAIN Undelivered : Undelivered[q].slot_id = k}}
             nrun(k) == {t.req : t \in {u \in Running' : u.slot_id = k}}
  <1>4. Owed(j) = run(j) \cup que(j)
    BY DEF Owed
  <1>5. Owed(j)' = nrun(j) \cup que(j)
    BY <1>3 DEF Owed
  <1>6. nrun(j) = IF j = i THEN run(j) \cup owed ELSE run(j)
    <2>1. CASE j = i
      <3>1. \A e : e \in nrun(j) <=> e \in run(j) \cup owed
        BY <1>1, <1>2, <1>3, <2>1
      <3> QED BY <2>1, <3>1
    <2>2. CASE j # i
      <3>1. \A e : e \in nrun(j) <=> e \in run(j)
        BY <1>1, <1>3, <2>2
      <3> QED BY <2>2, <3>1
    <2> QED BY <2>1, <2>2
  <1> HIDE DEF run, que, nrun
  <1> QED BY <1>4, <1>5, <1>6

-------------------------------------------------------------------------------
(***************************************************************************)
(* Balanced, one lemma per way a step touches what it relates.             *)
(***************************************************************************)
LEMMA NetSame ==
  ASSUME NetOK, UNCHANGED <<fds, peer, nread, got>>, Held' = Held, HeldOnce', Handed' = Handed, HandedOnce'
  PROVE  NetOK'
  <1>1. Open = Held \cup Handed /\ Held \cap Handed = {}
    BY PartitionIs DEF NetOK
  <1>2. Open' = Open
    BY DEF Open
  <1>3. Open' = Held' \cup Handed' /\ Held' \cap Handed' = {}
    BY <1>1, <1>2
  <1>4. DescriptorPartition'
    BY <1>3 DEF DescriptorPartition, Open, HeldOnce, HandedOnce
  <1>5. PeersOK' /\ FreshOK'
    BY DEF NetOK, PeersOK, FreshOK, Fresh
  <1> QED BY <1>4, <1>5 DEF NetOK

\* A completion of connection i was handled, and the connection stays.
LEMMA KeptBalanced ==
  ASSUME Ownership, Owners, Balanced, NEW i \in DOMAIN conns, i \notin Waiting, Keeps(i)
  PROVE  Balanced'
  <1>1. PICK cn, ops, r, w, owed :
          /\ IsConn(cn) /\ SameOwner(cn, conns[i])
          /\ conns' = [conns EXCEPT ![i] = cn] /\ ring' = [ring EXCEPT ![i] = ops]
          /\ rmem' = [rmem EXCEPT ![cn.slot] = r] /\ wmem' = [wmem EXCEPT ![cn.slot] = w]
          /\ Holds(cn, ops, r, w, ClientOf(i), owed)
          /\ tasks' = tasks \cup Spawned(i, owed)
    BY DEF Keeps
  <1>2. UNCHANGED <<vacant, free, acceptCqe, queue, drained, net>>
    BY DEF Keeps
  <1>3. cn.slot = conns[i].slot /\ cn.fd = conns[i].fd /\ i \in Idx /\ cn.slot \in Slot
    BY <1>1 DEF SameOwner, IsConn, Ownership, SlabOK
  <1>4. /\ DOMAIN conns' = DOMAIN conns /\ conns'[i] = cn
        /\ \A j \in DOMAIN conns \ {i} : conns'[j] = conns[j]
    BY <1>1
  <1>5. ring'[i] = ops /\ \A j \in DOMAIN conns \ {i} : ring'[j] = ring[j]
    BY <1>1, <1>3 DEF Ownership, RingOK, SlabOK
  <1>6. MemoryTyped' /\ rmem'[cn.slot] = r /\ wmem'[cn.slot] = w
        /\ \A s \in Slot \ {cn.slot} : rmem'[s] = rmem[s] /\ wmem'[s] = wmem[s]
    BY <1>1, <1>3 DEF Balanced, MemoryTyped
  <1>7. UNCHANGED <<fds, peer, nread, got>>
    BY <1>2 DEF net
  <1>8. NetOK'
    <2>1. Held' = Held /\ HeldOnce'
      BY <1>3, <1>4, HeldSame, PartitionIs DEF Balanced, NetOK
    <2>2. Handed' = Handed /\ HandedOnce'
      BY <1>2, HandedSame, PartitionIs DEF Balanced, NetOK
    <2> QED BY <1>7, <2>1, <2>2, NetSame DEF Balanced
  <1>9. FreeClean'
    <2>1. \A n \in DOMAIN free : free[n] \in Slot \ {cn.slot}
      BY <1>3, FreeSlots
    <2> QED BY <1>2, <1>6, <2>1 DEF Balanced, FreeClean
  <1>10. AccountAt(i)'
    <2>1. Owed(i)' = owed
      <3>1. Owed(i) = {}
        BY OwedNone
      <3>2. Owed(i)' = Owed(i) \cup owed
        BY <1>1, <1>2, OwedSpawned
      <3> QED BY <3>1, <3>2
    <2> QED BY <1>1, <1>3, <1>4, <1>5, <1>6, <1>7, <2>1 DEF AccountAt, Holds, ClientOf
  <1>11. ASSUME NEW j \in DOMAIN conns \ {i} PROVE AccountAt(j)'
    <2>1. conns[j].slot \in Slot \ {cn.slot}
      BY <1>3, Distinct DEF Balanced
    <2>2. Owed(j)' = Owed(j)
      BY <1>1, <1>2, OwedSpawned
    <2>3. Apart(j)
      BY <1>4, <1>5, <1>6, <1>7, <2>1, <2>2 DEF Apart
    <2> QED BY <2>3, ApartKeeps DEF Balanced, Accounts
  <1>12. Accounts'
    BY <1>4, <1>10, <1>11 DEF Accounts
  <1> QED BY <1>6, <1>8, <1>9, <1>12 DEF Balanced

\* Connection i is closed and its slot returns.
LEMMA FreedBalanced ==
  ASSUME Ownership, Balanced, NEW i \in DOMAIN conns, Freed(i), ring' = [ring EXCEPT ![i] = <<>>],
         UNCHANGED acceptCqe, \A j \in DOMAIN conns \ {i} : Owed(j)' = Owed(j)
  PROVE  Balanced'
  <1> PICK f, s : f = conns[i].fd /\ s = conns[i].slot
    OBVIOUS
  <1>1. /\ conns' = Restrict(conns, DOMAIN conns \ {i}) /\ free' = Append(free, s)
        /\ rmem' = [rmem EXCEPT ![s] = <<>>] /\ wmem' = [wmem EXCEPT ![s] = <<>>]
        /\ CloseFds({f})
    BY DEF Freed
  <1>2. /\ s \in Slot /\ f \in Open /\ f \notin Handed
        /\ \A j \in DOMAIN conns \ {i} : conns[j].slot # s /\ conns[j].fd # f
    BY Distinct DEF Balanced
  <1>3. /\ PeersOK' /\ Open' = Open \ {f} /\ fds[f] \in Client /\ peer[fds[f]] # "queued"
        /\ peer' = [peer EXCEPT ![fds[f]] = "off"]
        /\ \A h \in Fd \ {f} : fds'[h] = fds[h]
        /\ \A h \in Open \ {f} : fds[h] # fds[f] /\ peer'[fds[h]] = peer[fds[h]]
        /\ UNCHANGED <<nread, got>>
    BY <1>1, <1>2, Closed DEF Balanced, NetOK
  <1>4. DOMAIN conns' = DOMAIN conns \ {i} /\ \A j \in DOMAIN conns \ {i} : conns'[j] = conns[j]
    BY <1>1 DEF Restrict
  <1>5. \A j \in DOMAIN conns \ {i} : ring'[j] = ring[j]
    BY DEF Ownership, RingOK, SlabOK
  <1>6. /\ MemoryTyped' /\ rmem'[s] = <<>> /\ wmem'[s] = <<>>
        /\ \A t \in Slot \ {s} : rmem'[t] = rmem[t] /\ wmem'[t] = wmem[t]
    BY <1>1, <1>2 DEF Balanced, MemoryTyped
  <1>7. Open = Held \cup Handed /\ Held \cap Handed = {} /\ HeldOnce /\ HandedOnce
    BY PartitionIs DEF Balanced, NetOK
  <1>8. Held' = Held \ {f} /\ HeldOnce' /\ Handed' = Handed /\ HandedOnce'
    BY <1>1, <1>7, HeldRemoved, HandedSame
  <1>9. DescriptorPartition'
    <2>1. Open' = Held' \cup Handed' /\ Held' \cap Handed' = {}
      BY <1>2, <1>3, <1>7, <1>8
    <2> QED BY <1>8, <2>1 DEF DescriptorPartition, Open, HeldOnce, HandedOnce
  <1>10. FreshOK'
    <2>1. \A h \in Handed : h \in Fd \ {f} /\ fds'[h] = fds[h]
      BY <1>2, <1>3, <1>7 DEF Open
    <2>2. \A c \in Client : peer'[c] = "queued" => peer[c] = "queued"
      BY <1>3 DEF PeersOK
    <2> QED BY <1>3, <1>8, <2>1, <2>2 DEF Balanced, NetOK, FreshOK, Fresh
  <1>11. FreeClean'
    <2>1. /\ \A n \in DOMAIN free' : n \in DOMAIN free \/ free'[n] = s
          /\ \A n \in DOMAIN free : free'[n] = free[n]
      <3>1. /\ DOMAIN free' = 1 .. Len(free) + 1 /\ DOMAIN free = 1 .. Len(free) /\ Len(free) \in Nat
            /\ \A n \in DOMAIN free : free'[n] = free[n]
            /\ free'[Len(free) + 1] = s
        BY <1>1, <1>2, FreeSlots, AppendFacts, LenProperties
      <3>2. \A n \in 1 .. Len(free) + 1 : n \in 1 .. Len(free) \/ n = Len(free) + 1
        BY <3>1
      <3> QED BY <3>1, <3>2
    <2>2. \A n \in DOMAIN free : free[n] \in Slot \ {s}
      BY FreeSlots
    <2> QED BY <1>6, <2>1, <2>2 DEF Balanced, FreeClean
  <1>12. ASSUME NEW j \in DOMAIN conns \ {i} PROVE AccountAt(j)'
    <2>1. conns[j].slot \in Slot \ {s} /\ conns[j].fd \in Fd \ {f} /\ conns[j].fd \in Open \ {f}
      BY <1>2, Distinct DEF Balanced
    <2>2. Apart(j)
      BY <1>3, <1>4, <1>5, <1>6, <2>1 DEF Apart, ClientOf
    <2> QED BY <2>2, ApartKeeps DEF Balanced, Accounts
  <1>13. Accounts'
    BY <1>4, <1>12 DEF Accounts
  <1> QED BY <1>3, <1>6, <1>9, <1>10, <1>11, <1>13 DEF Balanced, NetOK

-------------------------------------------------------------------------------
\* The connections, their memory and their clients stay.
LEMMA StillBalanced ==
  ASSUME Balanced, UNCHANGED <<conns, ring, free, rmem, wmem, fds, peer, nread, got>>,
         Handed' = Handed, HandedOnce', \A j \in DOMAIN conns : Owed(j)' = Owed(j)
  PROVE  Balanced'
  <1>1. NetOK'
    <2>1. Held' = Held /\ HeldOnce'
      BY HeldSame, PartitionIs DEF Balanced, NetOK
    <2> QED BY <2>1, NetSame DEF Balanced
  <1>2. MemoryTyped' /\ FreeClean'
    BY DEF Balanced, MemoryTyped, FreeClean
  <1>3. ASSUME NEW j \in DOMAIN conns PROVE AccountAt(j)'
    <2>1. Apart(j)
      BY DEF Apart
    <2> QED BY <2>1, ApartKeeps DEF Balanced, Accounts
  <1> QED BY <1>1, <1>2, <1>3 DEF Balanced, Accounts

LEMMA RefusedBalanced ==
  ASSUME Ownership, ArmedOK, Balanced, acceptCqe # <<>>, acceptCqe' = Tail(acceptCqe),
         NEW f, f = Head(acceptCqe).fd, f # 0, CloseFds({f}),
         UNCHANGED <<conns, ring, free, rmem, wmem, tasks, queue, drained>>
  PROVE  Balanced'
  <1>1. Open = Held \cup Handed /\ Held \cap Handed = {} /\ HeldOnce /\ HandedOnce
    BY PartitionIs DEF Balanced, NetOK
  <1>2. Handed' = Handed \ {f} /\ HandedOnce' /\ f \in Handed /\ f \in Open /\ f \notin Held
    BY <1>1, HandedTail
  <1>3. Held' = Held /\ HeldOnce'
    BY <1>1, HeldSame
  <1>4. /\ PeersOK' /\ Open' = Open \ {f} /\ fds[f] \in Client /\ peer[fds[f]] # "queued"
        /\ peer' = [peer EXCEPT ![fds[f]] = "off"]
        /\ \A h \in Fd \ {f} : fds'[h] = fds[h]
        /\ \A h \in Open \ {f} : fds[h] # fds[f] /\ peer'[fds[h]] = peer[fds[h]]
        /\ UNCHANGED <<nread, got>>
    BY <1>2, Closed DEF Balanced, NetOK
  <1>5. DescriptorPartition'
    <2>1. Open' = Held' \cup Handed' /\ Held' \cap Handed' = {}
      BY <1>1, <1>2, <1>3, <1>4
    <2> QED BY <1>2, <1>3, <2>1 DEF DescriptorPartition, Open, HeldOnce, HandedOnce
  <1>6. FreshOK'
    <2>1. \A h \in Handed' : h \in Handed /\ fds'[h] = fds[h]
      BY <1>1, <1>2, <1>4 DEF Open
    <2>2. \A c \in Client : peer'[c] = "queued" => peer[c] = "queued"
      BY <1>4 DEF PeersOK
    <2> QED BY <1>4, <2>1, <2>2 DEF Balanced, NetOK, FreshOK, Fresh
  <1>7. MemoryTyped' /\ FreeClean'
    BY DEF Balanced, MemoryTyped, FreeClean
  <1>8. ASSUME NEW j \in DOMAIN conns PROVE AccountAt(j)'
    <2>1. conns[j].fd \in Open \ {f} /\ conns[j].fd \in Fd
      BY <1>2, Distinct DEF Balanced, Held
    <2>2. Owed(j)' = Owed(j)
      BY OwedSame
    <2>3. Apart(j)
      BY <1>4, <2>1, <2>2 DEF Apart, ClientOf
    <2> QED BY <2>3, ApartKeeps DEF Balanced, Accounts
  <1> QED BY <1>4, <1>5, <1>6, <1>7, <1>8 DEF Balanced, NetOK, Accounts

\* A connection that was just accepted.
LEMMA NewAccount ==
  ASSUME NEW c \in Client, NEW cn, IsConn(cn), cn.state = "Reading", cn.read_filled = 0,
         cn.write_filled = 0, cn.write_offset = 0, ~cn.close_after_drain, ~cn.parked_close_after, NEW p
  PROVE  ConnOK(cn, <<SubmitRead(cn)>>, <<>>, <<>>, c, 0, <<>>, p, {})
  <1>1. ReplyCells(c, 0) = <<>> /\ ReqEnd(c, 0) = 0 /\ NumReqs(c) \in Nat
    BY RequestSteps, ReplySteps, ScriptTyped
  <1>2. PICK r : r = <<>>
    OBVIOUS
  <1>3. r \in Seq(Cell) /\ Len(r) = 0
    BY <1>2
  <1>4. Stream(c) \in Seq(Cell) /\ Len(Stream(c)) \in Nat
    <2>1. NumReqs(c) \in 0 .. NumReqs(c)
      BY <1>1
    <2> QED BY <2>1, RequestSteps, LenProperties
  <1>5. BufferOf(c, 0, r)
    BY <1>1, <1>3, <1>4 DEF BufferOf
  <1>6. ReadRegion \in Nat \ {0}
    BY PipelineAssumption
  <1>7. Consistent(c, 0, r, 0)
    BY <1>1, <1>3, <1>5, <1>6 DEF Consistent
  <1>8. Ready(cn, r, c, 0, 0, r, p)
    BY <1>1, <1>2, <1>3, <1>7 DEF Ready
  <1>9. ConnOK(cn, <<SubmitRead(cn)>>, r, <<>>, c, 0, r, p, {})
    BY <1>3, <1>6, <1>8, ReadMoreKeeps
  <1> QED BY <1>2, <1>9

LEMMA InsertBalanced ==
  ASSUME Ownership, ArmedOK, Owners, Balanced, acceptCqe # <<>>, acceptCqe' = Tail(acceptCqe),
         Head(acceptCqe).fd # 0, free # <<>>, Insert(Head(acceptCqe).fd),
         UNCHANGED <<rmem, wmem, tasks, queue, drained, fds, peer, nread, got>>
  PROVE  Balanced'
  <1> PICK i, f : i = Last(vacant) /\ f = Head(acceptCqe).fd
    OBVIOUS
  <1> PICK cn :
        cn = [generation |-> next_generation, fd |-> f, slot |-> Last(free),
              read_filled |-> 0, write_filled |-> 0, write_offset |-> 0,
              state |-> "Reading", close_after_drain |-> FALSE,
              parked_close_after |-> FALSE]
    OBVIOUS
  <1>1. /\ conns' = [j \in DOMAIN conns \cup {i} |-> IF j = i THEN cn ELSE conns[j]]
        /\ free' = Front(free) /\ ring' = [ring EXCEPT ![i] = Append(@, SubmitRead(cn))]
    BY DEF Insert
  <1>2. i \in Idx /\ i \notin DOMAIN conns
    <2>1. vacant # <<>>
      BY EmptySeq DEF Ownership, SlabOK
    <2>2. Len(vacant) \in DOMAIN vacant /\ i = vacant[Len(vacant)] /\ i \in Idx
      BY <2>1, FrontProperties DEF Ownership, SlabOK
    <2> QED BY <2>2 DEF Ownership, SlabOK
  <1>3. /\ DOMAIN free' \subseteq DOMAIN free /\ \A n \in DOMAIN free' : free'[n] = free[n]
        /\ Len(free) \in DOMAIN free /\ cn.slot = free[Len(free)] /\ cn.slot \in Slot
    <2>1. free \in Seq(Slot) /\ Len(free) \in Nat
      BY LenProperties DEF Ownership, SlabOK
    <2>2. /\ DOMAIN free = 1 .. Len(free) /\ DOMAIN free' = 1 .. Len(free) - 1
          /\ \A n \in DOMAIN free' : free'[n] = free[n]
          /\ Len(free) \in DOMAIN free /\ cn.slot = free[Len(free)] /\ cn.slot \in Slot
      BY <1>1, <2>1, FrontProperties
    <2> QED BY <2>1, <2>2
  <1>4. rmem[cn.slot] = <<>> /\ wmem[cn.slot] = <<>>
    BY <1>3 DEF Balanced, FreeClean
  <1>5. IsConn(cn) /\ cn.state = "Reading" /\ cn.fd = f
    BY <1>3 DEF IsConn, States
  <1>6. ring[i] = <<>>
    <2>1. RingAt(i)
      BY <1>2 DEF Ownership, RingOK
    <2> QED BY <1>2, <2>1 DEF RingAt, Busy, Reading, Writing
  <1>7. ring'[i] = <<SubmitRead(cn)>> /\ \A j \in DOMAIN conns : ring'[j] = ring[j]
    BY <1>1, <1>2, <1>6 DEF Ownership, RingOK, SlabOK
  <1>8. /\ DOMAIN conns' = DOMAIN conns \cup {i} /\ conns'[i] = cn
        /\ \A j \in DOMAIN conns : conns'[j] = conns[j]
    BY <1>1, <1>2
  <1>9. Open = Held \cup Handed /\ Held \cap Handed = {} /\ HeldOnce /\ HandedOnce
    BY PartitionIs DEF Balanced, NetOK
  <1>10. Handed' = Handed \ {f} /\ HandedOnce' /\ f \in Handed /\ f \notin Held
    BY <1>9, HandedTail
  <1>11. Held' = Held \cup {f} /\ HeldOnce'
    BY <1>1, <1>2, <1>5, <1>9, <1>10, HeldAdded
  <1>12. Open' = Open
    BY DEF Open
  <1>13. DescriptorPartition'
    <2>1. Open' = Held' \cup Handed' /\ Held' \cap Handed' = {}
      BY <1>9, <1>10, <1>11, <1>12
    <2> QED BY <1>10, <1>11, <2>1 DEF DescriptorPartition, Open, HeldOnce, HandedOnce
  <1>14. PeersOK' /\ FreshOK'
    BY <1>10 DEF Balanced, NetOK, PeersOK, FreshOK, Fresh
  <1>15. MemoryTyped' /\ FreeClean'
    BY <1>3 DEF Balanced, MemoryTyped, FreeClean
  <1>16. AccountAt(i)'
    <2> PICK c : c = fds[f]
      OBVIOUS
    <2>1. c \in Client /\ nread[c] = 0 /\ got[c] = <<>>
      <3>1. f \in Fd /\ fds[f] # None
        BY <1>9, <1>10 DEF Open
      <3> QED BY <1>10, <3>1 DEF Balanced, NetOK, PeersOK, FreshOK, Fresh
    <2>2. Owed(i)' = {}
      <3>1. Owed(i) = {}
        BY <1>2, OwedNone DEF Waiting
      <3> QED BY <3>1, OwedSame
    <2>3. ConnOK(cn, <<SubmitRead(cn)>>, <<>>, <<>>, c, 0, <<>>, peer[c], {})
      BY <1>5, <2>1, NewAccount
    <2> QED BY <1>4, <1>5, <1>7, <1>8, <2>1, <2>2, <2>3 DEF AccountAt, Holds, ClientOf
  <1>17. ASSUME NEW j \in DOMAIN conns PROVE AccountAt(j)'
    <2>1. Owed(j)' = Owed(j)
      BY OwedSame
    <2>2. Apart(j)
      BY <1>7, <1>8, <2>1 DEF Apart
    <2> QED BY <2>2, ApartKeeps DEF Balanced, Accounts
  <1> QED BY <1>8, <1>13, <1>14, <1>15, <1>16, <1>17 DEF Balanced, NetOK, Accounts

LEMMA AcceptBalanced ==
  ASSUME Ownership, ArmedOK, BridgeOK, Balanced, HandleAccept
  PROVE  Balanced'
  <1> PICK f : f = Head(acceptCqe).fd
    OBVIOUS
  <1>1. /\ acceptCqe # <<>> /\ acceptCqe' = Tail(acceptCqe)
        /\ UNCHANGED <<rmem, wmem, tasks, queue, drained>>
    BY DEF HandleAccept, memory, bridge
  <1>2. CASE f = 0 /\ UNCHANGED <<worker, ring, net>>
    <2>1. Handed' = Handed /\ HandedOnce'
      <3>1. HandedOnce
        BY PartitionIs DEF Balanced, NetOK
      <3>2. Handed' = Handed \ {f} /\ HandedOnce'
        BY <1>1, <3>1, HandedTail
      <3> QED BY <1>2, <3>2 DEF Handed
    <2>2. \A j \in DOMAIN conns : Owed(j)' = Owed(j)
      BY <1>1, OwedSame
    <2> QED BY <1>1, <1>2, <2>1, <2>2, StillBalanced DEF worker, net
  <1>3. CASE f # 0 /\ CloseFds({f}) /\ UNCHANGED <<worker, ring>>
    BY <1>1, <1>3, RefusedBalanced DEF worker
  <1>4. CASE f # 0 /\ free # <<>> /\ Insert(f) /\ UNCHANGED net
    BY <1>1, <1>4, InsertBalanced DEF BridgeOK, net
  <1> QED BY <1>2, <1>3, <1>4 DEF HandleAccept

-------------------------------------------------------------------------------
\* The oldest completion is what its connection is owed; nothing is afterwards.
LEMMA OwedDelivered ==
  ASSUME BridgeOK, drained # <<>>, drained' = Tail(drained), UNCHANGED <<tasks, queue>>,
         NEW i, i = Head(drained).slot_id
  PROVE  /\ Head(drained).req \in Owed(i) /\ Owed(i)' = {} /\ i \in Waiting
         /\ \A j : j # i => Owed(j)' = Owed(j)
  <1>1. /\ Head(drained) = Undelivered[1]
        /\ DOMAIN Undelivered = 1 .. Len(Undelivered) /\ Len(Undelivered) \in Nat \ {0}
        /\ DOMAIN Undelivered' = 1 .. Len(Undelivered) - 1
        /\ \A p \in DOMAIN Undelivered' : Undelivered'[p] = Undelivered[p + 1]
    BY Taken DEF BridgeOK
  <1>2. Running' = Running
    BY DEF Running
  <1>3. 1 \in DOMAIN Undelivered /\ Undelivered[1].slot_id = i /\ QueueOwner(1)
    BY <1>1 DEF BridgeOK, Owners
  <1>4. i \in Waiting
    BY <1>3 DEF QueueOwner
  <1>5. \A t \in Running : t.slot_id # i
    BY <1>3 DEF BridgeOK, Owners, RunOwner
  <1>6. Head(drained).req \in Owed(i)
    BY <1>1, <1>3 DEF Owed
  <1>7. \A p \in DOMAIN Undelivered' : p + 1 \in DOMAIN Undelivered /\ p + 1 # 1
    BY <1>1
  <1>8. \A p \in DOMAIN Undelivered \ {1} : p - 1 \in DOMAIN Undelivered' /\ (p - 1) + 1 = p
    BY <1>1
  <1> DEFINE run(k) == {t.req : t \in {u \in Running : u.slot_id = k}}
             que(k) == {Undelivered[p].req : p \in {q \in DOMAIN Undelivered : Undelivered[q].slot_id = k}}
             nque(k) == {Undelivered'[p].req : p \in {q \in DOMAIN Undelivered' : Undelivered'[q].slot_id = k}}
  <1>9. \A k : Owed(k) = run(k) \cup que(k) /\ Owed(k)' = run(k) \cup nque(k)
    BY <1>2 DEF Owed
  <1>10. run(i) = {} /\ nque(i) = {}
    <2>1. \A p \in DOMAIN Undelivered' : Undelivered'[p].slot_id # i
      BY <1>1, <1>3, <1>7 DEF QueueOwner
    <2> QED BY <1>5, <2>1
  <1>11. ASSUME NEW j, j # i PROVE nque(j) = que(j)
    <2>1. ASSUME NEW e \in nque(j) PROVE e \in que(j)
      <3>1. PICK p \in DOMAIN Undelivered' : Undelivered'[p].slot_id = j /\ e = Undelivered'[p].req
        OBVIOUS
      <3> QED BY <1>1, <1>7, <3>1
    <2>2. ASSUME NEW e \in que(j) PROVE e \in nque(j)
      <3>1. PICK p \in DOMAIN Undelivered : Undelivered[p].slot_id = j /\ e = Undelivered[p].req
        OBVIOUS
      <3>2. p # 1
        BY <1>3, <1>11, <3>1
      <3>3. p - 1 \in DOMAIN Undelivered' /\ Undelivered'[p - 1] = Undelivered[p]
        BY <1>1, <1>8, <3>2
      <3> QED BY <3>1, <3>3
    <2> QED BY <2>1, <2>2
  <1> HIDE DEF run, que, nque
  <1> QED BY <1>4, <1>6, <1>9, <1>10, <1>11

LEMMA DeliverBalanced ==
  ASSUME Ownership, BridgeOK, Balanced, Deliver
  PROVE  Balanced'
  <1> PICK i, req : i = Head(drained).slot_id /\ req = Head(drained).req
    OBVIOUS
  <1>1. drained # <<>> /\ drained' = Tail(drained) /\ UNCHANGED <<tasks, queue, acceptCqe>>
    BY DEF Deliver
  <1>2. /\ req \in Owed(i) /\ Owed(i)' = {} /\ i \in Waiting
        /\ \A j : j # i => Owed(j)' = Owed(j)
    BY <1>1, OwedDelivered
  <1>3. i \in DOMAIN conns /\ i \in Idx /\ conns[i].state = "AwaitingAsync" /\ Parked(i) /\ IsConn(conns[i])
    BY <1>2 DEF Waiting, Parked, Ownership, SlabOK
  <1>4. PICK cells : cells = Response(req)
    OBVIOUS
  <1>5. DeliverAsyncResponse(i, cells)
    BY <1>3, <1>4 DEF Deliver
  <1>6. ring[i] = <<>>
    <2>1. RingAt(i)
      BY <1>3 DEF Ownership, RingOK
    <2> QED BY <1>3, <2>1 DEF RingAt, Busy, Reading, Writing
  <1>7. PICK cn, c, r : cn = conns[i] /\ c = ClientOf(i) /\ r = rmem[cn.slot]
    OBVIOUS
  <1>8. PICK nx : nx = [cn EXCEPT !.write_filled = Len(cells), !.write_offset = 0,
                                  !.close_after_drain = cn.parked_close_after, !.state = "Writing"]
    OBVIOUS
  <1>9. ConnOK(cn, ring[i], r, wmem[cn.slot], c, nread[c], got[c], peer[c], Owed(i))
    BY <1>3, <1>7 DEF Balanced, Accounts, AccountAt, Holds
  <1>10. /\ Len(cells) <= WriteRegion =>
              ConnOK(nx, <<SubmitWrite(nx)>>, r, cells, c, nread[c], got[c], peer[c], {})
         /\ IsConn(nx) /\ SameOwner(nx, cn) /\ nx.state = "Writing"
    <2>1. PICK owed, w, n, g, p : owed = Owed(i) /\ w = wmem[cn.slot] /\ n = nread[c] /\ g = got[c] /\ p = peer[c]
      OBVIOUS
    <2>2. ConnOK(cn, ring[i], r, w, c, n, g, p, owed) /\ req \in owed
      BY <1>2, <1>9, <2>1
    <2>3. Resumed(cn, nx, r, cells, c, n, g, p)
      BY <1>3, <1>4, <1>7, <1>8, <2>2, DeliverKeeps
    <2> QED BY <2>1, <2>3 DEF Resumed
  <1>11. CASE Freed(i) /\ UNCHANGED ring
    <2>1. ring' = [ring EXCEPT ![i] = <<>>]
      BY <1>3, <1>6, <1>11 DEF Ownership, RingOK
    <2> QED BY <1>1, <1>2, <1>3, <1>11, <2>1, FreedBalanced
  <1>12. CASE /\ Len(cells) <= WriteRegion
              /\ conns' = [conns EXCEPT ![i] = nx] /\ wmem' = [wmem EXCEPT ![nx.slot] = cells]
              /\ ring' = [ring EXCEPT ![i] = Append(@, SubmitWrite(nx))]
              /\ UNCHANGED <<vacant, free, rmem, net>>
    <2>1. nx.slot = cn.slot /\ nx.fd = cn.fd /\ cn.slot \in Slot
      BY <1>3, <1>7, <1>10 DEF SameOwner, IsConn
    <2>2. /\ DOMAIN conns' = DOMAIN conns /\ conns'[i] = nx
          /\ \A j \in DOMAIN conns \ {i} : conns'[j] = conns[j]
      BY <1>3, <1>12
    <2>3. ring'[i] = <<SubmitWrite(nx)>> /\ \A j \in DOMAIN conns \ {i} : ring'[j] = ring[j]
      BY <1>3, <1>6, <1>12 DEF Ownership, RingOK, SlabOK
    <2>4. MemoryTyped' /\ wmem'[cn.slot] = cells /\ rmem' = rmem
          /\ \A s \in Slot \ {cn.slot} : wmem'[s] = wmem[s]
      BY <1>12, <2>1 DEF Balanced, MemoryTyped
    <2>5. NetOK'
      <3>1. Held' = Held /\ HeldOnce'
        BY <1>7, <2>1, <2>2, HeldSame, PartitionIs DEF Balanced, NetOK
      <3>2. Handed' = Handed /\ HandedOnce'
        BY <1>1, HandedSame, PartitionIs DEF Balanced, NetOK
      <3> QED BY <1>12, <3>1, <3>2, NetSame DEF Balanced, net
    <2>6. FreeClean'
      <3>1. \A n \in DOMAIN free : free[n] \in Slot \ {cn.slot}
        BY <1>3, <1>7, FreeSlots
      <3> QED BY <1>12, <2>4, <3>1 DEF Balanced, FreeClean
    <2>7. AccountAt(i)'
      <3>1. ConnOK(nx, <<SubmitWrite(nx)>>, r, cells, c, nread[c], got[c], peer[c], {})
        BY <1>10, <1>12
      <3>2. /\ conns'[i].slot = cn.slot /\ ClientOf(i)' = c /\ UNCHANGED <<nread, got, peer>>
            /\ rmem'[cn.slot] = r /\ wmem'[cn.slot] = cells
        BY <1>7, <1>12, <2>1, <2>2, <2>4 DEF ClientOf, net
      <3> QED BY <1>2, <2>2, <2>3, <3>1, <3>2 DEF AccountAt, Holds
    <2>8. ASSUME NEW j \in DOMAIN conns \ {i} PROVE AccountAt(j)'
      <3>1. conns[j].slot \in Slot \ {cn.slot}
        BY <1>3, <1>7, Distinct DEF Balanced
      <3>2. Apart(j)
        BY <1>2, <1>12, <2>2, <2>3, <2>4, <3>1 DEF Apart, net
      <3> QED BY <3>2, ApartKeeps DEF Balanced, Accounts
    <2>9. Accounts'
      BY <2>2, <2>7, <2>8 DEF Accounts
    <2> QED BY <2>4, <2>5, <2>6, <2>9 DEF Balanced
  <1> QED BY <1>5, <1>7, <1>8, <1>11, <1>12 DEF DeliverAsyncResponse

LEMMA PushBalanced ==
  ASSUME BridgeOK, Balanced, NEW t \in tasks, TaskPush(t)
  PROVE  Balanced'
  <1> PICK e, s : /\ e = [slot_id |-> t.slot_id, req |-> t.req]
                  /\ s = [t EXCEPT !.pc = "signal"]
    OBVIOUS
  <1>1. /\ queue' = Append(queue, e) /\ drained' = drained /\ tasks' = (tasks \ {t}) \cup {s}
        /\ UNCHANGED <<conns, ring, free, rmem, wmem, fds, peer, nread, got, acceptCqe>>
    BY DEF TaskPush, worker, memory, uring, net
  <1>2. t.pc = "run" /\ s.pc = "signal" /\ t \in Running
    BY DEF TaskPush, BridgeOK, BridgeTyped, IsTask, Running
  <1>3. Running' = Running \ {t}
    BY <1>1, <1>2 DEF Running
  <1>4. /\ DOMAIN Undelivered = 1 .. Len(Undelivered) /\ Len(Undelivered) \in Nat
        /\ DOMAIN Undelivered' = 1 .. Len(Undelivered) + 1
        /\ \A p \in DOMAIN Undelivered : Undelivered'[p] = Undelivered[p]
        /\ Undelivered'[Len(Undelivered) + 1] = e
    <2> PICK S : S = (Range(drained) \cup Range(queue)) \cup {e}
      OBVIOUS
    <2>1. Undelivered \in Seq(S) /\ e \in S
      BY UndeliveredSeq, SeqMonotonic DEF BridgeOK
    <2>2. Undelivered' = Append(Undelivered, e)
      BY <1>1, Pushed DEF BridgeOK
    <2> QED BY <2>1, <2>2, AppendFacts, LenProperties
  <1> PICK last : last = Len(Undelivered) + 1
    OBVIOUS
  <1>5. /\ \A p \in DOMAIN Undelivered' : p \in DOMAIN Undelivered \/ p = last
        /\ last \in DOMAIN Undelivered' /\ DOMAIN Undelivered \subseteq DOMAIN Undelivered'
        /\ Undelivered'[last].slot_id = t.slot_id /\ Undelivered'[last].req = t.req
    BY <1>4
  <1> DEFINE run(k) == {u.req : u \in {v \in Running : v.slot_id = k}}
             nrun(k) == {u.req : u \in {v \in Running' : v.slot_id = k}}
             que(k) == {Undelivered[p].req : p \in {q \in DOMAIN Undelivered : Undelivered[q].slot_id = k}}
             nque(k) == {Undelivered'[p].req : p \in {q \in DOMAIN Undelivered' : Undelivered'[q].slot_id = k}}
  <1>6. ASSUME NEW j PROVE Owed(j)' = Owed(j)
    <2>1. Owed(j) = run(j) \cup que(j) /\ Owed(j)' = nrun(j) \cup nque(j)
      BY DEF Owed
    <2>2. ASSUME NEW x \in run(j) PROVE x \in nrun(j) \/ x \in nque(j)
      <3>1. PICK u \in Running : u.slot_id = j /\ x = u.req
        OBVIOUS
      <3> QED BY <1>3, <1>5, <3>1
    <2>3. ASSUME NEW x \in que(j) PROVE x \in nque(j)
      BY <1>4, <1>5
    <2>4. ASSUME NEW x \in nrun(j) PROVE x \in run(j)
      BY <1>3
    <2>5. ASSUME NEW x \in nque(j) PROVE x \in run(j) \/ x \in que(j)
      <3>1. PICK p \in DOMAIN Undelivered' : Undelivered'[p].slot_id = j /\ x = Undelivered'[p].req
        OBVIOUS
      <3>2. CASE p = last
        BY <1>2, <1>5, <3>1, <3>2
      <3>3. CASE p \in DOMAIN Undelivered
        BY <1>4, <3>1, <3>3
      <3> QED BY <1>5, <3>2, <3>3
    <2> HIDE DEF run, nrun, que, nque
    <2> QED BY <2>1, <2>2, <2>3, <2>4, <2>5
  <1>7. Handed' = Handed /\ HandedOnce'
    BY <1>1, HandedSame, PartitionIs DEF Balanced, NetOK
  <1> QED BY <1>1, <1>6, <1>7, StillBalanced

LEMMA BridgeBalanced ==
  ASSUME BridgeOK, Balanced, Drain \/ \E t \in tasks : TaskSignal(t)
  PROVE  Balanced'
  <1>1. UNCHANGED <<conns, ring, free, rmem, wmem, fds, peer, nread, got, acceptCqe>>
    BY DEF Drain, TaskSignal, worker, memory, uring, net
  <1>2. Handed' = Handed /\ HandedOnce'
    BY <1>1, HandedSame, PartitionIs DEF Balanced, NetOK
  <1>3. Running' = Running /\ Undelivered' = Undelivered
    <2>1. CASE Drain
      <3>1. drained = <<>> /\ drained' = queue /\ queue' = <<>> /\ tasks' = tasks
        BY <2>1 DEF Drain
      <3> QED BY <3>1, Drained DEF Running, BridgeOK
    <2>2. CASE \E t \in tasks : TaskSignal(t)
      BY <2>2 DEF TaskSignal, Running, Undelivered
    <2> QED BY <2>1, <2>2
  <1>4. \A j \in DOMAIN conns : Owed(j)' = Owed(j)
    BY <1>3 DEF Owed
  <1> QED BY <1>1, <1>2, <1>4, StillBalanced

-------------------------------------------------------------------------------
\* The operation of a connection: there is one while it is busy.
LEMMA TheOperation ==
  ASSUME Ownership, NEW i \in Idx, ring[i] # <<>>
  PROVE  /\ i \in DOMAIN conns /\ conns[i].state \in {"Reading", "Writing"} /\ IsConn(conns[i])
         /\ \E op : ring[i] = <<op>> /\ OpMatches(op, conns[i])
  <1>1. RingAt(i)
    BY DEF Ownership, RingOK
  <1>2. Busy(i)
    BY <1>1 DEF RingAt
  <1>3. i \in DOMAIN conns /\ conns[i].state \in {"Reading", "Writing"}
    BY <1>2 DEF Busy, Reading, Writing
  <1> QED BY <1>1, <1>2, <1>3 DEF RingAt, Ownership, SlabOK

LEMMA RestageBalanced ==
  ASSUME Ownership, Balanced, NEW from, NEW to,
         <<from, to>> \in {<<"sq", "kernel">>, <<"cq", "batch">>},
         ring' = [i \in Idx |-> Restage(ring[i], from, to)], Handed' = Handed, HandedOnce',
         UNCHANGED <<conns, free, rmem, wmem, fds, peer, nread, got, tasks, queue, drained>>
  PROVE  Balanced'
  <1>1. NetOK'
    <2>1. Held' = Held /\ HeldOnce'
      BY HeldSame, PartitionIs DEF Balanced, NetOK
    <2> QED BY <2>1, NetSame DEF Balanced
  <1>2. MemoryTyped' /\ FreeClean'
    BY DEF Balanced, MemoryTyped, FreeClean
  <1>3. ASSUME NEW j \in DOMAIN conns PROVE AccountAt(j)'
    <2> PICK cn, c, r, w, n, g, p, owed :
          /\ cn = conns[j] /\ c = ClientOf(j) /\ r = rmem[cn.slot] /\ w = wmem[cn.slot]
          /\ n = nread[c] /\ g = got[c] /\ p = peer[c] /\ owed = Owed(j)
      OBVIOUS
    <2>1. ConnOK(cn, ring[j], r, w, c, n, g, p, owed)
      BY DEF Balanced, Accounts, AccountAt, Holds
    <2>2. j \in Idx /\ ring'[j] = Restage(ring[j], from, to)
      BY DEF Ownership, SlabOK
    <2>3. ConnOK(cn, ring'[j], r, w, c, n, g, p, owed)
      <3>1. CASE ring[j] = <<>>
        <4>1. Restage(<<>>, from, to) = <<>>
          BY DEF Restage
        <4> QED BY <2>1, <2>2, <3>1, <4>1
      <3>2. CASE ring[j] # <<>>
        <4>1. PICK op : ring[j] = <<op>> /\ IsOp(op)
          BY <2>2, <3>2, TheOperation DEF OpMatches
        <4>2. PICK mv : mv = IF op.stage = from THEN [op EXCEPT !.stage = to] ELSE op
          OBVIOUS
        <4>3. Restage(<<op>>, from, to) = <<mv>>
          BY <4>2 DEF Restage
        <4>4. Advances(op, mv, p)
          BY <4>2 DEF Advances
        <4>5. ConnOK(cn, <<mv>>, r, w, c, n, g, p, owed)
          BY <2>1, <4>1, <4>4, StageKeeps
        <4> QED BY <2>2, <4>1, <4>3, <4>5
      <3> QED BY <3>1, <3>2
    <2>4. Owed(j)' = owed
      BY OwedSame
    <2> QED BY <2>3, <2>4 DEF AccountAt, Holds, ClientOf
  <1> QED BY <1>1, <1>2, <1>3 DEF Balanced, Accounts

\* The kernel completes the operation of connection i, for its client.
Completed(i, op, mv, r, m, h) ==
  /\ ring' = [ring EXCEPT ![i] = <<mv>>]
  /\ rmem' = [rmem EXCEPT ![conns[i].slot] = r]
  /\ nread' = [nread EXCEPT ![ClientOf(i)] = m] /\ got' = [got EXCEPT ![ClientOf(i)] = h]
  /\ UNCHANGED <<conns, free, wmem, fds, peer, acceptCqe, tasks, queue, drained>>

LEMMA CompletedBalanced ==
  ASSUME Ownership, Balanced, NEW i \in DOMAIN conns, NEW op, NEW mv, NEW r, NEW m, NEW h,
         Completed(i, op, mv, r, m, h),
         ConnOK(conns[i], <<mv>>, r, wmem[conns[i].slot], ClientOf(i), m, h, peer[ClientOf(i)], Owed(i))
  PROVE  Balanced'
  <1> PICK c, s : c = ClientOf(i) /\ s = conns[i].slot
    OBVIOUS
  <1>1. /\ ring' = [ring EXCEPT ![i] = <<mv>>] /\ rmem' = [rmem EXCEPT ![s] = r]
        /\ nread' = [nread EXCEPT ![c] = m] /\ got' = [got EXCEPT ![c] = h]
        /\ UNCHANGED <<conns, free, wmem, fds, peer, acceptCqe, tasks, queue, drained>>
    BY DEF Completed
  <1>2. /\ s \in Slot /\ c \in Client /\ conns[i].fd \notin Handed /\ i \in Idx /\ conns[i].fd \in Open
        /\ \A j \in DOMAIN conns \ {i} : conns[j].slot # s /\ ClientOf(j) # c
    BY Distinct DEF Balanced, Ownership, SlabOK
  <1>3. /\ nread' = [d \in Client |-> nread'[d]] /\ got' = [d \in Client |-> got'[d]]
        /\ nread'[c] = m /\ got'[c] = h
        /\ \A d \in Client \ {c} : nread'[d] = nread[d] /\ got'[d] = got[d]
    <2>1. nread = [d \in Client |-> nread[d]] /\ got = [d \in Client |-> got[d]]
      BY DEF Balanced, NetOK, FreshOK
    <2> QED BY <1>1, <1>2, <2>1
  <1>4. MemoryTyped' /\ rmem'[s] = r /\ \A t \in Slot \ {s} : rmem'[t] = rmem[t]
    BY <1>1, <1>2 DEF Balanced, MemoryTyped
  <1>5. ring'[i] = <<mv>> /\ \A j \in DOMAIN conns \ {i} : ring'[j] = ring[j]
    BY <1>1, <1>2 DEF Ownership, RingOK, SlabOK
  <1>6. FreeClean'
    <2>1. \A n \in DOMAIN free : free[n] \in Slot \ {s}
      BY FreeSlots
    <2> QED BY <1>1, <1>4, <2>1 DEF Balanced, FreeClean
  <1>7. NetOK'
    <2>1. PeersOK' /\ DescriptorPartition'
      <3>1. Held' = Held /\ Handed' = Handed
        BY <1>1 DEF Held, Handed
      <3> QED BY <1>1, <3>1 DEF Balanced, NetOK, PeersOK, DescriptorPartition
    <2>2. \A f \in Handed' : f \in Handed /\ fds'[f] = fds[f] /\ fds[f] \in Client \ {c}
      <3>1. Handed' = Handed
        BY <1>1 DEF Handed
      <3>2. \A f \in Handed : f \in Open /\ f # conns[i].fd
        BY <1>2, PartitionIs DEF Balanced, NetOK
      <3>3. \A f \in Open : fds[f] \in Client /\ (f # conns[i].fd => fds[f] # c)
        BY <1>2 DEF Open, Balanced, NetOK, PeersOK, ClientOf
      <3> QED BY <1>1, <3>1, <3>2, <3>3
    <2>3. peer[c] # "queued"
      BY <1>2 DEF ClientOf, Open, Balanced, NetOK, PeersOK
    <2> QED BY <1>1, <1>3, <2>1, <2>2, <2>3 DEF Balanced, NetOK, FreshOK, Fresh
  <1>8. AccountAt(i)'
    <2>1. Owed(i)' = Owed(i)
      BY <1>1, OwedSame
    <2> QED BY <1>1, <1>3, <1>4, <1>5, <2>1 DEF AccountAt, Holds, ClientOf
  <1>9. ASSUME NEW j \in DOMAIN conns \ {i} PROVE AccountAt(j)'
    <2>1. conns[j].slot \in Slot \ {s} /\ ClientOf(j) \in Client \ {c}
      BY <1>2, Distinct DEF Balanced
    <2>2. Owed(j)' = Owed(j)
      BY <1>1, OwedSame
    <2>3. Apart(j)
      BY <1>1, <1>3, <1>4, <1>5, <2>1, <2>2 DEF Apart
    <2> QED BY <2>3, ApartKeeps DEF Balanced, Accounts
  <1> QED BY <1>1, <1>4, <1>6, <1>7, <1>8, <1>9 DEF Balanced, Accounts

\* The operation of index i becomes mv.
Becomes(i, mv) == ring' = [ring EXCEPT ![i] = <<mv>>]

LEMMA CompleteIs ==
  ASSUME NEW i, NEW op, ring[i] = <<op>>, NEW res, Complete(i, 1, res),
         NEW mv, CompletedAs(op, mv, res)
  PROVE  Becomes(i, mv)
  <1>1. [ring[i] EXCEPT ![1] = mv] = <<mv>> /\ ring[i][1] = op /\ mv = [op EXCEPT !.stage = "cq", !.res = res]
    BY DEF CompletedAs
  <1>2. ring' = [ring EXCEPT ![i] = [ring[i] EXCEPT ![1] =
                   [ring[i][1] EXCEPT !.stage = "cq", !.res = res]]]
    BY Zenon DEF Complete
  <1> QED BY <1>1, <1>2, Zenon DEF Becomes

\* An operation of a connection offers the kernel at least one cell.
LEMMA NonemptyOp ==
  ASSUME NEW cn, cn.state \in {"Reading", "Writing"}, NEW op, NEW r, NEW w, NEW c, NEW n, NEW g,
         NEW p, NEW owed, ConnOK(cn, <<op>>, r, w, c, n, g, p, owed)
  PROVE  op.len # 0
  <1>1. PICK k : ConnAt(cn, <<op>>, r, w, c, n, g, p, owed, k)
    BY DEF ConnOK
  <1>2. CASE cn.state = "Reading"
    <2>1. /\ cn.read_filled \in Nat /\ cn.read_filled < ReadRegion
          /\ op.len = ReadRegion - cn.read_filled /\ ReadRegion \in Nat
      BY <1>1, <1>2, PipelineAssumption DEF ConnAt, ReadingOK
    <2> QED BY <2>1
  <1>3. CASE cn.state = "Writing"
    <2>1. /\ w \in Seq(Cell) /\ cn.write_offset \in Nat /\ cn.write_offset < Len(w)
          /\ op.len = Len(w) - cn.write_offset
      BY <1>1, <1>3 DEF ConnAt, WritingOK
    <2>2. Len(w) \in Nat
      BY <2>1, LenProperties
    <2> QED BY <2>1, <2>2
  <1> QED BY <1>2, <1>3

\* The connection of an operation the kernel completes.
KernelOp(i, op) ==
  /\ i \in DOMAIN conns /\ ring[i] = <<op>> /\ OpMatches(op, conns[i]) /\ op.stage = "kernel"
  /\ fds[op.fd] = ClientOf(i) /\ ClientOf(i) \in Client /\ ClientOf(i) # None
  /\ op.slot = conns[i].slot /\ conns[i].slot \in Slot /\ IsOp(op) /\ op.len # 0
  /\ ConnOK(conns[i], <<op>>, rmem[conns[i].slot], wmem[conns[i].slot], ClientOf(i),
            nread[ClientOf(i)], got[ClientOf(i)], peer[ClientOf(i)], Owed(i))
  /\ conns[i].state = IF op.kind = "recv" THEN "Reading" ELSE "Writing"

LEMMA KernelOperation ==
  ASSUME Ownership, Balanced, NEW i \in Idx, NEW n \in At(ring[i], "kernel")
  PROVE  n = 1 /\ \E op : KernelOp(i, op)
  <1>1. ring[i] # <<>>
    BY DEF At
  <1>2. /\ i \in DOMAIN conns /\ conns[i].state \in {"Reading", "Writing"} /\ IsConn(conns[i])
        /\ \E op : ring[i] = <<op>> /\ OpMatches(op, conns[i])
    BY <1>1, TheOperation
  <1>3. PICK op : ring[i] = <<op>> /\ OpMatches(op, conns[i])
    BY <1>2
  <1>4. n = 1 /\ op.stage = "kernel"
    BY <1>3 DEF At
  <1>5. ClientOf(i) \in Client /\ ClientOf(i) # None /\ conns[i].slot \in Slot
    BY <1>2, Distinct, WorkerAssumption DEF Balanced
  <1>6. IsOp(op) /\ op.slot = conns[i].slot /\ fds[op.fd] = ClientOf(i)
        /\ conns[i].state = IF op.kind = "recv" THEN "Reading" ELSE "Writing"
    BY <1>2, <1>3 DEF OpMatches, ClientOf
  <1>7. ConnOK(conns[i], <<op>>, rmem[conns[i].slot], wmem[conns[i].slot], ClientOf(i),
               nread[ClientOf(i)], got[ClientOf(i)], peer[ClientOf(i)], Owed(i))
    BY <1>2, <1>3 DEF Balanced, Accounts, AccountAt, Holds
  <1>8. op.len # 0
    BY <1>2, <1>7, NonemptyOp
  <1> QED BY <1>2, <1>3, <1>4, <1>5, <1>6, <1>7, <1>8 DEF KernelOp

-------------------------------------------------------------------------------
\* A Recv of connection i takes m cells, or fails; so does a Send.
RecvAs(i, op, m) ==
  LET c == ClientOf(i) IN
  /\ m \in 1 .. op.len /\ nread[c] + m <= Len(Stream(c))
  /\ Completed(i, op, [op EXCEPT !.stage = "cq", !.res = m],
               Overwrite(rmem[conns[i].slot], op.off, SubSeq(Stream(c), nread[c] + 1, nread[c] + m)),
               nread[c] + m, got[c])

SendAs(i, op, m, h) ==
  LET c == ClientOf(i) IN
  /\ m \in 1 .. op.len
  /\ h = IF peer[c] = "hungup" THEN got[c]
                               ELSE got[c] \o SubSeq(wmem[conns[i].slot], op.off + 1, op.off + m)
  /\ Completed(i, op, [op EXCEPT !.stage = "cq", !.res = m], rmem[conns[i].slot], nread[c], h)

FailAs(i, op) ==
  LET c == ClientOf(i) IN
  /\ peer[c] # "open"
  /\ Completed(i, op, [op EXCEPT !.stage = "cq", !.res = 0], rmem[conns[i].slot], nread[c], got[c])

LEMMA RecvStep ==
  ASSUME Ownership, Balanced, NEW i \in Idx, KernelRecv(i)
  PROVE  \E op : KernelOp(i, op) /\ conns[i].state = "Reading"
                   /\ ((\E m : RecvAs(i, op, m)) \/ FailAs(i, op))
  <1>1. PICK n \in At(ring[i], "kernel") :
    LET op == ring[i][n]
        c  == fds[op.fd]
    IN  /\ op.kind = "recv"
        /\ \/ /\ c # None
              /\ \E k \in 1 .. op.len :
                   /\ nread[c] + k <= Len(Stream(c))
                   /\ rmem' = [rmem EXCEPT ![op.slot] =
                        Overwrite(@, op.off, SubSeq(Stream(c), nread[c] + 1, nread[c] + k))]
                   /\ nread' = [nread EXCEPT ![c] = @ + k]
                   /\ Complete(i, n, k)
           \/ /\ (c = None \/ peer[c] = "hungup" \/ op.len = 0)
              /\ Complete(i, n, 0)
              /\ UNCHANGED <<rmem, nread>>
        /\ UNCHANGED <<worker, wmem, acceptOp, acceptCqe, eventfdOp, bridge, fds, peer, got>>
    BY DEF KernelRecv
  <1>2. n = 1 /\ \E op : KernelOp(i, op)
    BY KernelOperation
  <1>3. PICK op : KernelOp(i, op)
    BY <1>2
  <1>4. PICK c, s : c = ClientOf(i) /\ s = conns[i].slot
    OBVIOUS
  <1>5. /\ ring[i] = <<op>> /\ ring[i][1] = op /\ c = fds[op.fd] /\ s = op.slot /\ c \in Client /\ c # None
        /\ op.len # 0 /\ s \in Slot
    BY <1>3, <1>4 DEF KernelOp
  <1>6. /\ op.kind = "recv"
        /\ UNCHANGED <<conns, free, wmem, acceptCqe, tasks, queue, drained, fds, peer, got>>
    BY <1>1, <1>2, <1>5 DEF worker, bridge
  <1>7. /\ got' = [got EXCEPT ![c] = got[c]]
        /\ UNCHANGED rmem => rmem' = [rmem EXCEPT ![s] = rmem[s]]
        /\ UNCHANGED nread => nread' = [nread EXCEPT ![c] = nread[c]]
    BY <1>6 DEF Balanced, NetOK, FreshOK, MemoryTyped
  <1>8. CASE peer[c] = "hungup" /\ Complete(i, 1, 0) /\ UNCHANGED <<rmem, nread>>
    <2>0. PICK mv : mv = [op EXCEPT !.stage = "cq", !.res = 0]
      OBVIOUS
    <2>a. CompletedAs(op, mv, 0)
      BY <2>0 DEF CompletedAs
    <2>b. Becomes(i, mv)
      BY <2>a, <1>5, <1>8, CompleteIs
    <2>1. ring' = [ring EXCEPT ![i] = <<mv>>]
      BY <2>b DEF Becomes
    <2>2. FailAs(i, op)
      BY <1>4, <1>6, <1>7, <1>8, <2>0, <2>1 DEF FailAs, Completed
    <2> QED BY <1>3, <1>6, <2>2 DEF KernelOp
  <1>9. ASSUME NEW k \in 1 .. op.len, nread[c] + k <= Len(Stream(c)),
               rmem' = [rmem EXCEPT ![s] =
                 Overwrite(rmem[s], op.off, SubSeq(Stream(c), nread[c] + 1, nread[c] + k))],
               nread' = [nread EXCEPT ![c] = nread[c] + k], Complete(i, 1, k)
        PROVE  RecvAs(i, op, k)
    <2>0. PICK mv : mv = [op EXCEPT !.stage = "cq", !.res = k]
      OBVIOUS
    <2>a. CompletedAs(op, mv, k)
      BY <2>0 DEF CompletedAs
    <2>b. Becomes(i, mv)
      BY <2>a, <1>5, <1>9, CompleteIs
    <2>1. ring' = [ring EXCEPT ![i] = <<mv>>]
      BY <2>b DEF Becomes
    <2> QED BY <1>4, <1>6, <1>7, <1>9, <2>0, <2>1 DEF RecvAs, Completed
  <1>10. CASE \E k \in 1 .. op.len :
                /\ nread[c] + k <= Len(Stream(c))
                /\ rmem' = [rmem EXCEPT ![s] =
                     Overwrite(rmem[s], op.off, SubSeq(Stream(c), nread[c] + 1, nread[c] + k))]
                /\ nread' = [nread EXCEPT ![c] = nread[c] + k]
                /\ Complete(i, 1, k)
    <2>1. \E m : RecvAs(i, op, m)
      BY <1>9, <1>10
    <2> QED BY <1>3, <1>6, <2>1 DEF KernelOp
  <1>11. \/ peer[c] = "hungup" /\ Complete(i, 1, 0) /\ UNCHANGED <<rmem, nread>>
         \/ \E k \in 1 .. op.len :
                /\ nread[c] + k <= Len(Stream(c))
                /\ rmem' = [rmem EXCEPT ![s] =
                     Overwrite(rmem[s], op.off, SubSeq(Stream(c), nread[c] + 1, nread[c] + k))]
                /\ nread' = [nread EXCEPT ![c] = nread[c] + k]
                /\ Complete(i, 1, k)
    BY <1>1, <1>2, <1>5
  <1> QED BY <1>8, <1>10, <1>11

LEMMA SendStep ==
  ASSUME Ownership, Balanced, NEW i \in Idx, KernelSend(i)
  PROVE  \E op : KernelOp(i, op) /\ conns[i].state = "Writing"
                   /\ ((\E m, h : SendAs(i, op, m, h)) \/ FailAs(i, op))
  <1>1. PICK n \in At(ring[i], "kernel") :
    LET op == ring[i][n]
        c  == fds[op.fd]
    IN  /\ op.kind = "send"
        /\ \/ /\ c # None
              /\ \E k \in 1 .. op.len :
                   /\ got' = IF peer[c] = "hungup" THEN got ELSE
                        [got EXCEPT ![c] = @ \o SubSeq(wmem[op.slot], op.off + 1, op.off + k)]
                   /\ Complete(i, n, k)
           \/ /\ (c = None \/ peer[c] = "hungup" \/ op.len = 0)
              /\ Complete(i, n, 0)
              /\ UNCHANGED got
        /\ UNCHANGED <<worker, memory, acceptOp, acceptCqe, eventfdOp, bridge, fds, peer, nread>>
    BY DEF KernelSend
  <1>2. n = 1 /\ \E op : KernelOp(i, op)
    BY KernelOperation
  <1>3. PICK op : KernelOp(i, op)
    BY <1>2
  <1>4. PICK c, s : c = ClientOf(i) /\ s = conns[i].slot
    OBVIOUS
  <1>5. /\ ring[i] = <<op>> /\ ring[i][1] = op /\ c = fds[op.fd] /\ s = op.slot /\ c \in Client /\ c # None
        /\ op.len # 0 /\ s \in Slot
    BY <1>3, <1>4 DEF KernelOp
  <1>6. /\ op.kind = "send"
        /\ UNCHANGED <<conns, free, rmem, wmem, acceptCqe, tasks, queue, drained, fds, peer, nread>>
    BY <1>1, <1>2, <1>5 DEF worker, memory, bridge
  <1>7. /\ nread' = [nread EXCEPT ![c] = nread[c]] /\ rmem' = [rmem EXCEPT ![s] = rmem[s]]
        /\ UNCHANGED got => got' = [got EXCEPT ![c] = got[c]]
    BY <1>6 DEF Balanced, NetOK, FreshOK, MemoryTyped
  <1>8. CASE peer[c] = "hungup" /\ Complete(i, 1, 0) /\ UNCHANGED got
    <2>0. PICK mv : mv = [op EXCEPT !.stage = "cq", !.res = 0]
      OBVIOUS
    <2>a. CompletedAs(op, mv, 0)
      BY <2>0 DEF CompletedAs
    <2>b. Becomes(i, mv)
      BY <2>a, <1>5, <1>8, CompleteIs
    <2>1. ring' = [ring EXCEPT ![i] = <<mv>>]
      BY <2>b DEF Becomes
    <2>2. FailAs(i, op)
      BY <1>4, <1>6, <1>7, <1>8, <2>0, <2>1 DEF FailAs, Completed
    <2> QED BY <1>3, <1>6, <2>2 DEF KernelOp
  <1>9. ASSUME NEW k \in 1 .. op.len, Complete(i, 1, k),
               got' = IF peer[c] = "hungup" THEN got ELSE
                        [got EXCEPT ![c] = got[c] \o SubSeq(wmem[s], op.off + 1, op.off + k)]
        PROVE  \E h : SendAs(i, op, k, h)
    <2>0. PICK mv : mv = [op EXCEPT !.stage = "cq", !.res = k]
      OBVIOUS
    <2>a. CompletedAs(op, mv, k)
      BY <2>0 DEF CompletedAs
    <2>b. Becomes(i, mv)
      BY <2>a, <1>5, <1>9, CompleteIs
    <2>1. ring' = [ring EXCEPT ![i] = <<mv>>]
      BY <2>b DEF Becomes
    <2>2. PICK h : h = IF peer[c] = "hungup" THEN got[c]
                                             ELSE got[c] \o SubSeq(wmem[s], op.off + 1, op.off + k)
      OBVIOUS
    <2>3. got' = [got EXCEPT ![c] = h]
      BY <1>7, <1>9, <2>2
    <2>4. SendAs(i, op, k, h)
      BY <1>4, <1>6, <1>7, <1>9, <2>0, <2>1, <2>2, <2>3 DEF SendAs, Completed
    <2> QED BY <2>4
  <1>10. CASE \E k \in 1 .. op.len :
                /\ got' = IF peer[c] = "hungup" THEN got ELSE
                     [got EXCEPT ![c] = got[c] \o SubSeq(wmem[s], op.off + 1, op.off + k)]
                /\ Complete(i, 1, k)
    <2>1. \E m, h : SendAs(i, op, m, h)
      BY <1>9, <1>10
    <2> QED BY <1>3, <1>6, <2>1 DEF KernelOp
  <1>11. \/ peer[c] = "hungup" /\ Complete(i, 1, 0) /\ UNCHANGED got
         \/ \E k \in 1 .. op.len :
                /\ got' = IF peer[c] = "hungup" THEN got ELSE
                     [got EXCEPT ![c] = got[c] \o SubSeq(wmem[s], op.off + 1, op.off + k)]
                /\ Complete(i, 1, k)
    BY <1>1, <1>2, <1>5
  <1> QED BY <1>8, <1>10, <1>11

LEMMA SentBalanced ==
  ASSUME Ownership, Balanced, NEW i \in Idx, NEW op, KernelOp(i, op), conns[i].state = "Writing",
         NEW m, NEW h, SendAs(i, op, m, h)
  PROVE  /\ Balanced'
         /\ peer[ClientOf(i)] = "open" => Answers(ClientOf(i), got[ClientOf(i)], h, m, nread[ClientOf(i)])
  <1>1. PICK cn, c, r, w, n, g, p, owed, mv :
          /\ cn = conns[i] /\ c = ClientOf(i) /\ r = rmem[cn.slot] /\ w = wmem[cn.slot]
          /\ n = nread[c] /\ g = got[c] /\ p = peer[c] /\ owed = Owed(i)
          /\ mv = [op EXCEPT !.stage = "cq", !.res = m]
    OBVIOUS
  <1>2. /\ m \in 1 .. op.len /\ Completed(i, op, mv, r, n, h)
        /\ h = IF p = "hungup" THEN g ELSE g \o SubSeq(w, op.off + 1, op.off + m)
    BY <1>1 DEF SendAs
  <1>3. ConnOK(cn, <<op>>, r, w, c, n, g, p, owed) /\ IsOp(op) /\ op.stage = "kernel" /\ i \in DOMAIN conns
    BY <1>1 DEF KernelOp
  <1>4. /\ ConnOK(cn, <<mv>>, r, w, c, n, h, p, owed)
        /\ p = "open" => Answers(c, g, h, m, n)
    <2>1. CompletedAs(op, mv, m) /\ Leaves(op, w, g, p, m, h)
      BY <1>1, <1>2 DEF CompletedAs, Leaves
    <2> QED BY <1>1, <1>2, <1>3, <2>1, SendKeeps
  <1>5. Balanced'
    BY <1>1, <1>2, <1>3, <1>4, CompletedBalanced
  <1> QED BY <1>1, <1>4, <1>5

LEMMA RecvBalanced ==
  ASSUME Ownership, Balanced, NEW i \in Idx, NEW op, KernelOp(i, op), conns[i].state = "Reading",
         NEW m, RecvAs(i, op, m)
  PROVE  Balanced'
  <1>1. PICK cn, c, r, w, n, g, p, owed, mv :
          /\ cn = conns[i] /\ c = ClientOf(i) /\ r = rmem[cn.slot] /\ w = wmem[cn.slot]
          /\ n = nread[c] /\ g = got[c] /\ p = peer[c] /\ owed = Owed(i)
          /\ mv = [op EXCEPT !.stage = "cq", !.res = m]
    OBVIOUS
  <1>2. PICK t : t = Overwrite(r, op.off, SubSeq(Stream(c), n + 1, n + m))
    OBVIOUS
  <1>3. m \in 1 .. op.len /\ n + m <= Len(Stream(c)) /\ Completed(i, op, mv, t, n + m, g)
    BY <1>1, <1>2 DEF RecvAs
  <1>4. ConnOK(cn, <<op>>, r, w, c, n, g, p, owed) /\ IsOp(op) /\ op.stage = "kernel" /\ i \in DOMAIN conns
    BY <1>1 DEF KernelOp
  <1>5. ConnOK(cn, <<mv>>, t, w, c, n + m, g, p, owed)
    BY <1>1, <1>2, <1>3, <1>4, RecvKeeps
  <1> QED BY <1>1, <1>3, <1>4, <1>5, CompletedBalanced

LEMMA FailBalanced ==
  ASSUME Ownership, Balanced, NEW i \in Idx, NEW op, KernelOp(i, op), FailAs(i, op)
  PROVE  Balanced'
  <1>1. PICK cn, c, r, w, n, g, p, owed, mv :
          /\ cn = conns[i] /\ c = ClientOf(i) /\ r = rmem[cn.slot] /\ w = wmem[cn.slot]
          /\ n = nread[c] /\ g = got[c] /\ p = peer[c] /\ owed = Owed(i)
          /\ mv = [op EXCEPT !.stage = "cq", !.res = 0]
    OBVIOUS
  <1>2. p # "open" /\ Completed(i, op, mv, r, n, g)
    BY <1>1 DEF FailAs
  <1>3. ConnOK(cn, <<op>>, r, w, c, n, g, p, owed) /\ IsOp(op) /\ op.stage = "kernel" /\ i \in DOMAIN conns
    BY <1>1 DEF KernelOp
  <1>4. Advances(op, mv, p)
    BY <1>1, <1>2, <1>3 DEF Advances
  <1>5. ConnOK(cn, <<mv>>, r, w, c, n, g, p, owed)
    BY <1>3, <1>4, StageKeeps
  <1> QED BY <1>1, <1>2, <1>3, <1>5, CompletedBalanced

-------------------------------------------------------------------------------
\* Steps outside the worker: its connections and their memory stay.
LEMMA ElsewhereBalanced ==
  ASSUME Balanced, UNCHANGED <<conns, ring, free, rmem, wmem>>, NetOK',
         \A j \in DOMAIN conns : AccountAt(j)'
  PROVE  Balanced'
  <1>1. MemoryTyped' /\ FreeClean'
    BY DEF Balanced, MemoryTyped, FreeClean
  <1> QED BY <1>1 DEF Balanced, Accounts

\* Behind every descriptor of a connection is a client that is connected.
LEMMA Connected ==
  ASSUME Ownership, NetOK, NEW j \in DOMAIN conns
  PROVE  /\ conns[j].fd \in Fd /\ fds[conns[j].fd] # None /\ ClientOf(j) \in Client
         /\ peer[ClientOf(j)] \in {"open", "hungup"}
  <1>1. conns[j].fd \in Fd /\ fds[conns[j].fd] # None /\ ClientOf(j) \in Client
    BY Distinct DEF Open
  <1> QED BY <1>1 DEF NetOK, PeersOK, ClientOf

LEMMA AcceptedNet ==
  ASSUME ArmedOK, NetOK, UNCHANGED conns, NEW c \in Client, NEW fd \in Fd, NEW more \in BOOLEAN,
         peer[c] = "queued", fds[fd] = None, fds' = [fds EXCEPT ![fd] = c],
         peer' = [peer EXCEPT ![c] = "open"],
         acceptCqe' = Append(acceptCqe, [fd |-> fd, more |-> more, stage |-> "cq"]),
         UNCHANGED <<nread, got>>
  PROVE  NetOK'
  <1>1. Open = Held \cup Handed /\ Held \cap Handed = {} /\ HeldOnce /\ HandedOnce
    BY PartitionIs DEF NetOK
  <1>2. fd \notin Open /\ fd # 0 /\ 0 \notin Handed /\ c # None /\ None \notin Client
    BY WorkerAssumption DEF Open, Handed
  <1>3. PICK e : e = [fd |-> fd, more |-> more, stage |-> "cq"]
    OBVIOUS
  <1>4. e \in AcceptCqe /\ e.fd = fd
    BY <1>3 DEF AcceptCqe
  <1>5. Handed' = (Handed \cup {fd}) \ {0} /\ HandedOnce'
    BY <1>1, <1>2, <1>3, <1>4, HandedAppend
  <1>6. Handed' = Handed \cup {fd} /\ fd \notin Handed /\ fd \notin Held
    BY <1>1, <1>2, <1>5
  <1>7. Held' = Held /\ HeldOnce'
    BY <1>1, HeldSame
  <1>8. /\ fds' = [f \in Fd |-> IF f = fd THEN c ELSE fds[f]]
        /\ peer' = [d \in Client |-> IF d = c THEN "open" ELSE peer[d]]
    BY DEF NetOK, PeersOK
  <1>9. \A f \in Fd : fds[f] # c
    BY DEF NetOK, PeersOK
  <1>10. Open' = Open \cup {fd}
    BY <1>2, <1>8 DEF Open
  <1>11. DescriptorPartition'
    <2>1. Open' = Held' \cup Handed' /\ Held' \cap Handed' = {}
      BY <1>1, <1>6, <1>7, <1>10
    <2> QED BY <1>5, <1>7, <2>1 DEF DescriptorPartition, Open, HeldOnce, HandedOnce
  <1>12. PeersOK'
    <2>1. fds' \in [Fd -> Client \cup {None}] /\ peer' \in [Client -> {"off", "queued", "open", "hungup"}]
      BY <1>8 DEF NetOK, PeersOK
    <2>2. ASSUME NEW d \in Client PROVE peer'[d] \in {"open", "hungup"} <=> \E f \in Fd : fds'[f] = d
      <3>1. CASE d = c
        BY <1>8, <3>1
      <3>2. CASE d # c
        <4>1. peer'[d] = peer[d] /\ \A f \in Fd : fds'[f] = d <=> fds[f] = d
          BY <1>2, <1>8, <3>2
        <4> QED BY <4>1 DEF NetOK, PeersOK
      <3> QED BY <3>1, <3>2
    <2>3. \A f, h \in Fd : fds'[f] # None /\ fds'[f] = fds'[h] => f = h
      <3>1. \A f, h \in Fd : fds[f] # None /\ fds[f] = fds[h] => f = h
        BY DEF NetOK, PeersOK
      <3> QED BY <1>8, <1>9, <3>1
    <2> QED BY <2>1, <2>2, <2>3 DEF PeersOK
  <1>13. FreshOK'
    <2>1. \A f \in Handed : f \in Fd /\ f # fd
      BY <1>1, <1>6 DEF Open
    <2>2. \A d \in Client : peer'[d] = "queued" => peer[d] = "queued"
      BY <1>8
    <2>3. Fresh(c)
      BY DEF NetOK, FreshOK
    <2>4. \A f \in Handed' : Fresh(fds'[f])
      BY <1>6, <1>8, <2>1, <2>3 DEF NetOK, FreshOK
    <2> QED BY <2>2, <2>4 DEF NetOK, FreshOK, Fresh
  <1> QED BY <1>11, <1>12, <1>13 DEF NetOK

LEMMA KernelAcceptBalanced ==
  ASSUME Ownership, ArmedOK, Balanced, NEW c \in Client, KernelAccept(c)
  PROVE  Balanced'
  <1>1. PICK fd \in Fd, more \in BOOLEAN :
          /\ peer[c] = "queued" /\ fds[fd] = None
          /\ fds' = [fds EXCEPT ![fd] = c] /\ peer' = [peer EXCEPT ![c] = "open"]
          /\ acceptCqe' = Append(acceptCqe, [fd |-> fd, more |-> more, stage |-> "cq"])
          /\ UNCHANGED <<worker, memory, ring, bridge, nread, got>>
    BY DEF KernelAccept
  <1>2. UNCHANGED <<conns, free, rmem, wmem, ring, tasks, queue, drained, nread, got>>
    BY <1>1 DEF worker, memory, bridge
  <1>3. NetOK'
    BY <1>1, <1>2, AcceptedNet DEF Balanced
  <1>4. ASSUME NEW j \in DOMAIN conns PROVE AccountAt(j)'
    <2>1. conns[j].fd \in Fd /\ fds[conns[j].fd] # None /\ ClientOf(j) # c
      BY <1>1, Connected DEF Balanced
    <2>2. fds'[conns[j].fd] = fds[conns[j].fd] /\ peer'[ClientOf(j)] = peer[ClientOf(j)]
      BY <1>1, <2>1 DEF Balanced, NetOK, PeersOK
    <2>3. Owed(j)' = Owed(j)
      BY <1>2, OwedSame
    <2>4. Apart(j)
      BY <1>2, <2>2, <2>3 DEF Apart
    <2> QED BY <2>4, ApartKeeps DEF Balanced, Accounts
  <1> QED BY <1>2, <1>3, <1>4, ElsewhereBalanced

LEMMA ConnectBalanced ==
  ASSUME Ownership, Balanced, NEW c \in Client, Connect(c)
  PROVE  Balanced'
  <1>1. /\ peer[c] = "off" /\ peer' = [peer EXCEPT ![c] = "queued"]
        /\ nread' = [nread EXCEPT ![c] = 0] /\ got' = [got EXCEPT ![c] = <<>>]
        /\ UNCHANGED <<conns, free, rmem, wmem, ring, acceptCqe, tasks, queue, drained, fds>>
    BY DEF Connect, worker, memory, uring, bridge
  <1>2. /\ peer' = [d \in Client |-> IF d = c THEN "queued" ELSE peer[d]]
        /\ nread' = [d \in Client |-> IF d = c THEN 0 ELSE nread[d]]
        /\ got' = [d \in Client |-> IF d = c THEN <<>> ELSE got[d]]
    BY <1>1 DEF Balanced, NetOK, PeersOK, FreshOK
  <1>3. \A f \in Fd : fds[f] # c
    BY <1>1 DEF Balanced, NetOK, PeersOK
  <1>4. Held' = Held /\ Handed' = Handed
    BY <1>1 DEF Held, Handed
  <1>5. PeersOK' /\ DescriptorPartition'
    <2>1. DescriptorPartition'
      BY <1>1, <1>4 DEF Balanced, NetOK, DescriptorPartition
    <2>2. peer' \in [Client -> {"off", "queued", "open", "hungup"}]
      BY <1>2 DEF Balanced, NetOK, PeersOK
    <2>3. \A d \in Client : peer'[d] \in {"open", "hungup"} <=> peer[d] \in {"open", "hungup"}
      BY <1>1, <1>2
    <2> QED BY <1>1, <2>1, <2>2, <2>3 DEF Balanced, NetOK, PeersOK
  <1>6. FreshOK'
    <2>1. \A f \in Handed : f \in Fd /\ fds[f] \in Client \ {c}
      <3>1. \A f \in Handed : f \in Open
        BY PartitionIs DEF Balanced, NetOK
      <3> QED BY <1>3, <3>1 DEF Open, Balanced, NetOK, PeersOK
    <2>2. \A f \in Handed' : Fresh(fds[f])'
      BY <1>1, <1>2, <1>4, <2>1 DEF Balanced, NetOK, FreshOK, Fresh
    <2>3. \A d \in Client : peer'[d] = "queued" => Fresh(d)'
      BY <1>2 DEF Balanced, NetOK, FreshOK, Fresh
    <2>4. nread' = [d \in Client |-> nread'[d]] /\ got' = [d \in Client |-> got'[d]]
      BY <1>2
    <2> QED BY <2>2, <2>3, <2>4 DEF FreshOK
  <1>7. ASSUME NEW j \in DOMAIN conns PROVE AccountAt(j)'
    <2>1. ClientOf(j) \in Client \ {c}
      BY <1>3, Connected DEF Balanced, ClientOf
    <2>2. Owed(j)' = Owed(j)
      BY <1>1, OwedSame
    <2>3. Apart(j)
      BY <1>1, <1>2, <2>1, <2>2 DEF Apart
    <2> QED BY <2>3, ApartKeeps DEF Balanced, Accounts
  <1> QED BY <1>1, <1>5, <1>6, <1>7, ElsewhereBalanced DEF NetOK

LEMMA HangUpBalanced ==
  ASSUME Ownership, Balanced, NEW c \in Client, HangUp(c)
  PROVE  Balanced'
  <1>1. /\ peer[c] = "open" /\ peer' = [peer EXCEPT ![c] = "hungup"]
        /\ UNCHANGED <<conns, free, rmem, wmem, ring, acceptCqe, tasks, queue, drained, fds, nread, got>>
    BY DEF HangUp, worker, memory, uring, bridge
  <1>2. peer' = [d \in Client |-> IF d = c THEN "hungup" ELSE peer[d]]
    BY <1>1 DEF Balanced, NetOK, PeersOK
  <1>3. Held' = Held /\ Handed' = Handed
    BY <1>1 DEF Held, Handed
  <1>4. NetOK'
    <2>1. DescriptorPartition'
      BY <1>1, <1>3 DEF Balanced, NetOK, DescriptorPartition
    <2>2. peer' \in [Client -> {"off", "queued", "open", "hungup"}]
      BY <1>2 DEF Balanced, NetOK, PeersOK
    <2>3. \A d \in Client : /\ peer'[d] \in {"open", "hungup"} <=> peer[d] \in {"open", "hungup"}
                            /\ peer'[d] = "queued" => peer[d] = "queued"
      BY <1>1, <1>2
    <2>4. PeersOK'
      BY <1>1, <2>2, <2>3 DEF Balanced, NetOK, PeersOK
    <2>5. FreshOK'
      BY <1>1, <1>3, <2>3 DEF Balanced, NetOK, FreshOK, Fresh
    <2> QED BY <2>1, <2>4, <2>5 DEF NetOK
  <1>5. ASSUME NEW j \in DOMAIN conns PROVE AccountAt(j)'
    <2>1. Owed(j)' = Owed(j) /\ ClientOf(j) \in Client
      BY <1>1, OwedSame, Connected DEF Balanced
    <2>2. CASE ClientOf(j) # c
      <3>1. Apart(j)
        BY <1>1, <1>2, <2>1, <2>2 DEF Apart
      <3> QED BY <3>1, ApartKeeps DEF Balanced, Accounts
    <2>3. CASE ClientOf(j) = c
      <3>1. PICK cn, ops, r, w, n, g, p, owed :
              /\ cn = conns[j] /\ ops = ring[j] /\ r = rmem[cn.slot] /\ w = wmem[cn.slot]
              /\ n = nread[c] /\ g = got[c] /\ p = peer[c] /\ owed = Owed(j)
        OBVIOUS
      <3>2. ConnOK(cn, ops, r, w, c, n, g, p, owed)
        BY <2>3, <3>1 DEF Balanced, Accounts, AccountAt, Holds
      <3>3. ConnOK(cn, ops, r, w, c, n, g, "hungup", owed)
        BY <3>2, HungUpKeeps
      <3>4. peer'[c] = "hungup"
        BY <1>2
      <3> QED BY <1>1, <2>1, <2>3, <3>1, <3>3, <3>4 DEF AccountAt, Holds, ClientOf
    <2> QED BY <2>2, <2>3
  <1> QED BY <1>1, <1>4, <1>5, ElsewhereBalanced

-------------------------------------------------------------------------------
LEMMA BalancedInit == Init => Balanced
  <1> SUFFICES ASSUME Init PROVE Balanced
    OBVIOUS
  <1>1. DOMAIN conns = {} /\ DOMAIN acceptCqe = {}
    BY DEF Init
  <1>2. Held = {} /\ Handed = {}
    BY <1>1 DEF Held, Handed
  <1>3. NetOK
    <2>1. PeersOK
      BY WorkerAssumption DEF Init, PeersOK
    <2>2. FreshOK
      BY <1>2 DEF Init, FreshOK, Fresh
    <2>3. {f \in Fd : fds[f] # None} = {}
      BY DEF Init
    <2>4. DescriptorPartition
      BY <1>1, <1>2, <2>3 DEF DescriptorPartition
    <2> QED BY <2>1, <2>2, <2>4 DEF NetOK
  <1>4. MemoryTyped
    BY DEF Init, MemoryTyped
  <1>5. FreeClean
    <2>1. free = [n \in 1 .. SlotCount |-> SlotCount - n] /\ SlotCount \in Nat
      BY WorkerAssumption DEF Init
    <2>2. \A n \in DOMAIN free : free[n] \in Slot
      BY <2>1 DEF Slot
    <2> QED BY <2>2 DEF Init, FreeClean
  <1>6. Accounts
    BY <1>1 DEF Accounts
  <1> QED BY <1>3, <1>4, <1>5, <1>6 DEF Balanced

LEMMA SubmitBalanced ==
  ASSUME Ownership, Balanced, Submit
  PROVE  Balanced'
  <1>1. ring' = [i \in Idx |-> Restage(ring[i], "sq", "kernel")]
        /\ UNCHANGED <<conns, free, rmem, wmem, fds, peer, nread, got, tasks, queue, drained, acceptCqe>>
    BY DEF Submit, worker, memory, bridge, net
  <1>2. Handed' = Handed /\ HandedOnce'
    <2>1. HandedOnce
      BY PartitionIs DEF Balanced, NetOK
    <2> QED BY <1>1, <2>1, HandedSame
  <1>3. PICK from, to : from = "sq" /\ to = "kernel"
    OBVIOUS
  <1>4. Balanced'
    BY <1>1, <1>2, <1>3, RestageBalanced
  <1> QED BY <1>4

LEMMA CollectBalanced ==
  ASSUME Ownership, ArmedOK, Balanced, Collect
  PROVE  Balanced'
  <1>1. ring' = [i \in Idx |-> Restage(ring[i], "cq", "batch")]
        /\ acceptCqe' = Restage(acceptCqe, "cq", "batch")
        /\ UNCHANGED <<conns, free, rmem, wmem, fds, peer, nread, got, tasks, queue, drained>>
    BY DEF Collect, worker, memory, bridge, net
  <1>2. Handed' = Handed /\ HandedOnce'
    <2>1. HandedOnce
      BY PartitionIs DEF Balanced, NetOK
    <2> QED BY <1>1, <2>1, HandedRestage
  <1>3. PICK from, to : from = "cq" /\ to = "batch"
    OBVIOUS
  <1>4. Balanced'
    BY <1>1, <1>2, <1>3, RestageBalanced
  <1> QED BY <1>4

LEMMA ConnBalanced ==
  ASSUME Ownership, BridgeOK, Balanced, NEW i \in Idx, HandleConn(i)
  PROVE  Balanced'
  <1>1. i \in DOMAIN conns => AccountAt(i)
    BY DEF Balanced, Accounts
  <1>2. i \in DOMAIN conns /\ ~Parked(i) /\ (Keeps(i) \/ Closes(i))
    BY <1>1, ConnResult DEF Balanced
  <1>3. i \notin Waiting
    BY <1>2 DEF Parked, Waiting
  <1>4. CASE Keeps(i)
    BY <1>2, <1>3, <1>4, KeptBalanced DEF BridgeOK
  <1>5. CASE Closes(i)
    <2>1. /\ Freed(i) /\ ring' = [ring EXCEPT ![i] = <<>>]
          /\ UNCHANGED <<acceptCqe, tasks, queue, drained>>
      BY <1>5 DEF Closes
    <2>2. \A j \in DOMAIN conns \ {i} : Owed(j)' = Owed(j)
      BY <2>1, OwedSame
    <2> QED BY <1>2, <2>1, <2>2, FreedBalanced
  <1> QED BY <1>2, <1>4, <1>5

LEMMA RingBalanced ==
  ASSUME Ownership, Balanced, NEW i \in Idx, KernelRecv(i) \/ KernelSend(i)
  PROVE  Balanced'
  <1>1. CASE KernelRecv(i)
    <2>1. PICK op : KernelOp(i, op) /\ conns[i].state = "Reading"
                      /\ ((\E m : RecvAs(i, op, m)) \/ FailAs(i, op))
      BY <1>1, RecvStep
    <2> QED BY <2>1, RecvBalanced, FailBalanced
  <1>2. CASE KernelSend(i)
    <2>1. PICK op : KernelOp(i, op) /\ conns[i].state = "Writing"
                      /\ ((\E m, h : SendAs(i, op, m, h)) \/ FailAs(i, op))
      BY <1>2, SendStep
    <2> QED BY <2>1, SentBalanced, FailBalanced
  <1> QED BY <1>1, <1>2

\* The accept failed, or the eventfd was read: no connection is concerned.
LEMMA SystemBalanced ==
  ASSUME ArmedOK, Balanced, KernelAcceptError \/ KernelEventfd \/ UNCHANGED vars
  PROVE  Balanced'
  <1>1. UNCHANGED <<conns, ring, free, rmem, wmem, fds, peer, nread, got, tasks, queue, drained>>
    BY DEF KernelAcceptError, KernelEventfd, vars, worker, memory, uring, bridge, net
  <1>2. HandedOnce
    BY PartitionIs DEF Balanced, NetOK
  <1>3. Handed' = Handed /\ HandedOnce'
    <2>1. CASE KernelAcceptError
      <3>1. PICK e : e = [fd |-> 0, more |-> FALSE, stage |-> "cq"]
        OBVIOUS
      <3>2. e \in AcceptCqe /\ e.fd = 0
        BY <3>1 DEF AcceptCqe
      <3>3. acceptCqe' = Append(acceptCqe, e)
        BY <2>1, <3>1 DEF KernelAcceptError
      <3>4. 0 \notin Handed /\ 0 \in Fd \cup {0}
        BY DEF Handed
      <3>5. Handed' = (Handed \cup {0}) \ {0} /\ HandedOnce'
        BY <1>2, <3>2, <3>3, <3>4, HandedAppend
      <3> QED BY <3>4, <3>5
    <2>2. CASE UNCHANGED acceptCqe
      BY <1>2, <2>2, HandedSame
    <2> QED BY <2>1, <2>2 DEF KernelEventfd, vars, uring
  <1>4. \A j \in DOMAIN conns : Owed(j)' = Owed(j)
    BY <1>1, OwedSame
  <1> QED BY <1>1, <1>3, <1>4, StillBalanced

LEMMA BalancedStep ==
  Ownership /\ ArmedOK /\ BridgeOK /\ Balanced /\ [Next]_vars => Balanced'
  <1> SUFFICES ASSUME Ownership, ArmedOK, BridgeOK, Balanced, [Next]_vars
               PROVE  Balanced'
    OBVIOUS
  <1>1. CASE Submit
    BY <1>1, SubmitBalanced
  <1>2. CASE Collect
    BY <1>2, CollectBalanced
  <1>3. CASE HandleAccept
    BY <1>3, AcceptBalanced
  <1>4. CASE Drain
    BY <1>4, BridgeBalanced
  <1>5. CASE Deliver
    BY <1>5, DeliverBalanced
  <1>6. ASSUME NEW i \in Idx, HandleConn(i) PROVE Balanced'
    BY <1>6, ConnBalanced
  <1>7. ASSUME NEW t \in tasks, TaskPush(t) PROVE Balanced'
    BY <1>7, PushBalanced
  <1>8. ASSUME NEW t \in tasks, TaskSignal(t) PROVE Balanced'
    BY <1>8, BridgeBalanced
  <1>9. ASSUME NEW i \in Idx, KernelRecv(i) \/ KernelSend(i) PROVE Balanced'
    BY <1>9, RingBalanced
  <1>10. ASSUME NEW c \in Client, KernelAccept(c) PROVE Balanced'
    BY <1>10, KernelAcceptBalanced
  <1>11. CASE KernelAcceptError \/ KernelEventfd \/ UNCHANGED vars
    BY <1>11, SystemBalanced
  <1>12. ASSUME NEW c \in Client, Connect(c) PROVE Balanced'
    BY <1>12, ConnectBalanced
  <1>13. ASSUME NEW c \in Client, HangUp(c) PROVE Balanced'
    BY <1>13, HangUpBalanced
  <1>14. CASE Next
    BY <1>1, <1>2, <1>3, <1>4, <1>5, <1>6, <1>7, <1>8, <1>9, <1>10, <1>11, <1>12, <1>13, <1>14
       DEF Next, WorkerStep, TokioStep, KernelStep, ClientStep
  <1> QED BY <1>11, <1>14

(***************************************************************************)
(* Every connection's account balances, always: the bytes it read, the     *)
(* bytes it answered and the bytes it still holds add up to its client's   *)
(* script, whatever the sizes of the regions, the number of slots and the  *)
(* scripts (connection.rs:101-382, 504-541).                               *)
(***************************************************************************)
THEOREM BalancedInvariant == Spec => []Balanced
  BY BalancedInit, BalancedStep, OwnershipInvariant, ArmedInvariant, BridgeInvariant, PTL DEF Spec

(***************************************************************************)
(* Every open descriptor has one owner: none is left open when a           *)
(* connection goes or when there is no slot for a new one, and none is     *)
(* closed twice (accept.rs:107-139, connection.rs:384-397).                *)
(***************************************************************************)
THEOREM DescriptorsPartitioned == Spec => []DescriptorPartition
  <1>1. Balanced => DescriptorPartition
    BY DEF Balanced, NetOK
  <1> QED BY <1>1, BalancedInvariant, PTL

\* Both, as the instances check them.
THEOREM ResourcesPartitioned == Spec => []ResourcePartition
  BY SlotsPartitioned, DescriptorsPartitioned, PTL DEF ResourcePartition

-------------------------------------------------------------------------------
\* The result of a completed operation is what is done and not yet seen.
LEMMA DoneIs ==
  ASSUME NEW i, NEW op, ring[i] = <<op>>, IsOp(op), NEW p, OpStage(op, p), NEW kind
  PROVE  Done(i, kind) = IF op.kind = kind THEN op.res ELSE 0
  <1>1. DOMAIN ring[i] = {1} /\ ring[i][1] = op
    OBVIOUS
  <1>2. op.stage \in {"sq", "kernel", "cq", "batch"}
    BY DEF IsOp, Stage
  <1>3. op.stage \in {"sq", "kernel"} => op.res = 0
    BY DEF OpStage
  <1> QED BY <1>1, <1>2, <1>3 DEF Done

\* What is known of connection i, with a witness for the requests it consumed.
LEMMA AccountOf ==
  ASSUME Ownership, Balanced, NEW i \in DOMAIN conns
  PROVE  /\ IsConn(conns[i]) /\ i \in Idx /\ ClientOf(i) \in Client /\ got[ClientOf(i)] \in Seq(Cell)
         /\ \E k : ConnAt(conns[i], ring[i], rmem[conns[i].slot], wmem[conns[i].slot], ClientOf(i),
                          nread[ClientOf(i)], got[ClientOf(i)], peer[ClientOf(i)], Owed(i), k)
         /\ IF Parked(i) THEN ring[i] = <<>> /\ conns[i].state = "AwaitingAsync"
                         ELSE \E op : ring[i] = <<op>> /\ OpMatches(op, conns[i])
  <1>1. IsConn(conns[i]) /\ i \in Idx
    BY DEF Ownership, SlabOK
  <1>2. ConnOK(conns[i], ring[i], rmem[conns[i].slot], wmem[conns[i].slot], ClientOf(i),
               nread[ClientOf(i)], got[ClientOf(i)], peer[ClientOf(i)], Owed(i))
    BY DEF Balanced, Accounts, AccountAt, Holds
  <1>3. IF Parked(i) THEN ring[i] = <<>> /\ conns[i].state = "AwaitingAsync"
                     ELSE \E op : ring[i] = <<op>> /\ OpMatches(op, conns[i])
    <2>1. conns[i].state \in {"Reading", "Writing", "AwaitingAsync"}
      BY <1>1 DEF IsConn, States
    <2>2. RingAt(i)
      BY <1>1 DEF Ownership, RingOK
    <2> QED BY <2>1, <2>2 DEF RingAt, Busy, Reading, Writing, Parked
  <1> QED BY <1>1, <1>2, <1>3 DEF ConnOK

\* The ledger of connection i.
LEMMA LedgerAt ==
  ASSUME Ownership, Balanced, NEW i \in DOMAIN conns, peer[fds[conns[i].fd]] = "open"
  PROVE  LET cn   == conns[i]
             c    == fds[cn.fd]
             held == cn.read_filled + Done(i, "recv")
             used == nread[c] - held
             unsent == SubSeq(wmem[cn.slot], cn.write_offset + Done(i, "send") + 1, cn.write_filled)
         IN  /\ SubSeq(rmem[cn.slot], 1, held) = SubSeq(Stream(c), used + 1, nread[c])
             /\ \E k \in 0 .. Len(Script[c]) :
                  /\ used = Len(RequestCells(c, k))
                  /\ got[c] \o unsent = ReplyCells(c, IF Parked(i) THEN k - 1 ELSE k)
                  /\ \A e \in Owed(i) : e.c = c /\ e.k = k
  <1>0. PICK cn, c, ops, r, w, n, g, owed, held, sent :
        /\ cn = conns[i] /\ c = fds[cn.fd] /\ ops = ring[i] /\ r = rmem[cn.slot] /\ w = wmem[cn.slot]
        /\ n = nread[c] /\ g = got[c] /\ owed = Owed(i)
        /\ held = cn.read_filled + Done(i, "recv") /\ sent = Done(i, "send")
    OBVIOUS
  <1>1. /\ IsConn(cn) /\ c \in Client /\ g \in Seq(Cell)
        /\ \E k : ConnAt(cn, ops, r, w, c, n, g, "open", owed, k)
        /\ IF Parked(i) THEN ops = <<>> /\ cn.state = "AwaitingAsync"
                        ELSE \E op : ops = <<op>> /\ OpMatches(op, cn)
    BY <1>0, AccountOf DEF ClientOf
  <1>2. PICK k : ConnAt(cn, ops, r, w, c, n, g, "open", owed, k)
    BY <1>1
  <1>3. Consistent(c, k, r, n) /\ \A e \in owed : e.c = c /\ e.k = k
    BY <1>2 DEF ConnAt
  <1>4. /\ k \in 0 .. NumReqs(c) /\ ReqEnd(c, k) \in Nat /\ r \in Seq(Cell) /\ Len(r) \in Nat /\ n \in Nat
        /\ r = SubSeq(Stream(c), ReqEnd(c, k) + 1, n) /\ n = ReqEnd(c, k) + Len(r)
    <2>1. n = ReqEnd(c, k) + Len(r)
      BY <1>3 DEF Consistent
    <2> QED BY <1>1, <1>3, <2>1, ConsistentTyped
  <1>5. /\ held = Len(r)
        /\ g \o SubSeq(w, cn.write_offset + sent + 1, cn.write_filled)
             = ReplyCells(c, IF Parked(i) THEN k - 1 ELSE k)
    <2>1. CASE Parked(i)
      <3>1. cn.state = "AwaitingAsync" /\ ops = <<>>
        BY <1>1, <2>1
      <3>2. ParkedOK(cn, r, w, c, k, g, "open")
        BY <1>2, <3>1 DEF ConnAt
      <3>3. held = cn.read_filled + 0 /\ sent = 0
        BY <1>0, <3>1 DEF Done
      <3>4. g \o SubSeq(<<>>, 0 + 0 + 1, 0) = g
        BY <1>1, SubSeqEmpty, ConcatEmptySeq
      <3>5. /\ cn.read_filled = Len(r) /\ w = <<>> /\ cn.write_filled = 0 /\ cn.write_offset = 0
            /\ g = ReplyCells(c, k - 1)
        BY <3>2 DEF ParkedOK
      <3>6. held = Len(r)
        BY <1>4, <3>3, <3>5
      <3> QED BY <2>1, <3>3, <3>4, <3>5, <3>6
    <2>2. CASE ~Parked(i) /\ cn.state = "Reading"
      <3>1. PICK op : ops = <<op>> /\ OpMatches(op, cn)
        BY <1>1, <2>2
      <3>2. ReadingOK(cn, op, r, w, c, k, g, "open") /\ IsOp(op) /\ op.kind = "recv"
        BY <1>2, <2>2, <3>1 DEF ConnAt, OpMatches
      <3>3. held = cn.read_filled + op.res /\ sent = 0
        <4>1. OpStage(op, "open")
          BY <3>2 DEF ReadingOK
        <4> QED BY <1>0, <3>1, <3>2, <4>1, DoneIs
      <3>4. g \o SubSeq(<<>>, 0 + 0 + 1, 0) = g
        BY <1>1, SubSeqEmpty, ConcatEmptySeq
      <3>5. /\ Len(r) = cn.read_filled + op.res /\ w = <<>> /\ cn.write_filled = 0 /\ cn.write_offset = 0
            /\ g = ReplyCells(c, k)
        BY <3>2 DEF ReadingOK
      <3> QED BY <2>2, <3>3, <3>4, <3>5
    <2>3. CASE ~Parked(i) /\ cn.state = "Writing"
      <3>1. PICK op : ops = <<op>> /\ OpMatches(op, cn)
        BY <1>1, <2>3
      <3>2. WritingOK(cn, op, r, w, c, k, g, "open") /\ IsOp(op) /\ op.kind = "send"
        BY <1>2, <2>3, <3>1 DEF ConnAt, OpMatches
      <3>3. held = cn.read_filled + 0 /\ sent = op.res
        <4>1. OpStage(op, "open")
          BY <3>2 DEF WritingOK
        <4> QED BY <1>0, <3>1, <3>2, <4>1, DoneIs
      <3>4. /\ cn.read_filled = Len(r) /\ cn.write_filled = Len(w)
            /\ g \o SubSeq(w, cn.write_offset + op.res + 1, Len(w)) = ReplyCells(c, k)
        BY <3>2 DEF WritingOK
      <3>5. cn.read_filled = Len(r)
        BY <3>2 DEF WritingOK
      <3>6. held = Len(r)
        BY <1>4, <3>3, <3>5
      <3> QED BY <2>3, <3>3, <3>4, <3>6
    <2>4. ~Parked(i) => cn.state \in {"Reading", "Writing"}
      BY <1>0, <1>1 DEF IsConn, States, Parked
    <2> QED BY <2>1, <2>2, <2>3, <2>4
  <1>6. n - held = ReqEnd(c, k) /\ SubSeq(r, 1, held) = r
    <2>1. n - held = ReqEnd(c, k)
      BY <1>4, <1>5
    <2> QED BY <1>4, <1>5, <2>1, SubSeqFull
  <1>7. n - held = Len(RequestCells(c, k)) /\ k \in 0 .. Len(Script[c])
    BY <1>4, <1>6 DEF ReqEnd, NumReqs
  <1> QED BY <1>0, <1>3, <1>4, <1>5, <1>6, <1>7

\* What a response on its way is awaited for, as the ledger counts it.
LEMMA OwedIs ==
  ASSUME NEW i
  PROVE  {x.req : x \in {y \in {t \in tasks : t.pc = "run"} \cup ToSet(Undelivered) : y.slot_id = i}}
           = Owed(i)
  BY DEF Owed, Running, ToSet

LEMMA LedgerImplied == Ownership /\ Balanced => Ledger
  <1> SUFFICES ASSUME Ownership, Balanced, NEW i \in DOMAIN conns, peer[fds[conns[i].fd]] = "open"
               PROVE  Ledger!(i)!2
    BY DEF Ledger
  <1> QED BY LedgerAt, OwedIs

(***************************************************************************)
(* No byte of a client that is connected is lost, duplicated or reordered  *)
(* on its way through the worker: what it has been sent, what waits in the *)
(* write region, what a handler still owes and what waits in the read      *)
(* region are, together, the answers to its script in order                *)
(* (connection.rs:101-382).                                                *)
(***************************************************************************)
THEOREM LedgerKept == Spec => []Ledger
  BY BalancedInvariant, OwnershipInvariant, LedgerImplied, PTL

-------------------------------------------------------------------------------
LEMMA RegionsAt ==
  ASSUME Ownership, Balanced, NEW i \in DOMAIN conns
  PROVE  /\ Len(rmem[conns[i].slot]) <= ReadRegion /\ Len(wmem[conns[i].slot]) <= WriteRegion
         /\ \A n \in DOMAIN ring[i] : ring[i][n].len > 0
  <1>0. PICK cn, ops, r, w, c, n, g, p, owed :
          /\ cn = conns[i] /\ ops = ring[i] /\ r = rmem[cn.slot] /\ w = wmem[cn.slot] /\ c = ClientOf(i)
          /\ n = nread[c] /\ g = got[c] /\ p = peer[c] /\ owed = Owed(i)
    OBVIOUS
  <1>1. /\ IsConn(cn) /\ ConnOK(cn, ops, r, w, c, n, g, p, owed)
        /\ IF Parked(i) THEN ops = <<>> /\ cn.state = "AwaitingAsync"
                        ELSE \E op : ops = <<op>> /\ OpMatches(op, cn)
    BY <1>0, AccountOf DEF Balanced, Accounts, AccountAt, Holds
  <1>2. PICK k : ConnAt(cn, ops, r, w, c, n, g, p, owed, k)
    BY <1>1 DEF ConnOK
  <1>3. Len(r) <= ReadRegion
    BY <1>2 DEF ConnAt, Consistent
  <1>4. Len(<<>>) <= WriteRegion
    BY PipelineAssumption
  <1>5. CASE cn.state = "AwaitingAsync"
    <2>1. w = <<>>
      BY <1>2, <1>5 DEF ConnAt, ParkedOK
    <2>2. ops = <<>>
      BY <1>0, <1>1, <1>5 DEF Parked
    <2> QED BY <1>0, <1>3, <1>4, <2>1, <2>2
  <1>6. CASE cn.state \in {"Reading", "Writing"}
    <2>1. PICK op : ops = <<op>> /\ IsOp(op)
      BY <1>0, <1>1, <1>6 DEF Parked, OpMatches
    <2>2. Len(w) <= WriteRegion
      BY <1>2, <1>4, <1>6 DEF ConnAt, ReadingOK, WritingOK
    <2>3. op.len > 0
      <3>1. CASE cn.state = "Reading"
        <4>1. /\ cn.read_filled \in Nat /\ cn.read_filled < ReadRegion
              /\ op.len = ReadRegion - cn.read_filled /\ ReadRegion \in Nat
          BY <1>2, <2>1, <3>1, PipelineAssumption DEF ConnAt, ReadingOK
        <4> QED BY <4>1
      <3>2. CASE cn.state = "Writing"
        <4>1. /\ w \in Seq(Cell) /\ cn.write_offset \in Nat /\ cn.write_offset < Len(w)
              /\ op.len = Len(w) - cn.write_offset
          BY <1>2, <2>1, <3>2 DEF ConnAt, WritingOK
        <4>2. Len(w) \in Nat
          BY <4>1, LenProperties
        <4> QED BY <4>1, <4>2
      <3> QED BY <1>6, <3>1, <3>2
    <2> QED BY <1>0, <1>3, <2>1, <2>2, <2>3
  <1> QED BY <1>1, <1>5, <1>6 DEF IsConn, States

LEMMA RegionsImplied == Ownership /\ Balanced => RegionsRespected
  <1> SUFFICES ASSUME Ownership, Balanced PROVE RegionsRespected
    OBVIOUS
  <1>1. ASSUME NEW s \in Slot PROVE Len(rmem[s]) <= ReadRegion /\ Len(wmem[s]) <= WriteRegion
    <2>1. CASE \E n \in DOMAIN free : free[n] = s
      <3>1. rmem[s] = <<>> /\ wmem[s] = <<>>
        BY <2>1 DEF Balanced, FreeClean
      <3>2. 0 <= ReadRegion /\ 0 <= WriteRegion
        BY PipelineAssumption
      <3> QED BY <3>1, <3>2
    <2>2. CASE \E i \in DOMAIN conns : conns[i].slot = s
      BY <2>2, RegionsAt
    <2> QED BY <2>1, <2>2 DEF Ownership, SlotPartition
  <1>2. ASSUME NEW i \in Idx, NEW n \in DOMAIN ring[i] PROVE ring[i][n].len > 0
    <2>1. CASE i \in DOMAIN conns
      BY <2>1, RegionsAt
    <2>2. CASE i \notin DOMAIN conns
      <3>1. ring[i] = <<>>
        BY <2>2 DEF Ownership, RingOK, RingAt, Busy, Reading, Writing
      <3> QED BY <3>1
    <2> QED BY <2>1, <2>2
  <1> QED BY <1>1, <1>2 DEF RegionsRespected

(***************************************************************************)
(* No Recv or Send is staged with a length of zero, which the completion   *)
(* handler would take for the end of the stream, and none reaches past its *)
(* region (connection.rs:68-99, 110).                                      *)
(***************************************************************************)
THEOREM RegionsKept == Spec => []RegionsRespected
  BY BalancedInvariant, OwnershipInvariant, RegionsImplied, PTL

-------------------------------------------------------------------------------
(***************************************************************************)
(* The refinement. With the service's variables those of the network       *)
(* (nread, got, peer): accepting, reading and sending are steps of the     *)
(* service, a connection that Closes is one because of Refused, and        *)
(* whatever else the worker does the client cannot see.                    *)
(***************************************************************************)
\* The service is stated with the same requests and responses.
LEMMA ServiceData ==
  /\ \A c, n : Service!RequestCells(c, n) = RequestCells(c, n)
  /\ \A c, n : Service!ReplyCells(c, n) = ReplyCells(c, n)
  /\ \A c : Service!Stream(c) = Stream(c) /\ Service!Replies(c) = Replies(c)
  /\ \A r : Service!Unavailable(r) = Unavailable(r) /\ Service!RespLen(r) = RespLen(r)
  /\ Service!svars = <<peer, nread, got>>
  <1>1. \A c, n : Service!RequestCells(c, n) = RequestCells(c, n)
    BY DEF Service!RequestCells, RequestCells, Service!FlattenSeq, FlattenSeq, Service!Pieces, Pieces
  <1>2. \A r : Service!Unavailable(r) = Unavailable(r) /\ Service!RespLen(r) = RespLen(r)
    BY DEF Service!Unavailable, Unavailable, Service!RespLen, RespLen
  <1>3. \A c, n : Service!ReplyCells(c, n) = ReplyCells(c, n)
    BY DEF Service!ReplyCells, ReplyCells, Service!FlattenSeq, FlattenSeq, Service!Pieces, Pieces,
           Service!Unavailable, Unavailable, Service!RespLen, RespLen
  <1>4. \A c : Service!Stream(c) = Stream(c) /\ Service!Replies(c) = Replies(c)
    BY <1>1, <1>3 DEF Service!Stream, Stream, Service!Replies, Replies
  <1> QED BY <1>1, <1>2, <1>3, <1>4 DEF Service!svars

\* A connection that is refused is closed for a reason its client can see.
LEMMA RefusedMayClose ==
  ASSUME NEW c \in Client, Refused(c, got[c])
  PROVE  Service!MayClose(c)
  <1>1. PICK k \in 0 .. NumReqs(c) :
          /\ got[c] = ReplyCells(c, k)
          /\ \/ Ends(c, k)
             \/ /\ k < NumReqs(c)
                /\ Script[c][k + 1].len > ReadRegion \/ RespLen(Script[c][k + 1]) > WriteRegion
    BY DEF Refused
  <1> DEFINE S == {j \in 0 .. NumReqs(c) : RepEnd(c, j) <= RepEnd(c, k)}
  <1>2. NumReqs(c) \in Nat /\ \A j \in 0 .. NumReqs(c) : RepEnd(c, j) \in Nat
    BY ScriptTyped, ReplySteps
  <1>3. k \in S
    BY <1>2
  <1>4. ASSUME NEW j \in S PROVE k >= j
    <2>1. ASSUME k < j PROVE FALSE
      <3>1. j \in k .. NumReqs(c)
        BY <1>2, <2>1
      <3>2. RepEnd(c, k) < RepEnd(c, j)
        BY <2>1, <3>1, EndsGrow
      <3> QED BY <1>2, <3>2
    <2> QED BY <1>2, <2>1
  <1>5. Service!Answered(c) = CHOOSE x \in S : \A y \in S : x >= y
    BY <1>1, ServiceData DEF Service!Answered, Service!Max, RepEnd, NumReqs
  <1>6. Service!Answered(c) = k
    <2>1. ASSUME NEW x \in S, \A y \in S : x >= y PROVE x = k
      BY <1>2, <1>3, <1>4, <2>1
    <2> HIDE DEF S
    <2> QED BY <1>3, <1>4, <1>5, <2>1
  <1>7. Len(got[c]) = Len(ReplyCells(c, k))
    BY <1>1
  <1>8. CASE Ends(c, k)
    <2>1. k > 0 /\ (Unavailable(Script[c][k]) \/ (Script[c][k].kind = "bench" /\ Script[c][k].http10))
      BY <1>8 DEF Ends, CloseOf
    <2> QED BY <1>6, <1>7, <2>1, ServiceData DEF Service!MayClose
  <1>9. CASE /\ k < NumReqs(c)
             /\ Script[c][k + 1].len > ReadRegion \/ RespLen(Script[c][k + 1]) > WriteRegion
    BY <1>6, <1>9, ServiceData DEF Service!MayClose, NumReqs
  <1> QED BY <1>1, <1>8, <1>9

\* A Send of m cells is a reply of the service.
LEMMA AnswersReply ==
  ASSUME NEW c \in Client, peer[c] = "open", NEW h, NEW m \in Nat \ {0}, got[c] \in Seq(Cell),
         Answers(c, got[c], h, m, nread[c]), nread[c] \in Nat,
         got' = [got EXCEPT ![c] = h], UNCHANGED <<peer, nread>>
  PROVE  Service!SReply(c)
  <1> PICK n : n = Len(h)
    OBVIOUS
  <1>1. PICK k \in 0 .. NumReqs(c), rest \in Seq(Cell) : h \o rest = ReplyCells(c, k) /\ ReqEnd(c, k) <= nread[c]
    BY DEF Answers
  <1>2. h \in Seq(Cell) /\ n = Len(got[c]) + m /\ n \in Nat /\ Len(got[c]) \in Nat
    BY LenProperties DEF Answers
  <1>3. /\ NumReqs(c) \in Nat /\ NumReqs(c) \in k .. NumReqs(c) /\ Replies(c) = ReplyCells(c, NumReqs(c))
        /\ \A j \in 0 .. NumReqs(c) : ReplyCells(c, j) \in Seq(Cell) /\ RepEnd(c, j) \in Nat
                                      /\ ReqEnd(c, j) \in Nat
    BY ScriptTyped, ReplySteps, RequestSteps
  <1>4. n <= RepEnd(c, k) /\ \A i \in 1 .. n : ReplyCells(c, k)[i] = h[i]
    <2>1. Len(rest) \in Nat
      BY LenProperties
    <2>a. /\ Len(h \o rest) = Len(h) + Len(rest)
          /\ \A i \in 1 .. Len(h) + Len(rest) :
               (h \o rest)[i] = IF i <= Len(h) THEN h[i] ELSE rest[i - Len(h)]
      BY <1>2, ConcatProperties
    <2>2. /\ Len(h \o rest) = n + Len(rest)
          /\ \A i \in 1 .. n + Len(rest) : (h \o rest)[i] = IF i <= n THEN h[i] ELSE rest[i - n]
      BY <2>a
    <2>3. \A i \in 1 .. n : i \in 1 .. n + Len(rest) /\ i <= n
      BY <1>2, <2>1
    <2>4. \A i \in 1 .. n : ReplyCells(c, k)[i] = h[i]
      BY <1>1, <2>2, <2>3
    <2>5. n <= RepEnd(c, k)
      BY <1>1, <1>2, <2>1, <2>2 DEF RepEnd
    <2> QED BY <2>4, <2>5
  <1>5. RepEnd(c, k) <= Len(Replies(c)) /\ \A i \in 1 .. RepEnd(c, k) : Replies(c)[i] = ReplyCells(c, k)[i]
    <2>1. Extends(ReplyCells(c, NumReqs(c)), ReplyCells(c, k))
      BY <1>3, EndsGrow
    <2> QED BY <1>3, <2>1 DEF Extends, RepEnd
  <1>6. RepEnd(c, k) \in Nat /\ Len(Replies(c)) \in Nat /\ Replies(c) \in Seq(Cell)
    BY <1>3, LenProperties
  <1>7. n \in Len(got[c]) + 1 .. Len(Replies(c)) /\ n \in 1 .. Len(Replies(c))
    BY <1>2, <1>4, <1>5, <1>6
  <1>8. h = SubSeq(Replies(c), 1, n)
    <2>1. PICK t : t = SubSeq(Replies(c), 0 + 1, n)
      OBVIOUS
    <2>2. t \in Seq(Cell) /\ Len(t) = n - 0 /\ \A i \in 1 .. n - 0 : t[i] = Replies(c)[0 + i]
      <3>1. n \in 0 .. Len(Replies(c))
        BY <1>7, <1>6
      <3> QED BY <1>6, <2>1, <3>1, PartOf DEF IsPart
    <2>3. Len(t) = n /\ \A i \in 1 .. n : t[i] = h[i]
      <3>1. \A i \in 1 .. n : i \in 1 .. RepEnd(c, k) /\ 0 + i = i
        BY <1>2, <1>4, <1>6
      <3> QED BY <1>2, <1>4, <1>5, <2>2, <3>1
    <2>4. t = h
      BY <1>2, <2>2, <2>3, SeqEqual
    <2> QED BY <2>1, <2>4
  <1>9. Len(RequestCells(c, Replies(c)[n].k)) <= nread[c]
    <2>1. PICK j \in 1 .. NumReqs(c) : RepEnd(c, j - 1) < n /\ n <= RepEnd(c, j) /\ Replies(c)[n].k = j
      BY <1>7, ReplyAt
    <2>2. j <= k
      <3>1. ASSUME k < j PROVE FALSE
        <4>0. NumReqs(c) \in Nat
          BY <1>3
        <4>1. j - 1 \in k .. NumReqs(c) /\ j - 1 \in 0 .. NumReqs(c)
          BY <3>1, <4>0
        <4>2. RepEnd(c, k) <= RepEnd(c, j - 1)
          BY <4>1, EndsGrow DEF Extends, RepEnd
        <4>3. RepEnd(c, k) \in Nat /\ RepEnd(c, j - 1) \in Nat
          BY <1>3, <4>1
        <4>4. n <= RepEnd(c, k) /\ RepEnd(c, j - 1) < n
          BY <1>4, <2>1
        <4> QED BY <1>2, <4>2, <4>3, <4>4
      <3> QED BY <1>3, <3>1
    <2>3. ReqEnd(c, j) <= ReqEnd(c, k)
      <3>1. k \in j .. NumReqs(c) /\ j \in 0 .. NumReqs(c)
        BY <1>3, <2>2
      <3> QED BY <3>1, EndsGrow DEF Extends, ReqEnd
    <2>4. ReqEnd(c, j) <= nread[c]
      <3>1. ReqEnd(c, j) \in Nat /\ ReqEnd(c, k) \in Nat
        BY <1>3
      <3>2. ReqEnd(c, k) <= nread[c]
        BY <1>1
      <3> QED BY <2>3, <3>1, <3>2
    <2> QED BY <2>1, <2>4 DEF ReqEnd
  <1> QED BY <1>7, <1>8, <1>9, ServiceData DEF Service!SReply

-------------------------------------------------------------------------------
\* A client that is there, or gone, is hung up on.
LEMMA ServiceClose ==
  ASSUME Balanced, NEW f \in Open, CloseFds({f}),
         peer[fds[f]] = "open" => Service!MayClose(fds[f])
  PROVE  Service!SNext
  <1> PICK c : c = fds[f]
    OBVIOUS
  <1>1. c \in Client /\ peer' = [peer EXCEPT ![c] = "off"] /\ UNCHANGED <<nread, got>>
    BY Closed DEF Balanced, NetOK
  <1>2. peer[c] \in {"open", "hungup"}
    BY <1>1 DEF Open, Balanced, NetOK, PeersOK
  <1>3. peer' = [d \in Client |-> IF d \in {c} THEN "off" ELSE peer[d]]
    BY <1>1 DEF Balanced, NetOK, PeersOK
  <1>4. \A d \in {c} : peer[d] = "hungup" \/ (peer[d] = "open" /\ Service!MayClose(d))
    BY <1>2
  <1>5. Service!SClose({c})
    BY <1>1, <1>3, <1>4 DEF Service!SClose
  <1> QED BY <1>1, <1>5 DEF Service!SNext

LEMMA ServiceStutter ==
  ASSUME UNCHANGED <<peer, nread, got>>
  PROVE  [Service!SNext]_Service!svars
  BY DEF Service!svars

LEMMA ServiceConn ==
  ASSUME Ownership, Balanced, NEW i \in Idx, HandleConn(i)
  PROVE  [Service!SNext]_Service!svars
  <1>1. i \in DOMAIN conns => AccountAt(i)
    BY DEF Balanced, Accounts
  <1>2. i \in DOMAIN conns /\ (Keeps(i) \/ Closes(i))
    BY <1>1, ConnResult DEF Balanced
  <1>3. CASE Keeps(i)
    BY <1>3, ServiceStutter DEF Keeps, net
  <1>4. CASE Closes(i)
    <2>1. conns[i].fd \in Open /\ fds[conns[i].fd] \in Client
      BY <1>2, Distinct DEF Balanced, ClientOf
    <2>2. /\ CloseFds({conns[i].fd})
          /\ peer[fds[conns[i].fd]] = "open" => Refused(fds[conns[i].fd], got[fds[conns[i].fd]])
      BY <1>4 DEF Closes, Freed, ClientOf
    <2>3. peer[fds[conns[i].fd]] = "open" => Service!MayClose(fds[conns[i].fd])
      BY <2>1, <2>2, RefusedMayClose
    <2> QED BY <2>1, <2>2, <2>3, ServiceClose
  <1> QED BY <1>2, <1>3, <1>4

LEMMA ServiceAccept ==
  ASSUME ArmedOK, Balanced, HandleAccept
  PROVE  [Service!SNext]_Service!svars
  <1>1. CASE UNCHANGED net
    BY <1>1, ServiceStutter DEF net
  <1>2. CASE Head(acceptCqe).fd # 0 /\ CloseFds({Head(acceptCqe).fd})
    <2> PICK f : f = Head(acceptCqe).fd
      OBVIOUS
    <2>1. acceptCqe # <<>> /\ acceptCqe' = Tail(acceptCqe)
      BY DEF HandleAccept
    <2>2. f \in Handed /\ f \in Open
      BY <1>2, <2>1, HandedTail, PartitionIs DEF Balanced, NetOK
    <2>3. nread[fds[f]] = 0
      BY <2>2 DEF Balanced, NetOK, FreshOK, Fresh
    <2>4. Service!MayClose(fds[f])
      BY <2>3 DEF Service!MayClose
    <2> QED BY <1>2, <2>2, <2>4, ServiceClose
  <1> QED BY <1>1, <1>2 DEF HandleAccept

LEMMA ServiceDeliver ==
  ASSUME Ownership, BridgeOK, Balanced, Deliver
  PROVE  [Service!SNext]_Service!svars
  <1>1. PICK i, req, cn, cells, c, r, w, n, g, p, owed :
          /\ i = Head(drained).slot_id /\ req = Head(drained).req /\ cells = Response(req)
          /\ cn = conns[i] /\ c = ClientOf(i) /\ r = rmem[cn.slot] /\ w = wmem[cn.slot]
          /\ n = nread[c] /\ g = got[c] /\ p = peer[c] /\ owed = Owed(i)
    OBVIOUS
  <1>2. drained # <<>> /\ drained' = Tail(drained) /\ UNCHANGED <<tasks, queue>>
    BY DEF Deliver
  <1>3. req \in owed /\ i \in Waiting
    BY <1>1, <1>2, OwedDelivered
  <1>4. i \in DOMAIN conns /\ cn.state = "AwaitingAsync" /\ Parked(i) /\ IsConn(cn)
    BY <1>1, <1>3 DEF Waiting, Parked, Ownership, SlabOK
  <1>5. DeliverAsyncResponse(i, cells)
    BY <1>1, <1>4 DEF Deliver
  <1>6. PICK nx : nx = [cn EXCEPT !.write_filled = Len(cells), !.write_offset = 0,
                                  !.close_after_drain = cn.parked_close_after, !.state = "Writing"]
    OBVIOUS
  <1>7. PICK ops : ops = ring[i]
    OBVIOUS
  <1>8. ConnOK(cn, ops, r, w, c, n, g, p, owed)
    BY <1>1, <1>4, <1>7 DEF Balanced, Accounts, AccountAt, Holds
  <1>9. Resumed(cn, nx, r, cells, c, n, g, p)
    BY <1>1, <1>3, <1>4, <1>6, <1>8, DeliverKeeps
  <1>10. Len(cells) \in Nat /\ (~(Len(cells) <= WriteRegion) /\ p = "open" => Refused(c, g))
    BY <1>9 DEF Resumed
  <1>11. CASE Len(cells) > WriteRegion /\ Freed(i)
    <2>1. conns[i].fd \in Open /\ fds[conns[i].fd] \in Client /\ c = fds[conns[i].fd]
      BY <1>1, <1>4, Distinct DEF Balanced, ClientOf
    <2>2. CloseFds({conns[i].fd})
      BY <1>11 DEF Freed
    <2>3. ~(Len(cells) <= WriteRegion)
      BY <1>10, <1>11, PipelineAssumption
    <2>4. p = "open" => Service!MayClose(c)
      BY <1>1, <1>10, <2>1, <2>3, RefusedMayClose
    <2> QED BY <1>1, <2>1, <2>2, <2>4, ServiceClose
  <1>12. CASE UNCHANGED net
    BY <1>12, ServiceStutter DEF net
  <1> QED BY <1>5, <1>11, <1>12 DEF DeliverAsyncResponse

\* The kernel moves cells from a client or to it.
LEMMA ServiceRing ==
  ASSUME Ownership, Balanced, NEW i \in Idx, KernelRecv(i) \/ KernelSend(i)
  PROVE  [Service!SNext]_Service!svars
  <1>1. ASSUME NEW op, KernelOp(i, op), FailAs(i, op) PROVE [Service!SNext]_Service!svars
    <2>1. /\ nread' = [nread EXCEPT ![ClientOf(i)] = nread[ClientOf(i)]]
          /\ got' = [got EXCEPT ![ClientOf(i)] = got[ClientOf(i)]] /\ UNCHANGED peer
      BY <1>1 DEF FailAs, Completed
    <2>2. UNCHANGED <<peer, nread, got>>
      BY <2>1 DEF Balanced, NetOK, FreshOK
    <2> QED BY <2>2, ServiceStutter
  <1>2. CASE KernelRecv(i)
    <2>1. PICK op : KernelOp(i, op) /\ conns[i].state = "Reading"
                      /\ ((\E m : RecvAs(i, op, m)) \/ FailAs(i, op))
      BY <1>2, RecvStep
    <2>2. ASSUME NEW m, RecvAs(i, op, m) PROVE Service!SNext
      <3> PICK c, n : c = ClientOf(i) /\ n = nread[c]
        OBVIOUS
      <3>1. /\ m \in 1 .. op.len /\ n + m <= Len(Stream(c))
            /\ nread' = [nread EXCEPT ![c] = n + m] /\ got' = [got EXCEPT ![c] = got[c]] /\ UNCHANGED peer
        BY <2>2 DEF RecvAs, Completed
      <3>2. i \in DOMAIN conns /\ c \in Client /\ IsOp(op)
        BY <2>1 DEF KernelOp
      <3>3. peer[c] \in {"open", "hungup"}
        BY <3>2, Connected DEF Balanced
      <3>4. UNCHANGED <<peer, got>>
        BY <3>1 DEF Balanced, NetOK, FreshOK
      <3>5. n \in Nat /\ Len(Stream(c)) \in Nat
        <4>1. PICK k : ConnAt(conns[i], ring[i], rmem[conns[i].slot], wmem[conns[i].slot], c,
                              n, got[c], peer[c], Owed(i), k)
          BY <3>2, AccountOf
        <4>2. Consistent(c, k, rmem[conns[i].slot], n)
          BY <4>1 DEF ConnAt
        <4> QED BY <3>2, <4>2, ConsistentTyped
      <3>6. n + m \in n + 1 .. Len(Stream(c))
        BY <3>1, <3>5
      <3>7. Service!SRead(c)
        BY <3>1, <3>3, <3>4, <3>6, ServiceData DEF Service!SRead
      <3> QED BY <3>2, <3>7 DEF Service!SNext
    <2> QED BY <1>1, <2>1, <2>2
  <1>3. CASE KernelSend(i)
    <2>1. PICK op : KernelOp(i, op) /\ conns[i].state = "Writing"
                      /\ ((\E m, h : SendAs(i, op, m, h)) \/ FailAs(i, op))
      BY <1>3, SendStep
    <2>2. ASSUME NEW m, NEW h, SendAs(i, op, m, h) PROVE [Service!SNext]_Service!svars
      <3> PICK c : c = ClientOf(i)
        OBVIOUS
      <3>1. /\ m \in 1 .. op.len /\ (peer[c] = "hungup" => h = got[c])
            /\ nread' = [nread EXCEPT ![c] = nread[c]] /\ got' = [got EXCEPT ![c] = h] /\ UNCHANGED peer
        BY <2>2 DEF SendAs, Completed
      <3>2. UNCHANGED <<peer, nread>>
        BY <3>1 DEF Balanced, NetOK, FreshOK
      <3>3. i \in DOMAIN conns /\ c \in Client /\ got[c] \in Seq(Cell)
        BY <2>1, AccountOf DEF KernelOp
      <3>4. peer[c] \in {"open", "hungup"}
        BY <3>3, Connected DEF Balanced
      <3>5. CASE peer[c] = "hungup"
        <4>1. UNCHANGED <<peer, nread, got>>
          BY <3>1, <3>2, <3>5 DEF Balanced, NetOK, FreshOK
        <4> QED BY <4>1, ServiceStutter
      <3>6. CASE peer[c] = "open"
        <4>1. Answers(c, got[c], h, m, nread[c])
          BY <2>1, <2>2, <3>6, SentBalanced
        <4>2. nread[c] \in Nat
          <5>1. PICK k : ConnAt(conns[i], ring[i], rmem[conns[i].slot], wmem[conns[i].slot], c,
                                nread[c], got[c], peer[c], Owed(i), k)
            BY <3>3, AccountOf
          <5> QED BY <5>1 DEF ConnAt, Consistent
        <4>3. m \in Nat \ {0}
          BY <3>1
        <4>4. Service!SReply(c)
          BY <3>1, <3>2, <3>3, <3>6, <4>1, <4>2, <4>3, AnswersReply
        <4> QED BY <3>3, <4>4 DEF Service!SNext
      <3> QED BY <3>4, <3>5, <3>6
    <2> QED BY <1>1, <2>1, <2>2
  <1> QED BY <1>2, <1>3

LEMMA ServiceClient ==
  ASSUME NEW c \in Client, Connect(c) \/ HangUp(c) \/ KernelAccept(c)
  PROVE  Service!SNext
  <1>1. CASE Connect(c)
    <2>1. Service!SConnect(c)
      BY <1>1 DEF Connect, Service!SConnect
    <2> QED BY <2>1 DEF Service!SNext
  <1>2. CASE HangUp(c)
    <2>1. Service!SHangUp(c)
      BY <1>2 DEF HangUp, Service!SHangUp
    <2> QED BY <2>1 DEF Service!SNext
  <1>3. CASE KernelAccept(c)
    <2>1. Service!SAccept(c)
      BY <1>3 DEF KernelAccept, Service!SAccept
    <2> QED BY <2>1 DEF Service!SNext
  <1> QED BY <1>1, <1>2, <1>3

LEMMA ServiceStep ==
  Ownership /\ ArmedOK /\ BridgeOK /\ Balanced /\ [Next]_vars => [Service!SNext]_Service!svars
  <1> SUFFICES ASSUME Ownership, ArmedOK, BridgeOK, Balanced, [Next]_vars
               PROVE  [Service!SNext]_Service!svars
    OBVIOUS
  <1>1. CASE Submit \/ Collect \/ Drain \/ KernelAcceptError \/ KernelEventfd \/ UNCHANGED vars
    <2>1. UNCHANGED <<peer, nread, got>>
      BY <1>1 DEF Submit, Collect, Drain, KernelAcceptError, KernelEventfd, vars, net
    <2> QED BY <2>1, ServiceStutter
  <1>2. ASSUME NEW t \in tasks, TaskPush(t) \/ TaskSignal(t) PROVE [Service!SNext]_Service!svars
    <2>1. UNCHANGED <<peer, nread, got>>
      BY <1>2 DEF TaskPush, TaskSignal, net
    <2> QED BY <2>1, ServiceStutter
  <1>3. CASE HandleAccept
    BY <1>3, ServiceAccept
  <1>4. CASE Deliver
    BY <1>4, ServiceDeliver
  <1>5. ASSUME NEW i \in Idx, HandleConn(i) PROVE [Service!SNext]_Service!svars
    BY <1>5, ServiceConn
  <1>6. ASSUME NEW i \in Idx, KernelRecv(i) \/ KernelSend(i) PROVE [Service!SNext]_Service!svars
    BY <1>6, ServiceRing
  <1>7. ASSUME NEW c \in Client, Connect(c) \/ HangUp(c) \/ KernelAccept(c)
        PROVE  [Service!SNext]_Service!svars
    BY <1>7, ServiceClient
  <1>8. CASE Next
    BY <1>1, <1>2, <1>3, <1>4, <1>5, <1>6, <1>7, <1>8
       DEF Next, WorkerStep, TokioStep, KernelStep, ClientStep
  <1> QED BY <1>1, <1>8

(***************************************************************************)
(* The worker implements the pipelined service: every step it takes is,    *)
(* for its clients, a step the service may take or no step at all. So      *)
(* whatever the interleaving of kernel, worker and handlers, a client gets *)
(* a prefix of the responses to its requests, in order, each only after    *)
(* its request was read, and it is hung up on only for a reason of the     *)
(* service (accept.rs:77-159, connection.rs:101-382).                      *)
(***************************************************************************)
THEOREM WorkerImplementsService == Spec => ImplementsService
  <1>1. Init => Service!SInit
    BY DEF Init, Service!SInit
  <1>2. Ownership /\ ArmedOK /\ BridgeOK /\ Balanced /\ [Next]_vars => [Service!SNext]_Service!svars
    BY ServiceStep
  <1> QED
    BY <1>1, <1>2, OwnershipInvariant, ArmedInvariant, BridgeInvariant, BalancedInvariant, PTL
       DEF Spec, ImplementsService, Service!SSpec
===============================================================================
