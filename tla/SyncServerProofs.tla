-------------------------- MODULE SyncServerProofs ---------------------------
(***************************************************************************)
(* OneEach, LabelTruthful and DateOrder hold in every state of SyncServer. *)
(*                                                                         *)
(* Each is a statement about what the clients have received; what makes it *)
(* true is in the threads.  A thread that reads a request line holds the   *)
(* one request of its client that is begun and not answered (Parsed); the  *)
(* date it has chosen lies between the newest one sent before it read the  *)
(* request and the clock, and its slot tells which prebaked responses its  *)
(* client has (Dated).  A connection is with one thread or in one backlog  *)
(* (Placed), so that no two threads write to the same client.              *)
(***************************************************************************)
EXTENDS SyncServer, SequenceTheorems, TLAPS

Thread ==
  [pc : {"accept", "line", "headers", "write"}, client : Client \cup {Null}, line : Lines \cup {Null},
   close : BOOLEAN, slot : {0, 1}, flipped : BOOLEAN, second : Nat \cup {Null},
   rendered : Nat \cup {Null}, date : Nat \cup {Null}, floor : Nat]

Response == [req : Nat, fast : BOOLEAN, date : Nat, close : BOOLEAN, floor : Nat]

Typed ==
  /\ script \in Scripts /\ slot \in {0, 1}
  /\ now \in Nat /\ dateCache \in Nat /\ latest \in Nat
  /\ latest <= dateCache /\ dateCache <= now
  /\ backlog \in [Worker -> Seq(Client)] /\ worker \in [Worker -> Thread]
  /\ link \in [Client -> {"new", "queued", "open", "ended"}]
  /\ sent \in [Client -> Nat] /\ taken \in [Client -> Nat]
  /\ eof \in [Client -> {"no", "fin", "reset"}]
  /\ wire \in [Client -> Seq(Response)]

Serves(w) == worker[w].pc # "accept"

\* A connection is in one place of one backlog, or with one thread, or with none.
Placed ==
  /\ \A w \in Worker : Serves(w) => worker[w].client \in Client /\ link[worker[w].client] = "open"
  /\ \A v, w \in Worker : Serves(v) /\ Serves(w) /\ worker[v].client = worker[w].client => v = w
  /\ \A w \in Worker : \A i \in 1 .. Len(backlog[w]) : link[backlog[w][i]] = "queued"
  /\ \A v, w \in Worker : \A i \in 1 .. Len(backlog[v]) : \A j \in 1 .. Len(backlog[w]) :
       backlog[v][i] = backlog[w][j] => v = w /\ i = j

\* A thread between requests has answered every request its client has begun; one
\* that reads or answers a request has answered all but that one.
Parsed(w) ==
  LET t == worker[w]
      c == worker[w].client
      s == script[worker[w].client]
  IN
  /\ t.pc = "headers" => OpenAfter(s, taken[c])
  /\ t.pc \in {"line", "write"} => ~OpenAfter(s, taken[c]) \/ (eof[c] = "fin" /\ taken[c] = sent[c])
  /\ t.pc = "line" => Begun(s, taken[c]) = 1 .. Len(wire[c])
  /\ t.pc \in {"headers", "write"} =>
       /\ t.line \in Lines /\ Asks(t.line)
       /\ t.line.req = Len(wire[c]) + 1
       /\ Begun(s, taken[c]) = 1 .. Len(wire[c]) + 1
  /\ \A i \in 1 .. Len(wire[c]) : ~wire[c][i].close

\* The dates a thread has chosen, and may choose next.
HasFast(got) == \E i \in 1 .. Len(got) : got[i].fast
FastDates(got, s) ==
  \A i \in 1 .. Len(got) : got[i].fast => got[i].date = IF FirstFast(got, i) THEN 1 - s ELSE s

Dated(w) ==
  LET t == worker[w]
      got == wire[worker[w].client]
  IN
  /\ t.rendered = t.second
  /\ t.pc \in {"headers", "write"} => t.floor <= latest
  /\ t.pc = "write" => t.date \in Nat
  /\ t.pc = "write" /\ ~Static(t.line) => t.floor <= t.date /\ t.date <= dateCache
  /\ t.pc = "write" /\ Static(t.line) =>
       t.flipped /\ t.date = IF HasFast(got) THEN t.slot ELSE 1 - t.slot
  /\ t.flipped /\ (t.pc # "write" \/ ~Static(t.line)) => HasFast(got)
  /\ HasFast(got) => t.flipped
  /\ FastDates(got, t.slot)

\* What a client has received, whatever becomes of its connection.
Received(c) ==
  /\ taken[c] <= sent[c] /\ sent[c] <= Len(script[c])
  /\ link[c] \in {"new", "queued"} => taken[c] = 0 /\ wire[c] = <<>>
  /\ \A i \in 1 .. Len(wire[c]) :
       /\ wire[c][i].req = i
       /\ wire[c][i].close => i = Len(wire[c]) /\ link[c] = "ended"
       /\ wire[c][i].fast \/ wire[c][i].floor <= wire[c][i].date
  /\ \E z \in {0, 1} : FastDates(wire[c], z)
  /\ link[c] = "ended" =>
       \/ GaveUp(c) \/ ToldClose(c) \/ eof[c] = "reset"
       \/ eof[c] = "fin" /\ Begun(script[c], sent[c]) = 1 .. Len(wire[c])

ServerInv ==
  /\ Typed /\ Placed
  /\ \A w \in Worker : Serves(w) => Parsed(w) /\ Dated(w)
  /\ \A c \in Client : Received(c)

-------------------------------------------------------------------------------
(***************************************************************************)
(* The lines of a client.                                                  *)
(***************************************************************************)
LEMMA LineTypes ==
  ASSUME NEW l \in Lines
  PROVE  /\ Asks(l) => l.req \in Nat
         /\ l.kind \in {"request", "garbage", "header", "blank"}
  BY DEF Lines, Asks

LEMMA ScriptLines ==
  ASSUME Typed, NEW c \in Client
  PROVE  /\ script[c] \in Seq(Lines) /\ WellFormed(script[c])
  BY ServerAssumption DEF Typed

\* What the next line does to the requests begun and to the one that is open.
LEMMA NextLine ==
  ASSUME NEW s \in Seq(Lines), WellFormed(s), NEW p \in Nat, p < Len(s)
  PROVE  /\ s[p + 1] \in Lines
         /\ Asks(s[p + 1]) =>
              /\ ~OpenAfter(s, p) /\ OpenAfter(s, p + 1)
              /\ s[p + 1].req \in Nat /\ s[p + 1].req > 0
              /\ Begun(s, p) = 1 .. s[p + 1].req - 1
              /\ Begun(s, p + 1) = 1 .. s[p + 1].req
         /\ ~Asks(s[p + 1]) => Begun(s, p + 1) = Begun(s, p)
         /\ s[p + 1].kind = "blank" => ~OpenAfter(s, p + 1)
         /\ s[p + 1].kind # "blank" /\ OpenAfter(s, p) => OpenAfter(s, p + 1)
         /\ s[p + 1].kind = "header" => OpenAfter(s, p)
  <1>1. p + 1 \in 1 .. Len(s) /\ (p + 1) - 1 = p /\ 1 .. p + 1 = (1 .. p) \cup {p + 1}
    BY LenProperties
  <1>2. s[p + 1] \in Lines
    BY <1>1, ElementOfSeq
  <1>3. s[p + 1].kind = "header" => OpenAfter(s, p)
    BY <1>1 DEF WellFormed
  <1>4. ASSUME Asks(s[p + 1])
        PROVE  /\ ~OpenAfter(s, p) /\ s[p + 1].req > 0 /\ s[p + 1].req \in Nat
               /\ Begun(s, p) = 1 .. s[p + 1].req - 1
    BY <1>1, <1>2, <1>4, LineTypes DEF WellFormed
  <1>5. Asks(s[p + 1]) => Begun(s, p + 1) = Begun(s, p) \cup {s[p + 1].req}
    BY <1>1 DEF Begun
  <1>6. ~Asks(s[p + 1]) => Begun(s, p + 1) = Begun(s, p)
    BY <1>1 DEF Begun
  <1>7. Asks(s[p + 1]) => Begun(s, p + 1) = 1 .. s[p + 1].req
    <2> SUFFICES ASSUME Asks(s[p + 1]) PROVE Begun(s, p + 1) = 1 .. s[p + 1].req
      OBVIOUS
    <2> PICK n \in Nat : n = s[p + 1].req
      BY <1>4
    <2>1. (1 .. n - 1) \cup {n} = 1 .. n
      BY <1>4
    <2> QED BY <2>1, <1>4, <1>5
  <1>8. Asks(s[p + 1]) => OpenAfter(s, p + 1)
    BY <1>1 DEF OpenAfter
  <1>9. s[p + 1].kind = "blank" => ~OpenAfter(s, p + 1)
    BY <1>1 DEF OpenAfter, Asks
  <1>10. s[p + 1].kind # "blank" /\ OpenAfter(s, p) => OpenAfter(s, p + 1)
    BY <1>1 DEF OpenAfter
  <1> QED BY <1>2, <1>3, <1>4, <1>6, <1>7, <1>8, <1>9, <1>10

-------------------------------------------------------------------------------
(***************************************************************************)
(* What the invariant says of the three properties.                        *)
(***************************************************************************)
LEMMA InvImplies ==
  ASSUME ServerInv
  PROVE  OneEach /\ LabelTruthful /\ DateOrder
  <1> SUFFICES ASSUME NEW c \in Client
               PROVE  /\ OneEach!(c) /\ LabelTruthful!(c) /\ DateOrder!(c)
    BY DEF OneEach, LabelTruthful, DateOrder
  <1>0. /\ wire[c] \in Seq(Response) /\ DOMAIN wire[c] = 1 .. Len(wire[c])
        /\ Received(c)
    BY LenProperties DEF ServerInv, Typed
  <1>1. OneEach!(c)
    BY <1>0 DEF Received, ToldClose
  <1>2. LabelTruthful!(c)
    BY <1>0 DEF Received, ToldClose
  <1>3. ASSUME NEW i \in DOMAIN wire[c]
        PROVE  wire[c][i].fast \/ wire[c][i].date >= wire[c][i].floor
    <2>1. wire[c][i] \in Response
      BY <1>0, ElementOfSeq
    <2> QED BY <1>0, <2>1 DEF Received, Response
  <1>4. PICK z \in {0, 1} : FastDates(wire[c], z)
    BY <1>0 DEF Received
  <1>5. ASSUME NEW i \in DOMAIN wire[c], wire[c][i].fast, NEW j \in DOMAIN wire[c], wire[c][j].fast
        PROVE  wire[c][i].date = wire[c][j].date <=> (FirstFast(wire[c], i) <=> FirstFast(wire[c], j))
    <2>1. /\ wire[c][i].date = IF FirstFast(wire[c], i) THEN 1 - z ELSE z
          /\ wire[c][j].date = IF FirstFast(wire[c], j) THEN 1 - z ELSE z
      BY <1>0, <1>4, <1>5 DEF FastDates
    <2>2. 1 - z # z
      OBVIOUS
    <2>3. CASE FirstFast(wire[c], i)
      BY <2>1, <2>2, <2>3, Zenon
    <2>4. CASE ~FirstFast(wire[c], i)
      BY <2>1, <2>2, <2>4, Zenon
    <2> QED BY <2>3, <2>4
  <1>6. DateOrder!(c)
    BY <1>3, <1>5
  <1> QED BY <1>1, <1>2, <1>6

-------------------------------------------------------------------------------
(***************************************************************************)
(* What a step leaves alone.                                               *)
(***************************************************************************)
\* A step does not take lines of c, nor write to it, and a client that has
\* stopped stays as it is.
Untouched(c) ==
  /\ taken'[c] = taken[c] /\ wire'[c] = wire[c]
  /\ eof[c] # "no" => sent'[c] = sent[c] /\ eof'[c] = eof[c]

\* Nor does it begin or end its connection.
Steady(c) ==
  /\ Untouched(c)
  /\ sent[c] <= sent'[c] /\ sent'[c] <= Len(script[c])
  /\ link'[c] \in {"new", "queued"} => link[c] \in {"new", "queued"}
  /\ link[c] = "ended" <=> link'[c] = "ended"
  /\ link[c] = "ended" => UNCHANGED <<sent[c], eof[c]>>

LEMMA ServingKept ==
  ASSUME NEW w \in Worker, Parsed(w), Dated(w), worker'[w] = worker[w],
         Untouched(worker[w].client), UNCHANGED given,
         latest \in Nat, latest' \in Nat, dateCache \in Nat, dateCache' \in Nat,
         latest <= latest', dateCache <= dateCache', worker[w].floor \in Nat
  PROVE  (Parsed(w) /\ Dated(w))'
  <1>1. Parsed(w)'
    BY DEF Parsed, Untouched, given
  <1>2. Dated(w)'
    BY DEF Dated, Untouched, given, Static
  <1> QED BY <1>1, <1>2

LEMMA ReceivedKept ==
  ASSUME NEW c \in Client, Received(c), Steady(c), UNCHANGED given,
         sent[c] \in Nat, sent'[c] \in Nat, taken[c] \in Nat, Len(script[c]) \in Nat
  PROVE  Received(c)'
  BY DEF Received, Steady, Untouched, given, GaveUp, Refused, ToldClose

-------------------------------------------------------------------------------
(***************************************************************************)
(* The steps of the environment.                                           *)
(***************************************************************************)
\* The parts of Typed that the proofs look up.
LEMMA TypedAt ==
  ASSUME Typed
  PROVE  /\ \A w \in Worker :
              /\ worker[w] \in Thread /\ worker[w].floor \in Nat /\ worker[w].slot \in {0, 1}
              /\ backlog[w] \in Seq(Client) /\ Len(backlog[w]) \in Nat
         /\ \A c \in Client :
              /\ script[c] \in Seq(Lines) /\ Len(script[c]) \in Nat
              /\ sent[c] \in Nat /\ taken[c] \in Nat
              /\ wire[c] \in Seq(Response) /\ Len(wire[c]) \in Nat
  BY ScriptLines, LenProperties DEF Typed, Thread

LEMMA EnvironmentKeeps ==
  ASSUME ServerInv, Typed', Placed', UNCHANGED <<given, worker, taken, wire>>,
         latest <= latest', dateCache <= dateCache',
         \A c \in Client : Steady(c)
  PROVE  ServerInv'
  <1>1. ASSUME NEW w \in Worker, Serves(w)' PROVE (Parsed(w) /\ Dated(w))'
    <2>1. /\ Serves(w) /\ worker'[w] = worker[w] /\ worker[w].client \in Client
          /\ Untouched(worker[w].client)
      BY <1>1 DEF Serves, ServerInv, Placed, Steady
    <2>2. Parsed(w) /\ Dated(w)
      BY <2>1 DEF ServerInv
    <2> QED BY <2>1, <2>2, ServingKept, TypedAt DEF ServerInv, Typed
  <1>2. ASSUME NEW c \in Client PROVE Received(c)'
    <2>1. Received(c)
      BY DEF ServerInv
    <2>2. sent'[c] \in Nat
      BY DEF Typed
    <2> QED BY <2>1, <2>2, ReceivedKept, TypedAt DEF ServerInv
  <1> QED BY <1>1, <1>2 DEF ServerInv

LEMMA ConnectKeeps ==
  ASSUME ServerInv, NEW c \in Client, Connect(c)
  PROVE  ServerInv'
  <1>0. Typed /\ Placed /\ link[c] = "new"
    BY DEF ServerInv, Connect
  <1>1. PICK w \in Worker : backlog' = [backlog EXCEPT ![w] = Append(@, c)]
    BY DEF Connect
  <1>2. Append(backlog[w], c) \in Seq(Client)
    BY <1>0, TypedAt, AppendProperties
  <1>3. /\ backlog' \in [Worker -> Seq(Client)]
        /\ \A v \in Worker : backlog'[v] = IF v = w THEN Append(backlog[w], c) ELSE backlog[v]
    BY <1>0, <1>1, <1>2 DEF Typed
  <1>4. link' = [link EXCEPT ![c] = "queued"] /\ link \in [Client -> {"new", "queued", "open", "ended"}]
    BY <1>0 DEF Connect, Typed
  <1>5. Typed'
    BY <1>0, <1>3, <1>4 DEF Connect, Typed, given, history
  <1>6. \A v \in Worker : \A i \in 1 .. Len(backlog'[v]) :
           \/ i \in 1 .. Len(backlog[v]) /\ backlog'[v][i] = backlog[v][i]
           \/ v = w /\ i = Len(backlog[w]) + 1 /\ backlog'[v][i] = c
    <2>1. \A v \in Worker : backlog[v] \in Seq(Client) /\ Len(backlog[v]) \in Nat
      BY <1>0, TypedAt
    <2>2. /\ Len(Append(backlog[w], c)) = Len(backlog[w]) + 1
          /\ \A i \in 1 .. Len(backlog[w]) + 1 :
               Append(backlog[w], c)[i] = IF i = Len(backlog[w]) + 1 THEN c ELSE backlog[w][i]
      BY <2>1
    <2> QED BY SMTT(30), <1>3, <2>1, <2>2
  <1>7. \A v \in Worker : \A i \in 1 .. Len(backlog[v]) : backlog[v][i] # c /\ backlog[v][i] \in Client
    BY <1>0, TypedAt, ElementOfSeq DEF Placed
  <1>8. Placed'
    <2>1. \A v \in Worker : Serves(v)' => Serves(v) /\ worker'[v] = worker[v] /\ worker[v].client # c
      BY <1>0 DEF Serves, Placed, Connect
    <2>2. \A v \in Worker : Serves(v)' => worker'[v].client \in Client /\ link'[worker'[v].client] = "open"
      BY <1>0, <1>4, <2>1 DEF Placed
    <2>3. \A u, v \in Worker : (Serves(u) /\ Serves(v) /\ worker[u].client = worker[v].client)' => u = v
      BY <1>0, <2>1 DEF Placed
    <2>4. ASSUME NEW v \in Worker, NEW i \in 1 .. Len(backlog'[v]) PROVE link'[backlog'[v][i]] = "queued"
      BY <1>0, <1>4, <1>6, <1>7, <2>4 DEF Placed
    <2>5. ASSUME NEW u \in Worker, NEW v \in Worker, NEW i \in 1 .. Len(backlog'[u]), NEW j \in 1 .. Len(backlog'[v]),
                 backlog'[u][i] = backlog'[v][j]
          PROVE  u = v /\ i = j
      BY SMTT(30), <1>0, <1>6, <1>7, <2>5 DEF Placed
    <2> QED BY <2>2, <2>3, <2>4, <2>5 DEF Placed
  <1>9. \A d \in Client : Steady(d)
    BY <1>0, <1>4, TypedAt DEF Connect, history, Steady, Untouched, ServerInv, Received
  <1>10. latest <= latest' /\ dateCache <= dateCache' /\ UNCHANGED <<given, worker, taken, wire>>
    BY <1>0 DEF Connect, history, Typed
  <1> QED BY <1>5, <1>8, <1>9, <1>10, EnvironmentKeeps

LEMMA PlacedSame ==
  ASSUME Placed, UNCHANGED <<worker, backlog, link>>
  PROVE  Placed'
  BY DEF Placed, Serves

LEMMA SendLineKeeps ==
  ASSUME ServerInv, NEW c \in Client, SendLine(c)
  PROVE  ServerInv'
  <1>0. Typed /\ Placed /\ link[c] \in {"queued", "open"} /\ eof[c] = "no" /\ sent[c] < Len(script[c])
    BY DEF ServerInv, SendLine
  <1>1. sent' = [sent EXCEPT ![c] = sent[c] + 1] /\ sent \in [Client -> Nat]
    BY <1>0 DEF SendLine, Typed
  <1>2. Typed' /\ Placed'
    BY <1>0, <1>1, PlacedSame DEF SendLine, Typed, given, history
  <1>3. \A d \in Client : Steady(d)
    BY <1>0, <1>1, TypedAt DEF SendLine, history, Steady, Untouched, ServerInv, Received
  <1>4. latest <= latest' /\ dateCache <= dateCache' /\ UNCHANGED <<given, worker, taken, wire>>
    BY <1>0 DEF SendLine, history, Typed
  <1> QED BY <1>2, <1>3, <1>4, EnvironmentKeeps

LEMMA StopKeeps ==
  ASSUME ServerInv, NEW c \in Client, Stop(c)
  PROVE  ServerInv'
  <1>0. Typed /\ Placed /\ link[c] \in {"queued", "open"} /\ eof[c] = "no"
    BY DEF ServerInv, Stop
  <1>1. PICK how \in {"fin", "reset"} : eof' = [eof EXCEPT ![c] = how]
    BY DEF Stop
  <1>2. Typed' /\ Placed'
    BY <1>0, <1>1, PlacedSame DEF Stop, Typed, given, history
  <1>3. \A d \in Client : Steady(d)
    BY <1>0, <1>1, TypedAt DEF Stop, history, Steady, Untouched, ServerInv, Received, Typed
  <1>4. latest <= latest' /\ dateCache <= dateCache' /\ UNCHANGED <<given, worker, taken, wire>>
    BY <1>0 DEF Stop, history, Typed
  <1> QED BY <1>2, <1>3, <1>4, EnvironmentKeeps

LEMMA ClockKeeps ==
  ASSUME ServerInv, Tick \/ RefreshDate
  PROVE  ServerInv'
  <1>0. Typed /\ Placed
    BY DEF ServerInv
  <1>1. /\ UNCHANGED <<given, slot, backlog, worker, clientVars, taken, history>>
        /\ now' \in Nat /\ dateCache' \in Nat
        /\ dateCache <= dateCache' /\ dateCache' <= now'
    BY <1>0 DEF Tick, RefreshDate, Typed
  <1>2. Typed' /\ Placed'
    BY <1>0, <1>1, PlacedSame DEF Typed, given, clientVars, history
  <1>3. \A d \in Client : Steady(d)
    BY <1>0, <1>1, TypedAt DEF clientVars, history, Steady, Untouched, ServerInv, Received
  <1>4. latest <= latest' /\ UNCHANGED <<given, worker, taken, wire>>
    BY <1>0, <1>1 DEF history, Typed
  <1> QED BY <1>1, <1>2, <1>3, <1>4, EnvironmentKeeps

-------------------------------------------------------------------------------
(***************************************************************************)
(* The steps of the threads: thread w and its client c.                    *)
(***************************************************************************)
LEMMA ThreadKeeps ==
  ASSUME ServerInv, Typed', Placed', NEW w \in Worker, NEW c \in Client,
         UNCHANGED <<given, dateCache>>, latest <= latest',
         \A v \in Worker \ {w} : worker'[v] = worker[v] /\ (Serves(v) => worker[v].client # c),
         \A d \in Client \ {c} : Steady(d),
         Serves(w)' => (Parsed(w) /\ Dated(w))', Received(c)'
  PROVE  ServerInv'
  <1>1. ASSUME NEW v \in Worker \ {w}, Serves(v)' PROVE (Parsed(v) /\ Dated(v))'
    <2>1. /\ Serves(v) /\ worker'[v] = worker[v] /\ worker[v].client \in Client \ {c}
      BY <1>1 DEF Serves, ServerInv, Placed
    <2>2. Parsed(v) /\ Dated(v) /\ Untouched(worker[v].client)
      BY <2>1 DEF ServerInv, Steady
    <2>3. dateCache' \in Nat /\ dateCache <= dateCache' /\ latest \in Nat /\ latest' \in Nat
      BY DEF ServerInv, Typed
    <2> QED BY <2>1, <2>2, <2>3, ServingKept, TypedAt DEF ServerInv, Typed
  <1>2. ASSUME NEW d \in Client \ {c} PROVE Received(d)'
    <2>1. Received(d) /\ Steady(d)
      BY DEF ServerInv
    <2>2. sent'[d] \in Nat
      BY DEF Typed
    <2> QED BY <2>1, <2>2, ReceivedKept, TypedAt DEF ServerInv
  <1> QED BY <1>1, <1>2 DEF ServerInv

\* Thread w keeps its client.
LEMMA StillPlaced ==
  ASSUME Placed, NEW w \in Worker, Serves(w), worker'[w].client = worker[w].client,
         \A v \in Worker \ {w} : worker'[v] = worker[v], UNCHANGED <<backlog, link>>
  PROVE  Placed'
  <1>1. \A v \in Worker : Serves(v)' => Serves(v) /\ worker'[v].client = worker[v].client
    BY DEF Serves
  <1> QED BY <1>1 DEF Placed

\* What is left of a connection that thread w ends.
LEMMA HungUp ==
  ASSUME Typed, Placed, NEW w \in Worker, Serves(w), Hangup(w), UNCHANGED backlog
  PROVE  /\ worker' \in [Worker -> Thread] /\ ~Serves(w)'
         /\ link' \in [Client -> {"new", "queued", "open", "ended"}]
         /\ link'[worker[w].client] = "ended"
         /\ \A d \in Client \ {worker[w].client} : link'[d] = link[d]
         /\ \A v \in Worker \ {w} : worker'[v] = worker[v]
         /\ Placed'
  <1>0. Idle \in Thread /\ Idle.pc = "accept"
    BY DEF Idle, Thread
  <1>1. /\ worker' \in [Worker -> Thread] /\ ~Serves(w)'
        /\ \A v \in Worker \ {w} : worker'[v] = worker[v]
    BY <1>0 DEF Hangup, Typed, Serves
  <1>2. /\ worker[w].client \in Client
        /\ link' \in [Client -> {"new", "queued", "open", "ended"}]
        /\ link'[worker[w].client] = "ended"
        /\ \A d \in Client \ {worker[w].client} : link'[d] = link[d]
    BY DEF Hangup, Typed, Placed
  <1>3. \A v \in Worker : Serves(v)' =>
           v # w /\ Serves(v) /\ worker'[v].client = worker[v].client
    BY <1>1 DEF Serves
  <1>4. \A v \in Worker : Serves(v)' => worker'[v].client \in Client /\ link'[worker'[v].client] = "open"
    BY <1>2, <1>3 DEF Placed
  <1>5. \A u, v \in Worker : (Serves(u) /\ Serves(v) /\ worker[u].client = worker[v].client)' => u = v
    BY <1>3 DEF Placed
  <1>6. ASSUME NEW v \in Worker, NEW i \in 1 .. Len(backlog'[v]) PROVE link'[backlog'[v][i]] = "queued"
    <2>1. link[backlog[v][i]] = "queued" /\ backlog[v][i] \in Client
      BY <1>6, TypedAt, ElementOfSeq DEF Placed
    <2>2. link[worker[w].client] = "open"
      BY DEF Placed
    <2> QED BY <2>1, <2>2, <1>2
  <1> QED BY <1>1, <1>2, <1>4, <1>5, <1>6 DEF Placed

\* The clients of the other threads are others.
LEMMA OtherClients ==
  ASSUME Placed, NEW w \in Worker, Serves(w)
  PROVE  \A v \in Worker \ {w} : Serves(v) => worker[v].client # worker[w].client
  BY DEF Placed

LEMMA AcceptKeeps ==
  ASSUME ServerInv, NEW w \in Worker, Accept(w)
  PROVE  ServerInv'
  <1>0. Typed /\ Placed /\ ~Serves(w) /\ backlog[w] # <<>> /\ backlog[w] \in Seq(Client)
    BY TypedAt DEF ServerInv, Accept, Serves
  <1>1. PICK c : c = Head(backlog[w])
    OBVIOUS
  <1>2. /\ c \in Client /\ c = backlog[w][1] /\ 1 \in 1 .. Len(backlog[w]) /\ link[c] = "queued"
        /\ Tail(backlog[w]) \in Seq(Client)
        /\ Len(Tail(backlog[w])) = Len(backlog[w]) - 1 /\ Len(backlog[w]) \in Nat
        /\ \A i \in 1 .. Len(Tail(backlog[w])) : Tail(backlog[w])[i] = backlog[w][i + 1]
    <2>1. Len(backlog[w]) \in Nat /\ Len(backlog[w]) > 0 /\ c \in Client /\ c = backlog[w][1]
      BY <1>0, <1>1, EmptySeq, LenProperties, HeadTailProperties
    <2>2. 1 \in 1 .. Len(backlog[w])
      BY <2>1
    <2> QED BY <1>0, <2>1, <2>2, HeadTailProperties DEF Placed
  <1>3. /\ worker' = [worker EXCEPT ![w] = [Idle EXCEPT !.pc = "line", !.client = c, !.slot = slot]]
        /\ backlog' = [backlog EXCEPT ![w] = Tail(backlog[w])]
        /\ link' = [link EXCEPT ![c] = "open"]
        /\ slot' \in {0, 1}
        /\ UNCHANGED <<given, now, dateCache, sent, eof, taken, history>>
    BY <1>0, <1>1 DEF Accept, Typed
  <1>4. /\ worker' \in [Worker -> Thread] /\ \A v \in Worker \ {w} : worker'[v] = worker[v]
        /\ worker'[w].pc = "line" /\ worker'[w].client = c
        /\ worker'[w].second = worker'[w].rendered /\ worker'[w].flipped = FALSE
    BY <1>0, <1>2, <1>3 DEF Typed, Thread, Idle
  <1>5. /\ link' \in [Client -> {"new", "queued", "open", "ended"}]
        /\ link'[c] = "open" /\ \A d \in Client \ {c} : link'[d] = link[d]
        /\ backlog' \in [Worker -> Seq(Client)]
        /\ \A v \in Worker : backlog'[v] = IF v = w THEN Tail(backlog[w]) ELSE backlog[v]
    BY <1>0, <1>2, <1>3 DEF Typed
  <1>6. Typed'
    BY <1>0, <1>3, <1>4, <1>5 DEF Typed, given, history
  <1>7. \A v \in Worker \ {w} : Serves(v) => worker[v].client # c
    BY <1>0, <1>2 DEF Placed
  <1>8. Placed'
    <2>1. \A v \in Worker : Serves(v)' =>
             \/ v = w /\ worker'[v].client = c
             \/ v # w /\ Serves(v) /\ worker'[v].client = worker[v].client /\ worker[v].client # c
      BY <1>4, <1>7 DEF Serves
    <2>2. \A v \in Worker : Serves(v)' => worker'[v].client \in Client /\ link'[worker'[v].client] = "open"
      BY <1>0, <1>2, <1>5, <2>1 DEF Placed
    <2>3. \A u, v \in Worker : (Serves(u) /\ Serves(v) /\ worker[u].client = worker[v].client)' => u = v
      BY <1>0, <2>1 DEF Placed
    <2> DEFINE Off(v) == IF v = w THEN 1 ELSE 0
    <2>4. ASSUME NEW v \in Worker, NEW i \in 1 .. Len(backlog'[v])
          PROVE  i + Off(v) \in 1 .. Len(backlog[v]) /\ backlog'[v][i] = backlog[v][i + Off(v)]
      <3>1. CASE v = w
        <4>1. i \in 1 .. Len(Tail(backlog[w])) /\ backlog'[v][i] = Tail(backlog[w])[i]
          BY <1>5, <2>4, <3>1
        <4> QED BY <1>2, <3>1, <4>1
      <3>2. CASE v # w
        BY <1>5, <2>4, <3>2
      <3> QED BY <3>1, <3>2
    <2>5. ASSUME NEW v \in Worker, NEW i \in 1 .. Len(backlog'[v]) PROVE link'[backlog'[v][i]] = "queued"
      <3>1. PICK k \in 1 .. Len(backlog[v]) : backlog'[v][i] = backlog[v][k] /\ (v = w => k # 1)
        BY <2>4
      <3>2. backlog[v][k] # c /\ backlog[v][k] \in Client /\ link[backlog[v][k]] = "queued"
        BY <1>0, <1>2, <3>1, TypedAt, ElementOfSeq DEF Placed
      <3> QED BY <1>5, <3>1, <3>2
    <2>6. ASSUME NEW u \in Worker, NEW v \in Worker, NEW i \in 1 .. Len(backlog'[u]), NEW j \in 1 .. Len(backlog'[v]),
                 backlog'[u][i] = backlog'[v][j]
          PROVE  u = v /\ i = j
      <3>1. /\ i + Off(u) \in 1 .. Len(backlog[u]) /\ j + Off(v) \in 1 .. Len(backlog[v])
            /\ backlog[u][i + Off(u)] = backlog[v][j + Off(v)]
        BY <2>4, <2>6
      <3>2. u = v /\ i + Off(u) = j + Off(v)
        BY <1>0, <3>1 DEF Placed
      <3> QED BY <3>2
    <2> QED BY <2>2, <2>3, <2>5, <2>6 DEF Placed
  <1>9. Received(c) /\ taken[c] = 0 /\ wire[c] = <<>>
    BY <1>2 DEF ServerInv, Received
  <1>10. Begun(script[c], 0) = 1 .. 0 /\ ~OpenAfter(script[c], 0) /\ Len(<<>>) = 0 /\ 1 .. 0 = {}
    BY DEF Begun, OpenAfter
  <1>11. Parsed(w)'
    <2>1. taken'[c] = 0 /\ wire'[c] = <<>> /\ script' = script
      BY <1>3, <1>9 DEF given, history
    <2> QED BY <1>4, <1>10, <2>1 DEF Parsed
  <1>12. Dated(w)'
    <2>1. wire'[c] = <<>> /\ ~HasFast(<<>>) /\ FastDates(<<>>, worker'[w].slot)
      BY <1>3, <1>9, <1>10 DEF history, HasFast, FastDates
    <2> QED BY <1>4, <2>1 DEF Dated
  <1>13. \A d \in Client \ {c} : Steady(d)
    BY <1>0, <1>3, <1>5, TypedAt DEF Steady, Untouched, history, ServerInv, Received
  <1>14. Received(c)'
    <2>1. Steady(c)
      BY <1>0, <1>2, <1>3, <1>5, <1>9, TypedAt DEF Steady, Untouched, history, Received
    <2>2. sent'[c] \in Nat /\ UNCHANGED given
      BY <1>0, <1>2, <1>3, TypedAt
    <2> QED BY <1>0, <1>2, <1>9, <2>1, <2>2, TypedAt, ReceivedKept
  <1>15. latest <= latest' /\ UNCHANGED <<given, dateCache>>
    BY <1>0, <1>3 DEF history, Typed
  <1> QED BY <1>2, <1>4, <1>6, <1>7, <1>8, <1>11, <1>12, <1>13, <1>14, <1>15, ThreadKeeps DEF Serves

\* What the proofs about a serving thread start from.
LEMMA ServingAt ==
  ASSUME ServerInv, NEW w \in Worker, Serves(w)
  PROVE  /\ Typed /\ Placed /\ Parsed(w) /\ Dated(w)
         /\ worker[w] \in Thread /\ worker[w].client \in Client
         /\ Received(worker[w].client)
         /\ link[worker[w].client] = "open"
  BY TypedAt DEF ServerInv, Placed

\* The line a thread reads.
LEMMA LineRead ==
  ASSUME Typed, NEW c \in Client, Received(c), Ready(c), Takes(c)
  PROVE  /\ taken[c] \in Nat /\ taken[c] < Len(script[c])
         /\ taken' \in [Client -> Nat]
         /\ taken'[c] = taken[c] + 1 /\ taken'[c] <= sent[c]
         /\ \A d \in Client \ {c} : taken'[d] = taken[d]
         /\ Line(c) = script[c][taken[c] + 1] /\ Line(c) \in Lines
         /\ script[c] \in Seq(Lines) /\ WellFormed(script[c])
  <1>1. script[c] \in Seq(Lines) /\ WellFormed(script[c]) /\ taken[c] \in Nat /\ sent[c] \in Nat
    BY ScriptLines, TypedAt
  <1>2. taken[c] < sent[c] /\ sent[c] <= Len(script[c]) /\ Len(script[c]) \in Nat
    BY TypedAt DEF Ready, Received
  <1>3. script[c][taken[c] + 1] \in Lines /\ taken[c] < Len(script[c])
    BY <1>1, <1>2, NextLine
  <1>4. taken' \in [Client -> Nat] /\ taken'[c] = taken[c] + 1 /\ \A d \in Client \ {c} : taken'[d] = taken[d]
    BY <1>1 DEF Typed, Takes
  <1> QED BY <1>1, <1>2, <1>3, <1>4 DEF Line

\* Reading a line gives the client nothing, so it has received what it had.
LEMMA ReceivedSame ==
  ASSUME Typed, NEW c \in Client, Received(c), link[c] = "open",
         UNCHANGED <<given, wire, sent, eof>>, link'[c] = "open",
         taken'[c] <= sent[c]
  PROVE  Received(c)'
  <1>1. /\ taken'[c] <= sent'[c] /\ sent'[c] <= Len(script'[c])
        /\ (link[c] \in {"new", "queued"} => taken[c] = 0 /\ wire[c] = <<>>)'
        /\ (link[c] = "ended" =>
              \/ GaveUp(c) \/ ToldClose(c) \/ eof[c] = "reset"
              \/ eof[c] = "fin" /\ Begun(script[c], sent[c]) = 1 .. Len(wire[c]))'
    BY DEF Received, given
  <1>2. /\ (\A i \in 1 .. Len(wire[c]) :
              /\ wire[c][i].req = i
              /\ wire[c][i].close => i = Len(wire[c]) /\ link[c] = "ended"
              /\ wire[c][i].fast \/ wire[c][i].floor <= wire[c][i].date)'
        /\ (\E z \in {0, 1} : FastDates(wire[c], z))'
    BY DEF Received
  <1> QED BY <1>1, <1>2 DEF Received

\* The other clients, when thread w reads or writes for c.
LEMMA OthersSteady ==
  ASSUME ServerInv, NEW c \in Client, UNCHANGED <<sent, eof>>,
         \A d \in Client \ {c} : taken'[d] = taken[d] /\ wire'[d] = wire[d] /\ link'[d] = link[d]
  PROVE  \A d \in Client \ {c} : Steady(d)
  BY TypedAt DEF Steady, Untouched, ServerInv, Received

\* Thread w reads of its client and keeps it.
LEMMA ReaderKeeps ==
  ASSUME ServerInv, NEW w \in Worker, Serves(w), NEW c \in Client, c = worker[w].client,
         UNCHANGED <<given, now, dateCache, slot, backlog, clientVars, history>>,
         taken' \in [Client -> Nat], taken'[c] <= sent[c],
         \A d \in Client \ {c} : taken'[d] = taken[d],
         worker' \in [Worker -> Thread], worker'[w].client = c,
         \A v \in Worker \ {w} : worker'[v] = worker[v],
         (Parsed(w) /\ Dated(w))'
  PROVE  ServerInv'
  <1>1. Typed /\ Placed /\ Received(c) /\ link[c] = "open"
    BY ServingAt
  <1>2. Typed'
    BY <1>1 DEF Typed, given, clientVars, history
  <1>3. Placed'
    BY <1>1, StillPlaced DEF clientVars
  <1>4. Received(c)'
    BY <1>1, ReceivedSame DEF clientVars, history
  <1>5. \A d \in Client \ {c} : Steady(d)
    BY OthersSteady DEF clientVars, history
  <1>6. \A v \in Worker \ {w} : worker'[v] = worker[v] /\ (Serves(v) => worker[v].client # c)
    BY <1>1, OtherClients
  <1>7. latest <= latest' /\ UNCHANGED <<given, dateCache>>
    BY <1>1 DEF history, Typed
  <1> QED BY <1>2, <1>3, <1>4, <1>5, <1>6, <1>7, ThreadKeeps

LEMMA ReadHeaderKeeps ==
  ASSUME ServerInv, NEW w \in Worker, ReadHeader(w)
  PROVE  ServerInv'
  <1>0. PICK c : c = worker[w].client
    OBVIOUS
  <1>1. /\ worker[w].pc = "headers" /\ Ready(c) /\ Line(c).kind # "blank" /\ Takes(c)
        /\ UNCHANGED <<given, now, dateCache, slot, backlog, clientVars, history>>
    BY <1>0 DEF ReadHeader
  <1>2. Serves(w)
    BY <1>1 DEF Serves
  <1>3. /\ Typed /\ Placed /\ Parsed(w) /\ Dated(w) /\ worker[w] \in Thread
        /\ c \in Client /\ Received(c) /\ link[c] = "open"
    BY <1>0, <1>2, ServingAt
  <1>4. /\ taken' \in [Client -> Nat] /\ taken[c] \in Nat /\ taken'[c] = taken[c] + 1 /\ taken'[c] <= sent[c]
        /\ \A d \in Client \ {c} : taken'[d] = taken[d]
        /\ script[c] \in Seq(Lines) /\ WellFormed(script[c])
        /\ taken[c] < Len(script[c]) /\ Line(c) = script[c][taken[c] + 1]
    BY <1>1, <1>3, LineRead
  <1>5. OpenAfter(script[c], taken[c])
    BY <1>0, <1>1, <1>3 DEF Parsed
  <1>6. /\ ~Asks(Line(c)) /\ OpenAfter(script[c], taken'[c])
        /\ Begun(script[c], taken'[c]) = Begun(script[c], taken[c])
    BY <1>1, <1>4, <1>5, NextLine
  <1>7. PICK b \in BOOLEAN : worker' = [worker EXCEPT ![w].close = b]
    <2>1. CloseAfter(w, Line(c)) \in BOOLEAN
      BY <1>3 DEF CloseAfter, Thread
    <2> QED BY <1>0, <1>3, <2>1 DEF ReadHeader, Thread
  <1>8. /\ worker' \in [Worker -> Thread] /\ \A v \in Worker \ {w} : worker'[v] = worker[v]
        /\ worker'[w].pc = "headers" /\ worker'[w].client = c
        /\ worker'[w].line = worker[w].line
    BY <1>0, <1>1, <1>3, <1>7 DEF Typed, Thread
  <1>9. /\ worker'[w].slot = worker[w].slot /\ worker'[w].flipped = worker[w].flipped
        /\ worker'[w].second = worker[w].second /\ worker'[w].rendered = worker[w].rendered
        /\ worker'[w].floor = worker[w].floor
    BY <1>3, <1>7 DEF Typed, Thread
  <1>10. Parsed(w)'
    BY <1>0, <1>1, <1>3, <1>6, <1>8 DEF Parsed, given, history
  <1>11. Dated(w)'
    BY <1>0, <1>1, <1>3, <1>8, <1>9 DEF Dated, given, history
  <1> QED BY <1>0, <1>1, <1>2, <1>3, <1>4, <1>8, <1>10, <1>11, ReaderKeeps

\* Thread w ends the connection of its client.
LEMMA HangupKeeps ==
  ASSUME ServerInv, NEW w \in Worker, Serves(w), NEW c \in Client, c = worker[w].client,
         Hangup(w), UNCHANGED <<given, now, dateCache, slot, backlog, sent, eof>>,
         taken' \in [Client -> Nat], wire' \in [Client -> Seq(Response)], latest' \in Nat,
         latest <= latest', latest' <= dateCache,
         \A d \in Client \ {c} : taken'[d] = taken[d] /\ wire'[d] = wire[d],
         Received(c)'
  PROVE  ServerInv'
  <1>1. Typed /\ Placed
    BY ServingAt
  <1>2. /\ worker' \in [Worker -> Thread] /\ ~Serves(w)'
        /\ link' \in [Client -> {"new", "queued", "open", "ended"}]
        /\ \A d \in Client \ {c} : link'[d] = link[d]
        /\ \A v \in Worker \ {w} : worker'[v] = worker[v]
        /\ Placed'
    BY <1>1, HungUp
  <1>3. Typed'
    BY <1>1, <1>2 DEF Typed, given
  <1>4. \A d \in Client \ {c} : Steady(d)
    BY <1>2, OthersSteady
  <1>5. \A v \in Worker \ {w} : worker'[v] = worker[v] /\ (Serves(v) => worker[v].client # c)
    BY <1>1, <1>2, OtherClients
  <1> QED BY <1>2, <1>3, <1>4, <1>5, ThreadKeeps

\* What c has received, when its connection ends without a response.
LEMMA ReceivedEnds ==
  ASSUME Typed, NEW c \in Client, Received(c), UNCHANGED <<given, wire, sent, eof>>,
         link'[c] = "ended", taken'[c] <= sent[c],
         \/ GaveUp(c)' \/ eof[c] = "reset"
         \/ eof[c] = "fin" /\ Begun(script[c], sent[c]) = 1 .. Len(wire[c])
  PROVE  Received(c)'
  <1>1. /\ taken'[c] <= sent'[c] /\ sent'[c] <= Len(script'[c])
        /\ (link[c] \in {"new", "queued"} => taken[c] = 0 /\ wire[c] = <<>>)'
        /\ (link[c] = "ended" =>
              \/ GaveUp(c) \/ ToldClose(c) \/ eof[c] = "reset"
              \/ eof[c] = "fin" /\ Begun(script[c], sent[c]) = 1 .. Len(wire[c]))'
    BY DEF Received, given
  <1>2. /\ (\A i \in 1 .. Len(wire[c]) :
              /\ wire[c][i].req = i
              /\ wire[c][i].close => i = Len(wire[c]) /\ link[c] = "ended"
              /\ wire[c][i].fast \/ wire[c][i].floor <= wire[c][i].date)'
        /\ (\E z \in {0, 1} : FastDates(wire[c], z))'
    BY DEF Received
  <1> QED BY <1>1, <1>2 DEF Received

LEMMA EndKeeps ==
  ASSUME ServerInv, NEW w \in Worker, End(w)
  PROVE  ServerInv'
  <1>0. PICK c : c = worker[w].client
    OBVIOUS
  <1>1. /\ \/ worker[w].pc = "line" /\ AtEnd(c)
           \/ worker[w].pc # "accept" /\ Broken(c)
        /\ Hangup(w) /\ UNCHANGED <<given, now, dateCache, slot, backlog, sent, eof, taken, history>>
    BY <1>0 DEF End
  <1>2. Serves(w)
    BY <1>1 DEF Serves
  <1>3. Typed /\ Placed /\ Parsed(w) /\ c \in Client /\ Received(c) /\ link'[c] = "ended"
    BY <1>0, <1>1, <1>2, ServingAt, HungUp
  <1>4. \/ eof[c] = "reset"
        \/ eof[c] = "fin" /\ Begun(script[c], sent[c]) = 1 .. Len(wire[c])
    BY <1>0, <1>1, <1>3 DEF AtEnd, Broken, Parsed
  <1>5. UNCHANGED <<wire, latest, taken>> /\ taken'[c] <= sent[c]
    BY <1>1, <1>3 DEF history, Received
  <1>6. Received(c)'
    BY <1>1, <1>3, <1>4, <1>5, ReceivedEnds
  <1>7. /\ taken' \in [Client -> Nat] /\ wire' \in [Client -> Seq(Response)] /\ latest' \in Nat
        /\ latest <= latest' /\ latest' <= dateCache
    BY <1>3, <1>5 DEF Typed
  <1> QED BY <1>0, <1>1, <1>2, <1>3, <1>5, <1>6, <1>7, HangupKeeps

LEMMA ReadLineKeeps ==
  ASSUME ServerInv, NEW w \in Worker, ReadLine(w)
  PROVE  ServerInv'
  <1>0. PICK c : c = worker[w].client
    OBVIOUS
  <1>1. /\ worker[w].pc = "line" /\ Ready(c) /\ Takes(c)
        /\ UNCHANGED <<given, now, dateCache, slot, backlog, sent, eof, history>>
        /\ \/ Line(c).kind = "blank" /\ UNCHANGED <<worker, link>>
           \/ Line(c).kind # "blank" /\ Refused(Line(c)) /\ Hangup(w)
           \/ /\ Line(c).kind # "blank" /\ UNCHANGED link
              /\ worker' = [worker EXCEPT ![w].pc = "headers", ![w].line = Line(c), ![w].close = CloseOf(Line(c)),
                                          ![w].floor = latest]
    BY <1>0 DEF ReadLine
  <1>2. Serves(w)
    BY <1>1 DEF Serves
  <1>3. /\ Typed /\ Placed /\ Parsed(w) /\ Dated(w) /\ worker[w] \in Thread
        /\ c \in Client /\ Received(c) /\ link[c] = "open"
    BY <1>0, <1>2, ServingAt
  <1>4. /\ taken' \in [Client -> Nat] /\ taken[c] \in Nat /\ taken'[c] = taken[c] + 1 /\ taken'[c] <= sent[c]
        /\ \A d \in Client \ {c} : taken'[d] = taken[d]
        /\ script[c] \in Seq(Lines) /\ WellFormed(script[c])
        /\ taken[c] < Len(script[c]) /\ Line(c) = script[c][taken[c] + 1] /\ Line(c) \in Lines
    BY <1>1, <1>3, LineRead
  <1>5. ~OpenAfter(script[c], taken[c]) /\ Begun(script[c], taken[c]) = 1 .. Len(wire[c])
    <2>1. taken[c] # sent[c]
      BY <1>3, <1>4, TypedAt
    <2> QED BY <1>0, <1>1, <1>3, <2>1 DEF Parsed
  <1>6. CASE Line(c).kind = "blank" /\ UNCHANGED <<worker, link>>
    <2>1. ~OpenAfter(script[c], taken'[c]) /\ Begun(script[c], taken'[c]) = 1 .. Len(wire[c])
      BY <1>4, <1>5, <1>6, NextLine DEF Asks
    <2>2. Parsed(w)'
      BY <1>0, <1>1, <1>3, <1>6, <2>1 DEF Parsed, given, history
    <2>3. Dated(w)'
      BY <1>0, <1>1, <1>3, <1>6 DEF Dated, given, history, Static
    <2>4. /\ worker' \in [Worker -> Thread] /\ worker'[w].client = c
          /\ \A v \in Worker \ {w} : worker'[v] = worker[v]
      BY <1>0, <1>3, <1>6 DEF Typed
    <2> QED BY <1>0, <1>1, <1>2, <1>3, <1>4, <1>6, <2>2, <2>3, <2>4, ReaderKeeps DEF clientVars
  <1>7. CASE Refused(Line(c)) /\ Hangup(w)
    <2>1. GaveUp(c)'
      BY <1>1, <1>4, <1>7 DEF GaveUp, Refused, given
    <2>2. link'[c] = "ended"
      BY <1>0, <1>1, <1>2, <1>3, <1>7, HungUp
    <2>3. UNCHANGED <<wire, latest>>
      BY <1>1 DEF history
    <2>4. Received(c)'
      BY <1>1, <1>3, <1>4, <2>1, <2>2, <2>3, ReceivedEnds
    <2>5. /\ wire' \in [Client -> Seq(Response)] /\ latest' \in Nat
          /\ latest <= latest' /\ latest' <= dateCache
      BY <1>3, <2>3 DEF Typed
    <2> QED BY <1>0, <1>1, <1>2, <1>3, <1>4, <1>7, <2>3, <2>4, <2>5, HangupKeeps
  <1>8. CASE /\ Line(c).kind # "blank" /\ UNCHANGED link
             /\ worker' = [worker EXCEPT ![w].pc = "headers", ![w].line = Line(c), ![w].close = CloseOf(Line(c)),
                                         ![w].floor = latest]
    <2>1. PICK l \in Lines : l = Line(c)
      BY <1>4
    <2>2. PICK b \in BOOLEAN : b = CloseOf(l)
      BY <2>1 DEF CloseOf, Lines
    <2>3. Asks(l)
      <3>1. l.kind # "header"
        BY <1>4, <1>5, <2>1, NextLine
      <3> QED BY <1>8, <2>1, <3>1, LineTypes DEF Asks
    <2>4. /\ OpenAfter(script[c], taken'[c]) /\ Begun(script[c], taken'[c]) = 1 .. l.req
          /\ Begun(script[c], taken[c]) = 1 .. l.req - 1 /\ l.req \in Nat /\ l.req > 0
      BY <1>4, <2>1, <2>3, NextLine
    <2>5. l.req = Len(wire[c]) + 1
      <3>1. PICK m \in Nat, n \in Nat : m = l.req - 1 /\ n = Len(wire[c])
        BY <1>3, <2>4, TypedAt
      <3>2. 1 .. m = 1 .. n
        BY <1>5, <2>4, <3>1
      <3>3. m = n
        BY <3>2
      <3> QED BY <2>4, <3>1, <3>3
    <2>6. /\ worker' = [worker EXCEPT ![w].pc = "headers", ![w].line = l, ![w].close = b, ![w].floor = latest]
          /\ worker \in [Worker -> Thread] /\ latest \in Nat
      BY <1>3, <1>8, <2>1, <2>2 DEF Typed
    <2>7. /\ worker' \in [Worker -> Thread] /\ \A v \in Worker \ {w} : worker'[v] = worker[v]
          /\ worker'[w].pc = "headers" /\ worker'[w].client = c /\ worker'[w].line = l
          /\ worker'[w].floor = latest
      BY <1>0, <1>3, <2>6 DEF Thread
    <2>8. /\ worker'[w].slot = worker[w].slot /\ worker'[w].flipped = worker[w].flipped
          /\ worker'[w].second = worker[w].second /\ worker'[w].rendered = worker[w].rendered
      BY <1>3, <2>6 DEF Thread
    <2>9. Parsed(w)'
      <3>1. UNCHANGED <<script, wire>>
        BY <1>1 DEF given, history
      <3>2. \A i \in 1 .. Len(wire[c]) : ~wire[c][i].close
        BY <1>0, <1>3 DEF Parsed
      <3>3. Begun(script[c], taken'[c]) = 1 .. Len(wire[c]) + 1
        BY <2>4, <2>5
      <3> QED BY <2>3, <2>4, <2>5, <2>7, <3>1, <3>2, <3>3 DEF Parsed
    <2>10. Dated(w)'
      BY <1>0, <1>1, <1>3, <2>6, <2>7, <2>8 DEF Dated, given, history
    <2>11. UNCHANGED <<given, now, dateCache, slot, backlog, clientVars, history>>
      BY <1>1, <1>8 DEF clientVars
    <2>12. /\ taken' \in [Client -> Nat] /\ taken'[c] <= sent[c]
           /\ \A d \in Client \ {c} : taken'[d] = taken[d]
      BY <1>4
    <2> QED BY <1>0, <1>2, <1>3, <2>7, <2>9, <2>10, <2>11, <2>12, ReaderKeeps
  <1> QED BY <1>1, <1>6, <1>7, <1>8

\* A response is chosen: what becomes of the thread.
LEMMA ChosenThread ==
  ASSUME Typed, NEW w \in Worker, Dated(w), NEW close \in BOOLEAN, Chosen(w, close),
         worker[w].pc = "headers"
  PROVE  /\ worker' \in [Worker -> Thread] /\ \A v \in Worker \ {w} : worker'[v] = worker[v]
         /\ worker'[w].pc = "write" /\ worker'[w].client = worker[w].client
         /\ worker'[w].line = worker[w].line /\ worker'[w].floor = worker[w].floor
         /\ worker'[w].date = DateOf(w) /\ DateOf(w) \in Nat
         /\ worker'[w].slot = IF Flipped(w) THEN 1 - worker[w].slot ELSE worker[w].slot
         /\ worker'[w].flipped <=> (worker[w].flipped \/ Flipped(w))
         /\ worker'[w].second = worker'[w].rendered
         /\ ~Static(worker[w].line) => DateOf(w) = dateCache
  <1>0. worker[w] \in Thread /\ worker[w].slot \in {0, 1} /\ worker[w].rendered = worker[w].second /\ dateCache \in Nat
    BY TypedAt DEF Dated, Typed
  <1>1. Rendered(w) = dateCache
    BY <1>0 DEF Rendered
  <1>2. DateOf(w) \in Nat /\ (~Static(worker[w].line) => DateOf(w) = dateCache)
    BY <1>0, <1>1 DEF DateOf
  <1>3. PICK d \in Nat, s \in {0, 1}, f \in BOOLEAN, x \in Nat \cup {Null} :
          /\ d = DateOf(w) /\ s = (IF Flipped(w) THEN 1 - worker[w].slot ELSE worker[w].slot)
          /\ f = (worker[w].flipped \/ Flipped(w))
          /\ x = (IF mode = "benchmark" THEN dateCache ELSE worker[w].second)
    <2>1. (IF Flipped(w) THEN 1 - worker[w].slot ELSE worker[w].slot) \in {0, 1}
      BY <1>0
    <2>2. (worker[w].flipped \/ Flipped(w)) \in BOOLEAN
      BY Zenon
    <2>3. (IF mode = "benchmark" THEN dateCache ELSE worker[w].second) \in Nat \cup {Null}
      BY <1>0 DEF Thread
    <2> QED BY <1>2, <2>1, <2>2, <2>3, Zenon
  <1>4. x = (IF mode = "benchmark" THEN Rendered(w) ELSE worker[w].rendered)
    BY <1>0, <1>1, <1>3
  <1>5. worker' = [worker EXCEPT ![w] =
          [worker[w] EXCEPT !.pc = "write", !.close = close, !.date = d, !.slot = s, !.flipped = f,
                            !.second = x, !.rendered = x]]
    BY <1>3, <1>4, Zenon DEF Chosen
  <1>6. /\ worker' \in [Worker -> Thread] /\ \A v \in Worker \ {w} : worker'[v] = worker[v]
        /\ worker'[w].pc = "write" /\ worker'[w].client = worker[w].client
        /\ worker'[w].line = worker[w].line /\ worker'[w].floor = worker[w].floor
        /\ worker'[w].date = d /\ worker'[w].slot = s /\ worker'[w].flipped = f
        /\ worker'[w].second = x /\ worker'[w].rendered = x
    BY ZenonT(60), <1>0, <1>5 DEF Typed, Thread
  <1> QED BY <1>2, <1>3, <1>6, Zenon

\* The date chosen is right.
LEMMA ChosenDated ==
  ASSUME ServerInv, NEW w \in Worker, NEW close \in BOOLEAN, Chosen(w, close),
         worker[w].pc = "headers", UNCHANGED <<given, dateCache, history>>
  PROVE  Dated(w)'
  <1>0. Serves(w) /\ Typed /\ Dated(w) /\ worker[w].slot \in {0, 1}
    BY TypedAt DEF Serves, ServerInv
  <1>1. PICK c : c = worker[w].client
    OBVIOUS
  <1>2. /\ worker'[w].pc = "write" /\ worker'[w].client = c
        /\ worker'[w].line = worker[w].line /\ worker'[w].floor = worker[w].floor
        /\ worker'[w].date = DateOf(w) /\ DateOf(w) \in Nat
        /\ worker'[w].slot = IF Flipped(w) THEN 1 - worker[w].slot ELSE worker[w].slot
        /\ worker'[w].flipped <=> (worker[w].flipped \/ Flipped(w))
        /\ worker'[w].second = worker'[w].rendered
        /\ ~Static(worker[w].line) => DateOf(w) = dateCache
    BY <1>0, <1>1, ChosenThread
  <1>3. UNCHANGED <<mode, dateCache, wire, latest>>
    BY DEF given, history
  <1>4. worker[w].floor <= latest /\ latest <= dateCache
    BY <1>0 DEF Dated, Typed
  <1>5. Static(worker[w].line)' <=> Static(worker[w].line)
    BY <1>2, <1>3 DEF Static
  <1>6. /\ HasFast(wire[c]) <=> worker[w].flipped
        /\ FastDates(wire[c], worker[w].slot)
    BY <1>0, <1>1, worker[w].pc # "write" DEF Dated
  <1>7. CASE ~Flipped(w)
    <2>1. worker'[w].slot = worker[w].slot /\ (worker'[w].flipped <=> worker[w].flipped)
      BY <1>2, <1>7
    <2>2. Static(worker[w].line) => worker[w].flipped /\ DateOf(w) = worker[w].slot
      BY <1>7 DEF Flipped, DateOf
    <2>3. CASE Static(worker[w].line)
      <3>1. HasFast(wire[c])
        BY <1>6, <2>2, <2>3
      <3> QED BY <1>2, <1>3, <1>4, <1>5, <1>6, <2>1, <2>2, <2>3, <3>1 DEF Dated
    <2>4. CASE ~Static(worker[w].line)
      <3>1. DateOf(w) = dateCache /\ worker[w].floor <= dateCache
        BY <1>0, <1>2, <1>4, <2>4, TypedAt DEF Typed
      <3> QED BY <1>2, <1>3, <1>4, <1>5, <1>6, <2>1, <2>4, <3>1 DEF Dated
    <2> QED BY <2>3, <2>4
  <1>8. CASE Flipped(w)
    <2>1. worker'[w].slot = 1 - worker[w].slot /\ worker'[w].flipped /\ 1 - worker'[w].slot = worker[w].slot
      BY <1>0, <1>2, <1>8
    <2>2. ~HasFast(wire[c])
      BY <1>6, <1>8 DEF Flipped
    <2>3. Static(worker[w].line) /\ DateOf(w) = worker[w].slot
      BY <1>8 DEF Flipped, DateOf
    <2>4. FastDates(wire[c], worker'[w].slot)
      BY <2>2 DEF FastDates, HasFast
    <2> QED BY <1>2, <1>3, <1>4, <1>5, <2>1, <2>2, <2>3, <2>4 DEF Dated
  <1> QED BY <1>7, <1>8

LEMMA AnswerKeeps ==
  ASSUME ServerInv, NEW w \in Worker, Answer(w) \/ AnswerAtEnd(w)
  PROVE  ServerInv'
  <1>0. PICK c : c = worker[w].client
    OBVIOUS
  <1>1. /\ worker[w].pc = "headers" /\ Serves(w)
        /\ UNCHANGED <<given, now, dateCache, slot, backlog, clientVars, history>>
    BY DEF Answer, AnswerAtEnd, Serves
  <1>2. /\ Typed /\ Placed /\ Parsed(w) /\ Dated(w) /\ worker[w] \in Thread
        /\ c \in Client /\ Received(c) /\ link[c] = "open"
    BY <1>0, <1>1, ServingAt
  <1>3. PICK close \in BOOLEAN : Chosen(w, close)
    <2>1. worker[w].close \in BOOLEAN /\ (worker[w].close \/ mode = "benchmark") \in BOOLEAN
      BY <1>2 DEF Thread
    <2> QED BY <2>1 DEF Answer, AnswerAtEnd
  <1>4. /\ worker' \in [Worker -> Thread] /\ \A v \in Worker \ {w} : worker'[v] = worker[v]
        /\ worker'[w].pc = "write" /\ worker'[w].client = c /\ worker'[w].line = worker[w].line
    BY <1>0, <1>1, <1>2, <1>3, ChosenThread
  <1>5. Dated(w)'
    BY <1>1, <1>3, ChosenDated
  <1>6. /\ worker[w].line \in Lines /\ Asks(worker[w].line)
        /\ worker[w].line.req = Len(wire[c]) + 1
        /\ Begun(script[c], taken[c]) = 1 .. Len(wire[c]) + 1
        /\ \A i \in 1 .. Len(wire[c]) : ~wire[c][i].close
    BY <1>0, <1>1, <1>2 DEF Parsed
  <1>7. /\ taken' \in [Client -> Nat] /\ taken'[c] <= sent[c]
        /\ \A d \in Client \ {c} : taken'[d] = taken[d]
        /\ Begun(script[c], taken'[c]) = Begun(script[c], taken[c])
        /\ ~OpenAfter(script[c], taken'[c]) \/ (eof[c] = "fin" /\ taken'[c] = sent[c])
    <2>1. CASE Answer(w)
      <3>1. Ready(c) /\ Takes(c) /\ Line(c).kind = "blank"
        BY <1>0, <2>1 DEF Answer
      <3>2. /\ taken' \in [Client -> Nat] /\ taken[c] \in Nat /\ taken'[c] = taken[c] + 1 /\ taken'[c] <= sent[c]
            /\ \A d \in Client \ {c} : taken'[d] = taken[d]
            /\ script[c] \in Seq(Lines) /\ WellFormed(script[c])
            /\ taken[c] < Len(script[c]) /\ Line(c) = script[c][taken[c] + 1]
        BY <1>2, <3>1, LineRead
      <3> QED BY <3>1, <3>2, NextLine DEF Asks
    <2>2. CASE AnswerAtEnd(w)
      <3>1. taken' = taken /\ eof[c] = "fin" /\ taken[c] = sent[c]
        BY <1>0, <2>2 DEF AnswerAtEnd, AtEnd
      <3> QED BY <1>2, <3>1 DEF Typed, Received
    <2> QED BY <2>1, <2>2
  <1>8. Parsed(w)'
    <2>1. UNCHANGED <<script, eof, sent, wire>>
      BY <1>1 DEF given, clientVars, history
    <2> QED BY <1>4, <1>6, <1>7, <2>1 DEF Parsed
  <1> QED BY <1>0, <1>1, <1>2, <1>4, <1>5, <1>7, <1>8, ReaderKeeps

-------------------------------------------------------------------------------
(***************************************************************************)
(* Writing a response.                                                     *)
(***************************************************************************)
\* One more response: it is the first of the prebaked ones only if none came before.
LEMMA OneMore ==
  ASSUME NEW got \in Seq(Response), NEW e \in Response, NEW s \in {0, 1}, FastDates(got, s),
         e.fast => e.date = IF HasFast(got) THEN s ELSE 1 - s
  PROVE  /\ FastDates(Append(got, e), s)
         /\ HasFast(Append(got, e)) <=> HasFast(got) \/ e.fast
  <1>1. PICK n \in Nat : n = Len(got)
    BY LenProperties
  <1>2. PICK more \in Seq(Response) : more = Append(got, e)
    BY AppendProperties
  <1>3. /\ Len(more) = n + 1 /\ DOMAIN more = 1 .. n + 1 /\ DOMAIN got = 1 .. n
        /\ more[n + 1] = e /\ \A i \in 1 .. n : more[i] = got[i]
    BY <1>1, <1>2, AppendProperties, LenProperties
  <1>4. HasFast(more) <=> HasFast(got) \/ e.fast
    BY <1>1, <1>3 DEF HasFast
  <1>5. ASSUME NEW i \in 1 .. n, got[i].fast PROVE FirstFast(more, i) <=> FirstFast(got, i)
    BY <1>3, <1>5 DEF FirstFast
  <1>6. e.fast => (FirstFast(more, n + 1) <=> ~HasFast(got))
    BY <1>1, <1>3 DEF FirstFast, HasFast
  <1>7. ASSUME NEW i \in 1 .. n + 1, more[i].fast
        PROVE  more[i].date = IF FirstFast(more, i) THEN 1 - s ELSE s
    <2>1. CASE i \in 1 .. n
      BY <1>1, <1>3, <1>5, <1>7, <2>1 DEF FastDates
    <2>2. CASE i = n + 1
      BY <1>3, <1>6, <1>7, <2>2
    <2> QED BY <2>1, <2>2
  <1>8. FastDates(more, s)
    BY <1>3, <1>7 DEF FastDates
  <1> QED BY <1>2, <1>4, <1>8

\* The client has received one response more.
LEMMA ReceivedMore ==
  ASSUME Typed, NEW c \in Client, Received(c), link[c] = "open",
         UNCHANGED <<given, taken, sent, eof>>,
         NEW e \in Response, wire'[c] = Append(wire[c], e),
         e.req = Len(wire[c]) + 1, e.fast \/ e.floor <= e.date,
         \E z \in {0, 1} : FastDates(wire'[c], z),
         e.close => link'[c] = "ended", ~e.close => link'[c] = "open",
         \A i \in 1 .. Len(wire[c]) : ~wire[c][i].close
  PROVE  Received(c)'
  <1>1. PICK n \in Nat : n = Len(wire[c])
    BY TypedAt
  <1>2. /\ Len(wire'[c]) = n + 1 /\ DOMAIN wire'[c] = 1 .. n + 1
        /\ wire'[c][n + 1] = e /\ \A i \in 1 .. n : wire'[c][i] = wire[c][i]
    <2>1. wire[c] \in Seq(Response)
      BY TypedAt
    <2> QED BY <1>1, <2>1, AppendProperties
  <1>3. ASSUME NEW i \in 1 .. n + 1
        PROVE  /\ wire'[c][i].req = i
               /\ wire'[c][i].close => i = n + 1 /\ link'[c] = "ended"
               /\ wire'[c][i].fast \/ wire'[c][i].floor <= wire'[c][i].date
    <2>1. CASE i \in 1 .. n
      BY <1>1, <1>2, <2>1 DEF Received
    <2>2. CASE i = n + 1
      BY <1>1, <1>2, <2>2
    <2>3. i \in 1 .. n \/ i = n + 1
      OBVIOUS
    <2> QED BY <2>1, <2>2, <2>3, Zenon
  <1>4. link'[c] = "ended" => ToldClose(c)'
    <2> SUFFICES ASSUME e.close PROVE ToldClose(c)'
      BY DEF Response
    <2> QED BY <1>2 DEF ToldClose
  <1>5. link'[c] \notin {"new", "queued"}
    BY DEF Response
  <1>6. taken'[c] <= sent'[c] /\ sent'[c] <= Len(script'[c])
    BY DEF Received, given
  <1> QED BY <1>2, <1>3, <1>4, <1>5, <1>6 DEF Received

LEMMA WriteKeeps ==
  ASSUME ServerInv, NEW w \in Worker, Write(w)
  PROVE  ServerInv'
  <1>0. PICK c, e :
          /\ c = worker[w].client
          /\ e = [req |-> worker[w].line.req, fast |-> Static(worker[w].line), date |-> worker[w].date,
                  close |-> worker[w].close, floor |-> worker[w].floor]
    OBVIOUS
  <1>1. /\ worker[w].pc = "write" /\ Serves(w) /\ Finish(w)
        /\ wire' = [wire EXCEPT ![c] = Append(wire[c], e)]
        /\ latest' = (IF ~Static(worker[w].line) /\ worker[w].date > latest THEN worker[w].date ELSE latest)
        /\ UNCHANGED <<given, now, dateCache, slot, backlog, sent, eof, taken>>
    BY <1>0 DEF Write, Serves
  <1>2. /\ Typed /\ Placed /\ Parsed(w) /\ Dated(w) /\ worker[w] \in Thread
        /\ c \in Client /\ Received(c) /\ link[c] = "open"
        /\ worker[w].slot \in {0, 1}
    BY <1>0, <1>1, ServingAt, TypedAt
  <1>3. /\ worker[w].line \in Lines /\ Asks(worker[w].line)
        /\ worker[w].line.req = Len(wire[c]) + 1
        /\ Begun(script[c], taken[c]) = 1 .. Len(wire[c]) + 1
        /\ ~OpenAfter(script[c], taken[c]) \/ (eof[c] = "fin" /\ taken[c] = sent[c])
        /\ \A i \in 1 .. Len(wire[c]) : ~wire[c][i].close
    BY <1>0, <1>1, <1>2 DEF Parsed
  <1>4. /\ worker[w].date \in Nat /\ worker[w].rendered = worker[w].second
        /\ ~Static(worker[w].line) => worker[w].floor <= worker[w].date /\ worker[w].date <= dateCache
        /\ Static(worker[w].line) =>
             worker[w].flipped /\ worker[w].date = IF HasFast(wire[c]) THEN worker[w].slot ELSE 1 - worker[w].slot
        /\ worker[w].flipped /\ ~Static(worker[w].line) => HasFast(wire[c])
        /\ HasFast(wire[c]) => worker[w].flipped
        /\ FastDates(wire[c], worker[w].slot)
    BY <1>0, <1>1, <1>2 DEF Dated
  <1>5. /\ e \in Response /\ e.req = Len(wire[c]) + 1 /\ e.close = worker[w].close
        /\ e.fast <=> Static(worker[w].line)
        /\ e.date = worker[w].date /\ e.floor = worker[w].floor
    <2>1. PICK f \in BOOLEAN : f = Static(worker[w].line)
      BY DEF Static
    <2>2. worker[w].line.req \in Nat /\ worker[w].close \in BOOLEAN /\ worker[w].floor \in Nat
      BY <1>2, <1>3, LineTypes, TypedAt DEF Thread
    <2> QED BY <1>0, <1>3, <1>4, <2>1, <2>2 DEF Response
  <1>6. wire[c] \in Seq(Response) /\ Append(wire[c], e) \in Seq(Response) /\ Len(wire[c]) \in Nat
    BY <1>2, <1>5, TypedAt, AppendProperties
  <1>7. /\ wire' \in [Client -> Seq(Response)] /\ wire'[c] = Append(wire[c], e)
        /\ Len(wire'[c]) = Len(wire[c]) + 1
        /\ \A d \in Client \ {c} : wire'[d] = wire[d]
    BY <1>1, <1>2, <1>6, AppendProperties DEF Typed
  <1>8. latest' \in Nat /\ latest <= latest' /\ latest' <= dateCache
    BY <1>1, <1>2, <1>4 DEF Typed
  <1>9. /\ FastDates(wire'[c], worker[w].slot)
        /\ HasFast(wire'[c]) <=> HasFast(wire[c]) \/ Static(worker[w].line)
    <2>1. e.fast => e.date = IF HasFast(wire[c]) THEN worker[w].slot ELSE 1 - worker[w].slot
      BY <1>4, <1>5
    <2> QED BY <1>2, <1>4, <1>5, <1>6, <1>7, <2>1, OneMore
  <1>10. e.fast \/ e.floor <= e.date
    BY <1>4, <1>5
  <1>11. UNCHANGED <<taken, sent, eof>> /\ taken' \in [Client -> Nat]
    BY <1>1, <1>2 DEF Typed
  <1>12. CASE worker[w].close
    <2>1. Hangup(w)
      BY <1>1, <1>12 DEF Finish
    <2>2. link'[c] = "ended"
      BY <1>0, <1>1, <1>2, <2>1, HungUp
    <2>3. Received(c)'
      BY <1>1, <1>2, <1>3, <1>5, <1>7, <1>9, <1>10, <1>11, <1>12, <2>2, ReceivedMore
    <2> QED BY <1>0, <1>1, <1>2, <1>7, <1>8, <1>11, <2>1, <2>3, HangupKeeps
  <1>13. CASE ~worker[w].close
    <2>1. /\ UNCHANGED link
          /\ worker' = [worker EXCEPT ![w] =
               [worker[w] EXCEPT !.pc = "line", !.line = Null, !.close = FALSE, !.date = Null, !.floor = 0]]
      BY <1>1, <1>13 DEF Finish, NextRequest
    <2>2. /\ worker' \in [Worker -> Thread] /\ \A v \in Worker \ {w} : worker'[v] = worker[v]
          /\ worker'[w].pc = "line" /\ worker'[w].client = c
          /\ worker'[w].slot = worker[w].slot /\ worker'[w].flipped = worker[w].flipped
          /\ worker'[w].second = worker[w].second /\ worker'[w].rendered = worker[w].rendered
      BY <1>0, <1>2, <2>1 DEF Typed, Thread
    <2>3. Received(c)'
      BY <1>1, <1>2, <1>3, <1>5, <1>7, <1>9, <1>10, <1>11, <1>13, <2>1, ReceivedMore
    <2>4. Typed'
      BY <1>1, <1>2, <1>7, <1>8, <2>1, <2>2 DEF Typed, given
    <2>5. Placed'
      BY <1>0, <1>1, <1>2, <2>1, <2>2, StillPlaced
    <2>6. Parsed(w)'
      <3>1. \A i \in 1 .. Len(wire'[c]) : ~wire'[c][i].close
        BY <1>3, <1>5, <1>6, <1>7, <1>13, AppendProperties
      <3>2. script' = script /\ Begun(script[c], taken[c]) = 1 .. Len(wire'[c])
        BY <1>1, <1>3, <1>7 DEF given
      <3> QED BY <1>3, <1>11, <2>2, <3>1, <3>2 DEF Parsed
    <2>7. Dated(w)'
      <3>1. worker[w].flipped <=> HasFast(wire'[c])
        BY <1>4, <1>9
      <3> QED BY <1>4, <1>9, <2>2, <3>1 DEF Dated
    <2>8. \A d \in Client \ {c} : Steady(d)
      BY <1>2, <1>7, <1>11, <2>1, OthersSteady
    <2>9. \A v \in Worker \ {w} : worker'[v] = worker[v] /\ (Serves(v) => worker[v].client # c)
      BY <1>0, <1>1, <1>2, <2>2, OtherClients
    <2> QED BY <1>1, <1>2, <1>8, <2>3, <2>4, <2>5, <2>6, <2>7, <2>8, <2>9, ThreadKeeps
  <1> QED BY <1>12, <1>13

-------------------------------------------------------------------------------
LEMMA InvInit ==
  ASSUME Init
  PROVE  ServerInv
  <1>1. Idle \in Thread /\ Idle.pc = "accept"
    BY DEF Idle, Thread
  <1>2. \A w \in Worker : ~Serves(w) /\ backlog[w] = <<>>
    BY <1>1 DEF Init, Serves
  <1>3. Typed
    BY <1>1 DEF Init, Typed
  <1>4. Placed
    BY <1>2 DEF Placed
  <1>5. ASSUME NEW c \in Client PROVE Received(c)
    <2>1. /\ taken[c] = 0 /\ sent[c] = 0 /\ wire[c] = <<>> /\ link[c] = "new" /\ Len(script[c]) \in Nat
      BY <1>3, TypedAt DEF Init
    <2>2. FastDates(<<>>, 0)
      BY DEF FastDates
    <2> QED BY <2>1, <2>2 DEF Received
  <1> QED BY <1>2, <1>3, <1>4, <1>5 DEF ServerInv

LEMMA InvStep ==
  ASSUME ServerInv, [Next]_vars
  PROVE  ServerInv'
  <1>1. CASE UNCHANGED vars
    <2>1. UNCHANGED <<given, now, slot, backlog, worker, clientVars, taken, history, dateCache>>
      BY <1>1 DEF vars
    <2>2. Typed' /\ Placed'
      BY <2>1, PlacedSame DEF ServerInv, Typed, given, clientVars, history
    <2>3. \A d \in Client : Steady(d)
      BY <2>1, TypedAt DEF clientVars, history, Steady, Untouched, ServerInv, Received
    <2>4. latest <= latest' /\ dateCache <= dateCache' /\ UNCHANGED <<given, worker, taken, wire>>
      BY <2>1 DEF history, ServerInv, Typed
    <2> QED BY <2>2, <2>3, <2>4, EnvironmentKeeps
  <1>2. ASSUME NEW c \in Client, Connect(c) \/ SendLine(c) \/ Stop(c) PROVE ServerInv'
    BY <1>2, ConnectKeeps, SendLineKeeps, StopKeeps
  <1>3. ASSUME NEW w \in Worker, WorkerStep(w) PROVE ServerInv'
    BY <1>3, AcceptKeeps, ReadLineKeeps, ReadHeaderKeeps, AnswerKeeps, WriteKeeps, EndKeeps DEF WorkerStep
  <1>4. CASE Tick \/ RefreshDate
    BY <1>4, ClockKeeps
  <1> QED BY <1>1, <1>2, <1>3, <1>4 DEF Next

\* In every state a connection is in one place, each thread holds exactly the
\* request of its client that is begun and not answered, and the date a thread
\* has chosen lies between the newest one sent and the clock
\* (lib.rs:412-429, 1161-1308, 1313-1360).
THEOREM ServerInvariant == Spec => []ServerInv
  <1>1. Init => ServerInv
    BY InvInit
  <1>2. ServerInv /\ [Next]_vars => ServerInv'
    BY InvStep
  <1> QED BY <1>1, <1>2, PTL DEF Spec

\* Whatever the clients send and whenever they stop, and however many threads
\* serve them: each request gets one response, in order, none follows one that
\* announced the end, and what was begun before a half-close is answered
\* (lib.rs:1176-1308, 1321-1357).
THEOREM RequestsAnswered == Spec => []OneEach
  <1>1. ServerInv => OneEach
    BY InvImplies
  <1> QED BY <1>1, ServerInvariant, PTL

\* What the Connection header of a response says of the connection is what the
\* server does with it (lib.rs:1176-1214, 1305-1308, 1338-1357).
THEOREM ConnectionAsTold == Spec => []LabelTruthful
  <1>1. ServerInv => LabelTruthful
    BY InvImplies
  <1> QED BY <1>1, ServerInvariant, PTL

\* No response rendered on request carries a Date older than one sent before its
\* request was read, by any thread, and a connection changes between the two
\* prebaked dates once, after its first (lib.rs:561-600, 1208-1211, 1348-1350).
THEOREM DatesInOrder == Spec => []DateOrder
  <1>1. ServerInv => DateOrder
    BY InvImplies
  <1> QED BY <1>1, ServerInvariant, PTL
=============================================================================
