----------------------------- MODULE SyncServer ------------------------------
(***************************************************************************)
(* The blocking servers of the Rust core (lib.rs): run_server with         *)
(* handle_connection for a manifest, run_benchmark_server with             *)
(* handle_benchmark_connection where io_uring is not built in.             *)
(*                                                                         *)
(* Each worker is a thread with a listener of its own on the shared port   *)
(* and serves one connection at a time, to its end.  The servers read      *)
(* lines, so a client is the sequence of lines it sends: request lines,    *)
(* header lines and blank ones.  A request's body is not read as such: it  *)
(* is glued to the front of the line that follows, which is "garbage".     *)
(***************************************************************************)
EXTENDS Naturals, Sequences

CONSTANTS
  Worker,   \* FEARLESS_WORKERS threads
  Client,   \* clients, each for one connection
  Scripts,  \* what the clients may send: for each client the lines, in order
  Modes,    \* which of "manifest", "benchmark" the process may run as
  MaxTime,  \* bound: seconds since the start of the process
  Null

\* The lines, by what a reader at that place makes of them.
Lines ==
  [kind : {"request"}, req : Nat, route : {"static", "routed"}, http10 : BOOLEAN]
    \cup [kind : {"garbage"}, req : Nat]
    \cup [kind : {"header"}, connection : {"close", "keep-alive", "other"}]
    \cup [kind : {"blank"}]

\* Lines that begin a request, and the requests begun in the first p lines of s.
Asks(l) == l.kind \in {"request", "garbage"}
Begun(s, p) == {s[q].req : q \in {q \in 1 .. p : Asks(s[q])}}

\* After the first p lines of s a request waits for the blank line that ends it.
OpenAfter(s, p) ==
  \E q \in 1 .. p : Asks(s[q]) /\ \A r \in 1 .. p : r > q => s[r].kind # "blank"

\* A request line inside a request is one more header, a header outside of one is
\* garbage; the requests are numbered in the order in which they are sent.
WellFormed(s) ==
  \A p \in 1 .. Len(s) :
    /\ s[p].kind = "header" => OpenAfter(s, p - 1)
    /\ Asks(s[p]) => ~OpenAfter(s, p - 1) /\ s[p].req > 0 /\ Begun(s, p - 1) = 1 .. s[p].req - 1

ASSUME ServerAssumption ==
  /\ MaxTime \in Nat /\ Null \notin Client
  /\ \A s \in Scripts : s \in [Client -> Seq(Lines)] /\ \A c \in Client : WellFormed(s[c])

VARIABLES
  mode,      \* which of the two servers runs
  script,    \* per client: the lines it is to send
  now,       \* the clock, in seconds since the start
  dateCache, \* DateCache.current_second
  slot,      \* NEXT_CONNECTION_SLOT, modulo 2
  backlog,   \* per worker: the connections its listener has ready
  worker,    \* per worker: the state of its thread
  link,      \* per client: "new", "queued", "open" or "ended" (by the server)
  sent,      \* per client: lines sent
  taken,     \* per client: lines the server has read
  eof,       \* per client: "no", "fin" (half closed) or "reset"
  wire,      \* history, per client: the responses written to it
  latest     \* history: the newest Date any thread has written on request

clientVars == <<link, sent, eof>>
history == <<wire, latest>>
given == <<mode, script>>
vars == <<given, now, dateCache, slot, backlog, worker, clientVars, taken, history>>

\* The locals of a thread between two connections.
Idle ==
  [pc |-> "accept", client |-> Null, line |-> Null, close |-> FALSE,
   slot |-> 0, flipped |-> FALSE, second |-> Null, rendered |-> Null,
   date |-> Null, floor |-> 0]

Init ==
  /\ mode \in Modes /\ script \in Scripts
  /\ now = 0 /\ dateCache = 0 /\ slot = 0
  /\ backlog = [w \in Worker |-> <<>>] /\ worker = [w \in Worker |-> Idle]
  /\ link = [c \in Client |-> "new"] /\ sent = [c \in Client |-> 0]
  /\ taken = [c \in Client |-> 0] /\ eof = [c \in Client |-> "no"]
  /\ wire = [c \in Client |-> <<>>] /\ latest = 0

-----------------------------------------------------------------------------
\* Clients, the clock and DateCache's thread

\* The kernel hashes a connection to one of the listeners.
Connect(c) ==
  /\ link[c] = "new"
  /\ link' = [link EXCEPT ![c] = "queued"]
  /\ \E w \in Worker : backlog' = [backlog EXCEPT ![w] = Append(@, c)]
  /\ UNCHANGED <<given, now, dateCache, slot, worker, sent, eof, taken, history>>

SendLine(c) ==
  /\ link[c] \in {"queued", "open"} /\ eof[c] = "no" /\ sent[c] < Len(script[c])
  /\ sent' = [sent EXCEPT ![c] = @ + 1]
  /\ UNCHANGED <<given, now, dateCache, slot, backlog, worker, link, eof, taken, history>>

\* A client may stop anywhere, also between the lines of a request.
Stop(c) ==
  /\ link[c] \in {"queued", "open"}
  /\ eof[c] = "no" /\ \E how \in {"fin", "reset"} : eof' = [eof EXCEPT ![c] = how]
  /\ UNCHANGED <<given, now, dateCache, slot, backlog, worker, link, sent, taken, history>>

Tick ==
  /\ now < MaxTime /\ now' = now + 1
  /\ UNCHANGED <<given, dateCache, slot, backlog, worker, clientVars, taken, history>>

RefreshDate ==
  /\ dateCache' = now
  /\ UNCHANGED <<given, now, slot, backlog, worker, clientVars, taken, history>>

-----------------------------------------------------------------------------
\* Workers

\* What read_until(b'\n') finds: a line, the end, or an error.
Ready(c) == eof[c] # "reset" /\ taken[c] < sent[c]
AtEnd_Early(c) == eof[c] = "fin"
AtEnd_Never(c) == FALSE
AtEnd(c) == eof[c] = "fin" /\ taken[c] = sent[c]
Broken(c) == eof[c] = "reset"
Line(c) == script[c][taken[c] + 1]

Takes(c) == taken' = [taken EXCEPT ![c] = @ + 1]

\* The connection function returns, Ok or Err, and drops the stream.
Hangup(w) ==
  /\ worker' = [worker EXCEPT ![w] = Idle]
  /\ link' = [link EXCEPT ![worker[w].client] = "ended"]

Accept(w) ==
  /\ worker[w].pc = "accept" /\ backlog[w] # <<>>
  /\ backlog' = [backlog EXCEPT ![w] = Tail(@)]
  /\ link' = [link EXCEPT ![Head(backlog[w])] = "open"]
  /\ worker' = [worker EXCEPT ![w] = [Idle EXCEPT !.pc = "line", !.client = Head(backlog[w]), !.slot = slot]]
  /\ slot' = IF mode = "manifest" THEN 1 - slot ELSE slot
  /\ UNCHANGED <<given, now, dateCache, sent, eof, taken, history>>

\* parse_request_line_fast and MethodKind refuse garbage; the benchmark server
\* answers any line, and never finds HTTP/1.0 in one, since it looks for it
\* behind the line break.
Refused(l) == mode = "manifest" /\ l.kind = "garbage"
CloseOf(l) == mode = "manifest" /\ l.kind = "request" /\ l.http10

ReadLine(w) ==
  LET c == worker[w].client IN
  /\ worker[w].pc = "line" /\ Ready(c)
  /\ Takes(c)
  /\ IF Line(c).kind = "blank" THEN UNCHANGED <<worker, link>>
     ELSE IF Refused(Line(c)) THEN Hangup(w)
     ELSE /\ worker' = [worker EXCEPT ![w].pc = "headers", ![w].line = Line(c), ![w].close = CloseOf(Line(c)),
                                         ![w].floor = latest]
          /\ UNCHANGED link
  /\ UNCHANGED <<given, now, dateCache, slot, backlog, sent, eof, history>>

\* Routes answered by skip_headers and prebaked bytes.
Static(l) == mode = "manifest" /\ l.kind = "request" /\ l.route = "static"

\* The Connection header: neither skip_headers nor the benchmark loop reads it.
Heeds(w) == mode = "manifest" /\ ~Static(worker[w].line)
CloseAfter(w, header) ==
  IF Heeds(w) /\ header.connection # "other" THEN header.connection = "close" ELSE worker[w].close

ReadHeader(w) ==
  LET c == worker[w].client IN
  /\ worker[w].pc = "headers" /\ Ready(c) /\ Line(c).kind # "blank"
  /\ Takes(c)
  /\ worker' = [worker EXCEPT ![w].close = IF Line(c).kind = "header" THEN CloseAfter(w, Line(c)) ELSE @]
  /\ UNCHANGED <<given, now, dateCache, slot, backlog, clientVars, history>>

\* BenchmarkCachedResponses.refresh: rendered anew when the second differs.
Rendered_Once(w) == IF worker[w].second # Null THEN worker[w].rendered ELSE dateCache
Rendered(w) == IF worker[w].second = dateCache THEN worker[w].rendered ELSE dateCache

DateOf(w) ==
  IF Static(worker[w].line) THEN worker[w].slot
  ELSE IF mode = "benchmark" THEN Rendered(w) ELSE dateCache

\* The first static response of a connection moves it to the other slot.
Flipped(w) == Static(worker[w].line) /\ ~worker[w].flipped

\* The bytes are chosen, and dated, before they are written.
Chosen(w, close) ==
  LET t == worker[w] IN
  worker' = [worker EXCEPT ![w] =
    [t EXCEPT !.pc = "write", !.close = close, !.date = DateOf(w),
       !.slot = IF Flipped(w) THEN 1 - t.slot ELSE t.slot,
       !.flipped = t.flipped \/ Flipped(w),
       !.second = IF mode = "benchmark" THEN dateCache ELSE t.second,
       !.rendered = IF mode = "benchmark" THEN Rendered(w) ELSE t.rendered]]

\* The blank line ends the headers.
Answer(w) ==
  LET c == worker[w].client IN
  /\ worker[w].pc = "headers" /\ Ready(c) /\ Line(c).kind = "blank"
  /\ Takes(c)
  /\ Chosen(w, worker[w].close)
  /\ UNCHANGED <<given, now, dateCache, slot, backlog, clientVars, history>>

\* The end of the stream ends them too: the request is answered all the same.
AnswerAtEnd(w) ==
  /\ worker[w].pc = "headers" /\ AtEnd(worker[w].client)
  /\ Chosen(w, worker[w].close \/ mode = "benchmark")
  /\ UNCHANGED <<given, now, dateCache, slot, backlog, clientVars, taken, history>>

\* The next request of a connection that stays open.
NextRequest(w) ==
  /\ worker' = [worker EXCEPT ![w] =
       [@ EXCEPT !.pc = "line", !.line = Null, !.close = FALSE, !.date = Null, !.floor = 0]]
  /\ UNCHANGED link

Finish_KeepsOpen(w) == NextRequest(w)
Finish(w) == IF worker[w].close THEN Hangup(w) ELSE NextRequest(w)

Write(w) ==
  LET c == worker[w].client
      fast == Static(worker[w].line)
      date == worker[w].date
  IN
  /\ worker[w].pc = "write" /\ ~Broken(c)
  /\ wire' = [wire EXCEPT ![c] = Append(@, [req |-> worker[w].line.req, fast |-> fast, date |-> date,
                                            close |-> worker[w].close, floor |-> worker[w].floor])]
  /\ latest' = IF ~fast /\ date > latest THEN date ELSE latest
  /\ Finish(w)
  /\ UNCHANGED <<given, now, dateCache, slot, backlog, sent, eof, taken>>

End(w) ==
  /\ \/ worker[w].pc = "line" /\ AtEnd(worker[w].client)
     \/ worker[w].pc # "accept" /\ Broken(worker[w].client)
  /\ Hangup(w)
  /\ UNCHANGED <<given, now, dateCache, slot, backlog, sent, eof, taken, history>>

WorkerStep(w) ==
  Accept(w) \/ ReadLine(w) \/ ReadHeader(w) \/ Answer(w) \/ AnswerAtEnd(w) \/ Write(w) \/ End(w)

Next ==
  \/ \E c \in Client : Connect(c) \/ SendLine(c) \/ Stop(c)
  \/ \E w \in Worker : WorkerStep(w)
  \/ Tick \/ RefreshDate

Spec == Init /\ [][Next]_vars

\* The threads run, and a client that is connected is gone sooner or later.
FairSpec ==
  /\ Spec
  /\ \A w \in Worker : WF_vars(WorkerStep(w))
  /\ \A c \in Client : WF_vars(Stop(c))

-----------------------------------------------------------------------------
\* The last line the server has read of c was no request to it.
GaveUp(c) == taken[c] > 0 /\ Refused(script[c][taken[c]])

ToldClose(c) == \E i \in DOMAIN wire[c] : wire[c][i].close

\* Each request of a client gets one response, in order: those written answer its
\* first requests, none comes after one that said the connection closes, and a
\* client that half-closes gets every request it has begun answered, since what
\* is in the buffer is read to its end first (lib.rs:1176-1308, 1321-1357).
OneEach ==
  \A c \in Client :
    LET got == wire[c] IN
    /\ \A i \in DOMAIN got : got[i].req = i /\ (got[i].close => i = Len(got))
    /\ link[c] = "ended" /\ eof[c] = "fin" =>
         \/ GaveUp(c) \/ ToldClose(c)
         \/ Begun(script[c], sent[c]) = DOMAIN got

\* "Connection: close" is true: the server ends the connection with it.
\* "keep-alive" is true as well: after it only the client's end, a broken
\* connection or a line that is no request ends the connection
\* (lib.rs:1176-1214, 1305-1308, 1338-1357).
LabelTruthful ==
  \A c \in Client :
    /\ ToldClose(c) => link[c] = "ended"
    /\ link[c] = "ended" => eof[c] # "no" \/ GaveUp(c) \/ ToldClose(c)

\* No prebaked response before response i of got.
FirstFast(got, i) == \A j \in DOMAIN got : got[j].fast => i <= j

\* The Date of a response rendered on request is not older than any sent before
\* its request was read, whichever threads wrote them and though each benchmark
\* connection caches its own bytes; of the prebaked ones, all but a connection's
\* first carry the same Date (lib.rs:561-600, 1208-1211, 1348-1350).
DateOrder ==
  \A c \in Client :
    LET got == wire[c]
        fast == {i \in DOMAIN got : got[i].fast}
    IN
    /\ \A i \in DOMAIN got : got[i].fast \/ got[i].date >= got[i].floor
    /\ \A i, j \in fast : got[i].date = got[j].date <=> (FirstFast(got, i) <=> FirstFast(got, j))

\* In the end no client is left in a backlog or on a thread, when none stays for
\* ever: a worker is never lost to a client that has gone, and every connection
\* behind that one is accepted (lib.rs:412-429, 1178-1181).
Served == <>[](\A c \in Client : link[c] \in {"new", "ended"})
=============================================================================
