----------------------------- MODULE HttpPipeline -----------------------------
(***************************************************************************)
(* The pure part of an io_uring connection: how the bytes in its read      *)
(* region are cut into requests, how each request is classified, and how   *)
(* many of them one pass of Connection::process_buffered answers.          *)
(*                                                                         *)
(* A request is a record: the dispatch path it takes, whether its request  *)
(* line says HTTP/1.0, its length and the length of its response.  The     *)
(* units of length are cells: a cell [c, k, j] is the j-th piece of        *)
(* request k of client c (or of the response to it), so a region of memory *)
(* is a sequence of cells and the last cell of a request is the one that   *)
(* carries its blank line.                                                 *)
(***************************************************************************)
EXTENDS Naturals, Sequences, FiniteSets, SequencesExt

CONSTANTS
  Client,        \* the peers that connect
  Script,        \* Script[c]: the requests client c sends on one connection
  ReadRegion,    \* READ_REGION_BYTES, in cells
  WriteRegion,   \* WRITE_REGION_BYTES, in cells
  MaxPipeline,   \* MAX_PIPELINE
  HasRegistry    \* BenchmarkServer.handle_registry is Some

Kinds == {"bench",   \* GET /plaintext or /json: pre-baked bytes
          "aot",     \* NotFound, and the AOT table holds a sync handler
          "async",   \* NotFound, and the AOT table holds an async handler
          "miss"}    \* NotFound, and no AOT entry: the pre-baked 404

Request == [kind : Kinds, http10 : BOOLEAN, len : Nat \ {0}, resp : Nat \ {0}]

ASSUME PipelineAssumption ==
  /\ Script \in [Client -> Seq(Request)]
  /\ {ReadRegion, WriteRegion, MaxPipeline} \subseteq Nat \ {0}
  /\ HasRegistry \in BOOLEAN

Cell == [c : Client, k : Nat \ {0}, j : Nat \ {0}]

Req(x) == Script[x.c][x.k]

Pieces(c, k, n) == [j \in 1 .. n |-> [c |-> c, k |-> k, j |-> j]]

\* The first n requests of client c, as it sends them, and all of them.
RequestCells(c, n) == FlattenSeq([k \in 1 .. n |-> Pieces(c, k, Script[c][k].len)])

Stream(c) == RequestCells(c, Len(Script[c]))

(***************************************************************************)
(* Responses.  An async route without a handle registry is answered inline *)
(* by a short 503; every other length is the one the handler produces.     *)
(***************************************************************************)
Unavailable(r) == r.kind = "async" /\ ~HasRegistry

RespLen(r) == IF Unavailable(r) THEN 1 ELSE r.resp

Response(x) == Pieces(x.c, x.k, RespLen(Req(x)))

\* What client c should receive for its first n requests, and for all of them.
ReplyCells(c, n) == FlattenSeq([k \in 1 .. n |-> Pieces(c, k, RespLen(Script[c][k]))])

Replies(c) == ReplyCells(c, Len(Script[c]))

(***************************************************************************)
(* classify: only the two benchmark routes look at the HTTP version; every *)
(* NotFound classification says keep the connection open.                  *)
(***************************************************************************)
CloseOf(r) == r.kind = "bench" /\ r.http10

(***************************************************************************)
(* parse_pipeline: the positions in buf at which the complete requests     *)
(* end, at most MaxPipeline of them; ends[p] are those in the first p      *)
(* cells.                                                                  *)
(***************************************************************************)
RequestEnds(buf) ==
  LET ends[p \in 0 .. Len(buf)] ==
        IF p = 0 THEN <<>>
        ELSE IF buf[p].j = Req(buf[p]).len /\ Len(ends[p - 1]) < MaxPipeline
          THEN Append(ends[p - 1], p)
          ELSE ends[p - 1]
  IN  ends[Len(buf)]

\* The requests that end at positions ends, each named by its last cell.
Parsed(buf, ends) == [m \in DOMAIN ends |-> buf[ends[m]]]

Responses(reqs, n) == FlattenSeq([m \in 1 .. n |-> Response(reqs[m])])

(***************************************************************************)
(* The loop of process_buffered: the first n requests go into one write    *)
(* batch when none of them is async, none but the last closes the          *)
(* connection, and their responses fit in the write region.                *)
(***************************************************************************)
Batchable(reqs, n) ==
  /\ \A m \in 1 .. n : Req(reqs[m]).kind # "async"
  /\ \A m \in 1 .. n - 1 : ~CloseOf(Req(reqs[m]))
  /\ Len(Responses(reqs, n)) <= WriteRegion

BatchSize(reqs) == Max({n \in 0 .. Len(reqs) : Batchable(reqs, n)})
===============================================================================
