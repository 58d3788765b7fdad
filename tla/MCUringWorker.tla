---------------------------- MODULE MCUringWorker -----------------------------
(* Small instances of UringWorker for TLC. *)
EXTENDS UringWorker

CONSTANTS c1, c2, c3

R(kind, http10, len, resp) == [kind |-> kind, http10 |-> http10, len |-> len, resp |-> resp]

\* A request of two pieces, pipelining past MaxPipeline, an async request in
\* the middle of the pipeline with a response of two pieces, an HTTP/1.0 async
\* request, and an HTTP/1.0 benchmark request that ends the connection with a
\* request behind it; another client's second request is larger than the read
\* region.
PipelineScript ==
  (c1 :> <<R("bench", FALSE, 2, 1), R("aot", FALSE, 1, 2), R("async", FALSE, 1, 2),
           R("miss", FALSE, 1, 1), R("async", TRUE, 1, 1), R("bench", TRUE, 1, 2),
           R("miss", FALSE, 1, 1)>>)
  @@ (c2 :> <<R("bench", FALSE, 1, 1), R("aot", FALSE, 4, 1)>>)

\* Each client asks one async route; the second's response is larger than the
\* write region.
AsyncScript == [c \in Client |-> <<R("async", FALSE, 1, IF c = c2 THEN 3 ELSE 1)>>]

\* Without a registry: an async route, which is unavailable, behind a request
\* that is answered and before one that is not; and a sync response larger
\* than the write region behind one that fits.
LimitScript ==
  (c1 :> <<R("aot", FALSE, 1, 1), R("async", FALSE, 1, 3), R("miss", FALSE, 1, 1)>>)
  @@ (c2 :> <<R("bench", FALSE, 1, 2), R("miss", FALSE, 1, 4)>>)

===============================================================================
