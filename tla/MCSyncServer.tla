---------------------------- MODULE MCSyncServer -----------------------------
(* A small instance of SyncServer for TLC. *)
EXTENDS SyncServer, TLC

CONSTANTS c1, c2

Req(n, route, http10) == [kind |-> "request", req |-> n, route |-> route, http10 |-> http10]
Garbage(n) == [kind |-> "garbage", req |-> n]
Connection(value) == [kind |-> "header", connection |-> value]
Blank == [kind |-> "blank"]

\* HTTP/1.0 on a route where Connection is heeded, a stray blank line and a request
\* without an end, next to a request to close with another behind it; static
\* routes, where Connection is not heeded, next to a request with a body.
MCScripts ==
  { (c1 :> <<Req(1, "routed", TRUE), Connection("keep-alive"), Blank, Blank, Req(2, "routed", FALSE)>>)
    @@ (c2 :> <<Req(1, "routed", FALSE), Connection("close"), Blank, Req(2, "static", FALSE)>>),
    (c1 :> <<Req(1, "static", FALSE), Connection("close"), Blank, Req(2, "static", FALSE), Blank,
             Req(3, "static", FALSE)>>)
    @@ (c2 :> <<Req(1, "routed", FALSE), Blank, Garbage(2)>>) }
==============================================================================
