--------------------------- MODULE PipelinedService ---------------------------
(***************************************************************************)
(* What a worker promises its clients, seen from the wire: the bytes a     *)
(* client has received are a prefix of the responses to its requests, in   *)
(* request order; no byte of a response precedes the end of its request;   *)
(* and a client that is still there is hung up on only for a reason it can *)
(* see.  How connections, buffers and handlers are organised is hidden.    *)
(***************************************************************************)
EXTENDS HttpPipeline

VARIABLES
  peer,    \* each client's connection: "off", "queued", "open" or "hungup"
  nread,   \* request cells the server has taken, per client
  got      \* response cells the client has received

svars == <<peer, nread, got>>

SInit ==
  /\ peer = [c \in Client |-> "off"]
  /\ nread = [c \in Client |-> 0]
  /\ got = [c \in Client |-> <<>>]

\* Requests whose responses the client has received to the end.
Answered(c) == Max({k \in 0 .. Len(Script[c]) : Len(ReplyCells(c, k)) <= Len(got[c])})

\* Reasons to hang up on a client that is there: the response just completed
\* ends the connection; the next request or its response is too large for the
\* regions; or the connection is refused before anything was read from it.
MayClose(c) ==
  LET k == Answered(c)
  IN  \/ /\ k > 0 /\ Len(got[c]) = Len(ReplyCells(c, k))
         /\ \/ Unavailable(Script[c][k])
            \/ Script[c][k].kind = "bench" /\ Script[c][k].http10
      \/ /\ k < Len(Script[c])
         /\ \/ Script[c][k + 1].len > ReadRegion
            \/ RespLen(Script[c][k + 1]) > WriteRegion
      \/ nread[c] = 0

SConnect(c) ==
  /\ peer[c] = "off"
  /\ peer' = [peer EXCEPT ![c] = "queued"]
  /\ nread' = [nread EXCEPT ![c] = 0]
  /\ got' = [got EXCEPT ![c] = <<>>]

SAccept(c) ==
  /\ peer[c] = "queued"
  /\ peer' = [peer EXCEPT ![c] = "open"]
  /\ UNCHANGED <<nread, got>>

SHangUp(c) ==
  /\ peer[c] = "open"
  /\ peer' = [peer EXCEPT ![c] = "hungup"]
  /\ UNCHANGED <<nread, got>>

SRead(c) ==
  /\ peer[c] \in {"open", "hungup"}
  /\ \E n \in nread[c] + 1 .. Len(Stream(c)) : nread' = [nread EXCEPT ![c] = n]
  /\ UNCHANGED <<peer, got>>

SReply(c) ==
  /\ peer[c] = "open"
  /\ \E n \in Len(got[c]) + 1 .. Len(Replies(c)) :
       /\ Len(RequestCells(c, Replies(c)[n].k)) <= nread[c]
       /\ got' = [got EXCEPT ![c] = SubSeq(Replies(c), 1, n)]
  /\ UNCHANGED <<peer, nread>>

\* One step of the server may close several connections.
SClose(S) ==
  /\ S # {}
  /\ \A c \in S : peer[c] = "hungup" \/ (peer[c] = "open" /\ MayClose(c))
  /\ peer' = [c \in Client |-> IF c \in S THEN "off" ELSE peer[c]]
  /\ UNCHANGED <<nread, got>>

SNext ==
  \/ \E c \in Client : SConnect(c) \/ SAccept(c) \/ SHangUp(c) \/ SRead(c) \/ SReply(c)
  \/ \E S \in SUBSET Client : SClose(S)

SSpec == SInit /\ [][SNext]_svars
===============================================================================
