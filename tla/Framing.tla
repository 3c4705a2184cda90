------------------------------ MODULE Framing -------------------------------
(***************************************************************************)
(* One connection between a worker and the coordinator, down to the bytes: *)
(* frames (protocol.cpp), sockets (tcp.cpp) and the two copies of the      *)
(* receive loop (recv_one of coordinator.cpp, recv_line of worker.cpp).    *)
(* The Coordinator module takes from here that a request arrives whole or  *)
(* ends its connection.                                                    *)
(*                                                                         *)
(* TCP delivers the bytes in order but in pieces of any size, and recv     *)
(* returns what has arrived, up to what was asked for.  Both loops read    *)
(* the body until it is complete and the header in ONE recv: a header that *)
(* comes in two pieces is a failure, reported as an empty string.  The     *)
(* coordinator then ends the connection.  The worker does not look: it     *)
(* sends its next request and reads on in the middle of the old reply.     *)
(*                                                                         *)
(* A byte is its frame, its place in the frame and the length its frame's  *)
(* header states.  A window of bytes that does not start at the first byte *)
(* of a frame has a header length that can be anything and never decodes   *)
(* (magic, and CRC over the rest).  The contents of a frame, its kind      *)
(* (which neither end looks at) and the sizes in bytes are abstract.       *)
(***************************************************************************)
EXTENDS Integers, Sequences, FiniteSetsExt

CONSTANTS
  HeaderSize,     \* magic, version, kind, length: 10 bytes in the code
  TrailerSize,    \* the CRC: 4 bytes
  MaxPayload,     \* kMaxPayload, 64 KiB
  RequestSizes,   \* payload sizes of the requests, never over the limit
  ReplySizes,     \* payload sizes of the replies; the list a QUERY returns
                  \*   may be larger than MaxPayload
  MaxCalls        \* bound: requests a worker makes on its connection

ASSUME FramingAssumption ==
  /\ {HeaderSize, TrailerSize, MaxPayload} \subseteq Nat \ {0}
  /\ RequestSizes \subseteq 1 .. MaxPayload /\ ReplySizes \subseteq Nat \ {0}
  /\ MaxCalls \in Nat

End == {"worker", "coordinator"}
Peer(e) == IF e = "worker" THEN "coordinator" ELSE "worker"
None == 0       \* the empty string both receive loops return on a failure

VARIABLES
  open,       \* open[e]: e holds its socket
  stream,     \* stream[e]: bytes on their way to e
  arrived,    \* arrived[e]: bytes recv can return to e
  body,       \* body[e]: what e has read of the frame it is reading
  want,       \* want[e]: the size of that frame, 0 until its header is read
  calls,      \* requests the worker has sent; request k is the k-th
  waiting,    \* the worker is inside recv_line
  handled,    \* history: the requests the coordinator took, in order
  replies,    \* history: the request answered by what recv_line returned
  cut,        \* history: the worker got half a header
  unsent      \* history: a reply was too large to be encoded

net  == <<open, stream, arrived>>
hist == <<handled, replies, cut, unsent>>
vars == <<net, body, want, calls, waiting, hist>>

-----------------------------------------------------------------------------
(* Frames                                                                  *)

\* Frame k with a payload of the given size; nothing if that is too large.
encode_frame(k, size) ==
  IF size > MaxPayload THEN << >>
  ELSE [p \in 1 .. HeaderSize + size + TrailerSize |->
          [frame |-> k, pos |-> p, len |-> size]]

\* The lengths a header may be taken to state; MaxPayload + 1 stands for all
\* that are too large.
header_len(hdr) ==
  IF hdr[1].pos = 1 THEN {hdr[1].len} ELSE 0 .. MaxPayload + 1

\* The frame that the bytes are, None unless they are all of one frame.
Bug_DecodeUnchecked(bytes) == bytes[1].frame
decode_frame(bytes) ==
  IF /\ bytes[1].pos = 1
     /\ Len(bytes) = HeaderSize + bytes[1].len + TrailerSize
  THEN bytes[1].frame ELSE None

-----------------------------------------------------------------------------
(* Sockets                                                                 *)

FramingInit ==
  /\ open = [e \in End |-> FALSE]
  /\ stream = [e \in End |-> << >>] /\ arrived = [e \in End |-> << >>]
  /\ body = [e \in End |-> << >>] /\ want = [e \in End |-> 0]
  /\ calls = 0 /\ waiting = FALSE
  /\ handled = << >> /\ replies = << >> /\ cut = FALSE /\ unsent = FALSE

\* tcp_connect meets accept; one connection in the life of a worker.
Connect ==
  /\ ~open["worker"] /\ ~open["coordinator"] /\ calls = 0
  /\ open' = [e \in End |-> TRUE]
  /\ UNCHANGED <<stream, arrived, body, want, calls, waiting, hist>>

\* send: every byte, or nothing that reaches anyone when the peer is gone.
Sent(e, bytes) ==
  IF open[Peer(e)] THEN [stream EXCEPT ![Peer(e)] = @ \o bytes] ELSE stream

\* The next n bytes reach e.
Arrive(e, n) ==
  /\ n \in 1 .. Len(stream[e])
  /\ arrived' = [arrived EXCEPT ![e] = @ \o SubSeq(stream[e], 1, n)]
  /\ stream' = [stream EXCEPT ![e] = SubSeq(@, n + 1, Len(@))]
  /\ UNCHANGED <<open, body, want, calls, waiting, hist>>

\* A socket closed with bytes unread resets the connection: what was on its
\* way to the other end is lost.
Reset(e) ==
  /\ open[e] /\ ~open[Peer(e)]
  /\ stream[Peer(e)] \o arrived[Peer(e)] # << >>
  /\ stream[e] \o arrived[e] # << >>
  /\ stream' = [stream EXCEPT ![e] = << >>]
  /\ arrived' = [arrived EXCEPT ![e] = << >>]
  /\ UNCHANGED <<open, body, want, calls, waiting, hist>>

EndOfStream(e) == ~open[Peer(e)] /\ stream[e] = << >> /\ arrived[e] = << >>

-----------------------------------------------------------------------------
(* What the two ends do with what their receive loop returns               *)

\* handle_connection: an empty line ends the loop, the connection and, on the
\* way out, the worker's incarnation.
Bug_CoordinatorReadsOn ==
  /\ UNCHANGED <<open, stream, handled, unsent>>
CoordinatorLeaves ==
  /\ open' = [open EXCEPT !["coordinator"] = FALSE]
  /\ UNCHANGED <<stream, handled, unsent>>

\* Any other line is handled and answered; send_frame ignores what encode_frame
\* and send say.
CoordinatorAnswers(k) ==
  \E size \in ReplySizes :
    /\ handled' = Append(handled, k)
    /\ stream' = Sent("coordinator", encode_frame(k, size))
    /\ unsent' = (unsent \/ size > MaxPayload)
    /\ UNCHANGED open

\* The receive loop of e is done with a frame, or with None.
Return(e, k) ==
  /\ body' = [body EXCEPT ![e] = << >>] /\ want' = [want EXCEPT ![e] = 0]
  /\ UNCHANGED calls
  /\ \/ /\ e = "coordinator" /\ k = None
        /\ CoordinatorLeaves /\ UNCHANGED <<waiting, replies>>
     \/ /\ e = "coordinator" /\ k # None
        /\ CoordinatorAnswers(k) /\ UNCHANGED <<waiting, replies>>
     \/ /\ e = "worker"
        /\ waiting' = FALSE /\ replies' = Append(replies, k)
        /\ UNCHANGED <<open, stream, handled, unsent>>

-----------------------------------------------------------------------------
(* recv_one and recv_line                                                  *)

\* Who is inside the receive loop: the worker only after it has asked.
Reading(e) == open[e] /\ (e = "worker" => waiting)

\* recv(size): what has arrived, at most size bytes.
Received(e, size) == SubSeq(arrived[e], 1, Min({size, Len(arrived[e])}))
Remove(e, bytes) ==
  arrived' = [arrived EXCEPT ![e] = SubSeq(@, Len(bytes) + 1, Len(@))]

ReadHeader(e) ==
  LET hdr == Received(e, HeaderSize)
  IN  /\ Reading(e) /\ want[e] = 0 /\ arrived[e] # << >>
      /\ Remove(e, hdr)
      /\ \/ /\ Len(hdr) < HeaderSize
            /\ cut' = (cut \/ e = "worker")
            /\ Return(e, None)
         \/ /\ Len(hdr) = HeaderSize /\ UNCHANGED cut
            /\ \E len \in header_len(hdr) :
                 \/ len > MaxPayload /\ Return(e, None)
                 \/ /\ len <= MaxPayload
                    /\ body' = [body EXCEPT ![e] = hdr]
                    /\ want' = [want EXCEPT ![e] = HeaderSize + len + TrailerSize]
                    /\ UNCHANGED <<open, stream, calls, waiting, handled, replies, unsent>>

\* One round of the loop that fills the body.
Bug_ReadBodyOnce(e) ==
  LET got == body[e] \o Received(e, want[e] - Len(body[e]))
  IN  /\ Reading(e) /\ want[e] # 0 /\ arrived[e] # << >>
      /\ Remove(e, Received(e, want[e] - Len(body[e]))) /\ UNCHANGED cut
      /\ Return(e, decode_frame(got))
ReadBody(e) ==
  LET part == Received(e, want[e] - Len(body[e]))
      got  == body[e] \o part
  IN  /\ Reading(e) /\ want[e] # 0 /\ arrived[e] # << >>
      /\ Remove(e, part) /\ UNCHANGED cut
      /\ \/ Len(got) = want[e] /\ Return(e, decode_frame(got))
         \/ /\ Len(got) < want[e]
            /\ body' = [body EXCEPT ![e] = got]
            /\ UNCHANGED <<open, stream, want, calls, waiting, handled, replies, unsent>>

\* recv returns 0, in the header or in the body.
ReadEnd(e) ==
  /\ Reading(e) /\ EndOfStream(e)
  /\ Return(e, None) /\ UNCHANGED <<arrived, cut>>

Receive(e) == ReadHeader(e) \/ ReadBody(e) \/ ReadEnd(e)

-----------------------------------------------------------------------------
(* The worker                                                              *)

\* send_text, then recv_line, whatever came of the call before.
Ask(size) ==
  /\ open["worker"] /\ ~waiting /\ calls < MaxCalls
  /\ calls' = calls + 1 /\ waiting' = TRUE
  /\ stream' = Sent("worker", encode_frame(calls + 1, size))
  /\ UNCHANGED <<open, arrived, body, want, hist>>

\* The process ends, at any moment.
Crash ==
  /\ open["worker"]
  /\ open' = [open EXCEPT !["worker"] = FALSE]
  /\ waiting' = FALSE
  /\ UNCHANGED <<stream, arrived, body, want, calls, hist>>

FramingNext ==
  \/ Connect
  \/ \E size \in RequestSizes : Ask(size)
  \/ \E e \in End : Receive(e) \/ Reset(e)
  \/ \E e \in End : \E n \in 1 .. Len(stream[e]) : Arrive(e, n)
  \/ Crash

\* TCP keeps delivering and both receive loops keep reading: a thread blocked
\* in recv runs once there is something to return.  No call need be made.
Fairness ==
  \A e \in End : /\ WF_vars(Receive(e))
                 /\ WF_vars(\E n \in 1 .. Len(stream[e]) : Arrive(e, n))

FramingSpec == FramingInit /\ [][FramingNext]_vars /\ Fairness

-----------------------------------------------------------------------------
(* Properties                                                              *)

\* The coordinator takes whole requests, in the order they were sent, and none
\* after one it did not get, however the bytes are cut up: it would rather end
\* the connection (recv_one; "truncation or trailing garbage", decode_frame).
Requests == INSTANCE Channel WITH sent <- calls, taken <- handled
ImplementsChannel == Requests!Spec

\* What the worker takes for replies: even a worker that reads on after half a
\* header never gets the same reply twice, an older one after a newer one, or
\* one to a request it has not made.
RepliesAdvance ==
  \A k \in DOMAIN replies : replies[k] # None =>
    /\ replies[k] <= k
    /\ \A j \in 1 .. k - 1 : replies[j] < replies[k]

\* As long as no header reached the worker in two pieces, a reply is the reply
\* to the request it was read for, and there is none only because the
\* coordinator ended the connection.
RepliesMatch ==
  ~cut => \A k \in DOMAIN replies :
            \/ replies[k] = k
            \/ replies[k] = None /\ ~open["coordinator"]

\* A call returns: the reply comes whole, or the end of the connection does.
\* The exceptions are the two the code has: a reply over kMaxPayload, which
\* is dropped in silence, and a worker that lost its place in the stream.
CallsReturn == (waiting /\ ~cut /\ ~unsent) ~> (~waiting \/ cut \/ unsent)
=============================================================================
