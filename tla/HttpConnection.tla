--------------------------- MODULE HttpConnection ---------------------------
(***************************************************************************)
(* One connection of the server, from its acceptance to its close: the      *)
(* bytes of a request arrive in any pieces (http_parse.c), the answer is     *)
(* written and closes the connection (server.c), or it is upgraded and reads *)
(* frames (websocket.c).  Bytes are counted in units; what they say is the   *)
(* stream's record.  Left out: failing allocations, wording of answers.      *)
(***************************************************************************)
EXTENDS Naturals, Sequences, FiniteSets
CONSTANTS MaxHead, MaxBody,   \* MAX_HTTP_HEADER_SIZE, MAX_HTTP_BODY_SIZE in units
          MaxEvents,          \* bound: chunks of a streamed answer
          MaxFrames           \* bound: frames a client sends
ASSUME ConnectionAssumption ==   \* server_internal.h:40: 16384 and 10485760 bytes
    /\ {MaxHead, MaxBody} \subseteq Nat \ {0} /\ {MaxEvents, MaxFrames} \subseteq Nat

VARIABLES stream,    \* what the client sends: a request and, after an upgrade, frames
          got,       \* units of the request received (client->buf_len)
          stage,     \* "reading", "answering", "events", "socket" or "closed"
          answer,    \* response_status, or what stands for it
          queued,    \* writes the socket did not take yet
          arrived,   \* writes that reached the client
          at,        \* units of the frames received
          handled,   \* the text frames handed to the chat
          over,      \* on_close was called
          garbled,   \* a read began inside a frame
          tidy       \* history: each read so far was one whole frame
connection == <<stream, got, stage, answer, queued, arrived, at, handled, over, garbled, tidy>>
socket == <<at, handled, over, garbled, tidy>>

Ops == {"text", "close", "ping", "pong", "other"}
Streams == [head : 1..MaxHead + 1,            \* units up to the blank line
            ends : BOOLEAN,                   \* there is a blank line
            good : BOOLEAN,                   \* request line and length headers are well formed
            body : 0..MaxBody + 1,            \* Content-Length
            more : 0..1,                      \* units behind the request
            asks : {"page", "events", "upgrade"},
            frames : UNION {[1..n -> Ops] : n \in {0, MaxFrames}}]
Sent == stream.head + stream.body + stream.more

-----------------------------------------------------------------------------
(* parse_http: -1 refused, 0 more bytes needed, 1 complete.                  *)
HeadSeen(g) == stream.ends /\ g >= stream.head
LengthBad == ~stream.good \/ stream.body > MaxBody
\* Mutant of Parse: the length of the body is taken for that of the request.
ParseShort(g) ==
    CASE ~HeadSeen(g) -> IF g > MaxHead THEN "refused" ELSE "more"
      [] HeadSeen(g) /\ (stream.head > MaxHead \/ LengthBad) -> "refused"
      [] HeadSeen(g) /\ stream.head <= MaxHead /\ ~LengthBad -> IF g < stream.body THEN "more" ELSE "complete"
Parse(g) ==
    CASE ~HeadSeen(g) -> IF g > MaxHead THEN "refused" ELSE "more"
      [] HeadSeen(g) /\ (stream.head > MaxHead \/ LengthBad) -> "refused"
      [] HeadSeen(g) /\ stream.head <= MaxHead /\ ~LengthBad -> IF g - stream.head < stream.body THEN "more" ELSE "complete"
(* client_append                                                             *)
Overflows(g) == g > MaxHead + MaxBody

-----------------------------------------------------------------------------
(* uv_write takes the bytes at once when nothing waits, or queues them.      *)
Write(x) ==
    \/ queued = <<>> /\ arrived' = Append(arrived, x) /\ UNCHANGED queued
    \/ queued' = Append(queued, x) /\ UNCHANGED arrived

(* client_close: uv_close cancels what is still queued.                      *)
Close == stage' = "closed" /\ queued' = <<>>

(* server_response: one answer, whose completion closes the connection.      *)
Respond(status) ==
    /\ answer' = status
    /\ \/ stage' = "answering" /\ Write(status)
       \/ Close /\ UNCHANGED arrived
WriteDone ==
    /\ stage = "answering" /\ Close
    /\ arrived' = arrived \o queued \/ (queued # <<>> /\ UNCHANGED arrived)
    /\ UNCHANGED <<stream, got, answer>> /\ UNCHANGED socket

(* handle_request, when the request is complete: a page or an error, a        *)
(* stream of events, or the upgrade.                                         *)
Upgrade ==
    \/ answer' = "101" /\ stage' = "socket" /\ Write("101")
    \/ Respond("error")
HandleRequest ==
    CASE stream.asks = "page" -> Respond("page") \/ Respond("error")
      [] stream.asks = "events" -> (answer' = "200" /\ stage' = "events" /\ Write("200")) \/ Respond("error")
      [] stream.asks = "upgrade" -> Upgrade

(* read_cb of a request.                                                     *)
Receive(n) ==
    LET g == got + n IN
    /\ stage = "reading" /\ g <= Sent
    /\ CASE Overflows(g) -> UNCHANGED got /\ Respond("413")
         [] ~Overflows(g) /\ Parse(g) = "refused" -> got' = g /\ Respond("400")
         [] ~Overflows(g) /\ Parse(g) = "more" -> got' = g /\ UNCHANGED <<stage, answer, queued, arrived>>
         [] ~Overflows(g) /\ Parse(g) = "complete" -> got' = g /\ HandleRequest
    /\ UNCHANGED stream /\ UNCHANGED socket
HungUp ==
    /\ stage = "reading" /\ Close
    /\ UNCHANGED <<stream, got, answer, arrived>> /\ UNCHANGED socket

(* handle_sse_stream: the run holds the thread, so that what the socket does  *)
(* not take waits; then "done" or an error, and the close.                   *)
Event ==
    /\ stage = "events" /\ Len(arrived \o queued) <= MaxEvents /\ Write("event")
    /\ UNCHANGED <<stream, got, stage, answer>> /\ UNCHANGED socket
EventsEnd ==
    /\ stage = "events" /\ stage' = "closed" /\ queued' = <<>>
    /\ arrived' = (IF queued = <<>> THEN Append(arrived, "done") ELSE arrived) \/ UNCHANGED arrived
    /\ UNCHANGED <<stream, got, answer>> /\ UNCHANGED socket

-----------------------------------------------------------------------------
(* Frames: each is two units, a header and a payload.                        *)
FramesIn(units) == units \div 2
Inside(units) == units % 2 = 1
Control == {"close", "ping", "pong"}
(* ws_read_cb over the units from+1..to, whole frames only: text frames are    *)
(* handed over up to the first control frame, which ends the call.            *)
Whole(from, to) == FramesIn(from) + 1 .. FramesIn(to)
Stops(from, to) == {i \in Whole(from, to) : stream.frames[i] \in Control}
Before(from, to) == {i \in Whole(from, to) : \A s \in Stops(from, to) : i < s}
\* The numbers of some frames up to the n-th, in order.
InOrder(frames, n) ==
    LET seq[k \in Nat] == IF k = 0 THEN <<>> ELSE IF k \in frames THEN Append(seq[k - 1], k) ELSE seq[k - 1]
    IN  seq[n]
Texts(from, to) == InOrder({i \in Before(from, to) : stream.frames[i] = "text"}, FramesIn(to))
\* Mutant of Closes: only a close that comes alone is seen.
ClosesAlone(from, to) == Whole(from, to) = {1} /\ stream.frames[1] = "close"
Closes(from, to) == \E s \in Stops(from, to) : stream.frames[s] = "close" /\ \A t \in Stops(from, to) : s <= t

ReadFrames(n) ==
    /\ stage = "socket" /\ ~garbled /\ at + n <= 2 * Len(stream.frames)
    /\ at' = at + n
    /\ handled' = IF over THEN handled ELSE handled \o Texts(at, at + n)
    /\ over' = (over \/ Closes(at, at + n))
    /\ garbled' = Inside(at + n) /\ tidy' = (tidy /\ n = 2)
    /\ UNCHANGED <<stream, got, stage, answer, queued, arrived>>
(* The rest of a split frame was thrown away: what follows is read as headers *)
(* that it is not, and may be taken for any frame.                           *)
ReadGarbled ==
    /\ stage = "socket" /\ garbled /\ at < 2 * Len(stream.frames) /\ at' = at + 1
    /\ over' \in {over, TRUE}
    /\ UNCHANGED <<stream, got, stage, answer, queued, arrived, handled, garbled, tidy>>
SocketEnds ==
    /\ stage = "socket" /\ Close /\ over' = TRUE
    /\ UNCHANGED <<stream, got, answer, arrived, at, handled, garbled, tidy>>

ConnectionInit ==
    /\ stream \in Streams /\ got = 0
    /\ stream.frames # <<>> =>     \* only who can be upgraded sends frames
         stream.asks = "upgrade" /\ stream.ends /\ stream.good /\ stream.body + stream.more = 0
    /\ stage = "reading" /\ answer = "none"
    /\ queued = <<>> /\ arrived = <<>>
    /\ at = 0 /\ handled = <<>> /\ over = FALSE /\ garbled = FALSE /\ tidy = TRUE
ConnectionNext ==
    \/ \E n \in 1..MaxHead + MaxBody + 2 : Receive(n)
    \/ HungUp \/ WriteDone \/ Event \/ EventsEnd
    \/ \E n \in 1..2 * MaxFrames : ReadFrames(n)
    \/ ReadGarbled \/ SocketEnds

-----------------------------------------------------------------------------
ConnectionTypeOK ==
    /\ stream \in Streams /\ got \in 0..Sent
    /\ stage \in {"reading", "answering", "events", "socket", "closed"}
    /\ at \in 0..2 * MaxFrames /\ over \in BOOLEAN /\ garbled \in BOOLEAN /\ tidy \in BOOLEAN
    /\ (queued # <<>> => stage \in {"answering", "events", "socket"})

(* What a request is answered does not depend on how its bytes were cut: the  *)
(* verdict is that of the whole text, whatever the reads were, and comes when   *)
(* its last byte does (http_parse.c:68, server.c:408).                        *)
Refused == ~stream.ends \/ stream.head > MaxHead \/ LengthBad
ChunksDontMatter ==
    /\ answer = "400" => Refused
    /\ answer \in {"page", "200", "101", "error"} => ~Refused /\ got >= stream.head + stream.body
    /\ stage = "reading" /\ ~Refused => got < stream.head + stream.body
    /\ answer = "413" => Sent > MaxHead + MaxBody

(* A text frame is heard once at most and in the order sent; and a client      *)
(* whose frames come one to a read is heard in full, up to its close          *)
(* (websocket.c:209).                                                        *)
HeardInOrder ==
    /\ \A i, j \in DOMAIN handled : i < j => handled[i] < handled[j]
    /\ tidy => LET open == {i \in 1..FramesIn(at) : \A k \in 1..i : stream.frames[k] # "close"}
               IN  handled = InOrder({i \in open : stream.frames[i] = "text"}, FramesIn(at))
=============================================================================
