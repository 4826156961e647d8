--------------------------- MODULE FrameReceiver ---------------------------
(***************************************************************************)
(* The receiving side of the smbtad protocol as smbtamonitor-gen runs it   *)
(* on its one connection: `Requests' calls of connect_monitor (write a     *)
(* query, read one frame: src/common/common.c), then the endless loop of   *)
(* network_handle_data (src/monitor/network.c; rrddriver has a copy).      *)
(* Both read a frame with the same byte-count state machine: a header of   *)
(* HeaderLen bytes whose digits give the length of the body, then the      *)
(* body, each in as many recv calls as it takes.                           *)
(*                                                                         *)
(* The connection is a stream of bytes addressed by their offset; of what  *)
(* a frame carries only its place and its length are kept.  smbtad itself  *)
(* is external: it may write any frame once it has been asked, and may     *)
(* close or reset the connection at any time, cutting the stream anywhere. *)
(***************************************************************************)
EXTENDS Integers, Sequences

CONSTANTS HeaderLen,   \* bytes of a frame's header: 26 in the code
          Lens,        \* the body lengths smbtad may announce
          Requests,    \* calls of connect_monitor: one per registered monitor
          MaxFrames    \* bound: the frames smbtad writes in one behaviour

ASSUME FrameAssumption ==
  /\ HeaderLen \in Nat \ {0}
  /\ Lens \subseteq Nat
  /\ Requests \in Nat
  /\ MaxFrames \in Nat

VARIABLES
  frames,           \* the frames smbtad wrote: where each starts, how long its body is
  avail,            \* bytes of the stream that reach the receiver
  rpos,             \* bytes of the stream already taken by recv
  conn,             \* the peer's end of the connection
  requests,         \* calls of connect_monitor still to come
  state,            \* enum network_send_flags, or KILLED by a signal
  header_position,
  body_position,
  data_length,
  wrote,            \* what common_receive_data wrote last, as places in its buffer
  got               \* the frames handed to the caller

stream == <<frames, avail>>
positions == <<header_position, body_position, data_length>>
vars == <<frames, avail, rpos, conn, requests, state, positions, wrote, got>>

Flags == {"UNSENT", "SENT", "RECEIVING_HEADER", "RECEIVING_HEADER_ONGOING",
          "HEADER_RECEIVED", "RECEIVING_DATA", "RECEIVING_DATA_ONGOING", "KILLED"}
Waiting == {"UNSENT", "SENT", "KILLED"}

FrameRecord == [start : Nat, len : Nat]

\* The first and the last byte written into a buffer of `size' bytes.
WriteRecord == [first : Int, last : Int, size : Nat]
Nothing == [first |-> 0, last |-> -1, size |-> 0]

Init ==
  /\ frames = <<>>
  /\ avail = 0
  /\ rpos = 0
  /\ conn = "open"
  /\ requests = Requests
  /\ state = "UNSENT"
  /\ header_position = 0
  /\ body_position = 0
  /\ data_length = 0
  /\ wrote = Nothing
  /\ got = <<>>

----------------------------------------------------------------------------
(* smbtad, the other end of the connection (external). *)

\* smbtad writes a frame: an answer, or the news of a monitor.
SmbtadWrite(len) ==
  /\ conn = "open"
  /\ requests < Requests \/ state # "UNSENT"      \* it has been asked something
  /\ Len(frames) < MaxFrames
  /\ frames' = Append(frames, [start |-> avail, len |-> len])
  /\ avail' = avail + HeaderLen + len
  /\ UNCHANGED <<rpos, conn, requests, state, positions, wrote, got>>

\* smbtad stops, in order or with a reset; what it had not got out is lost.
SmbtadGone(how) ==
  /\ conn = "open"
  /\ conn' = how
  /\ \E cut \in rpos .. avail : avail' = cut
  /\ UNCHANGED <<frames, rpos, requests, state, positions, wrote, got>>

----------------------------------------------------------------------------
(* common_receive_data *)

\* What recv may return when asked for `length' bytes: any part of what is
\* there, 0 at the end of the stream (or when asked for nothing), -1 once
\* for a reset.  The empty set is a recv that would block.
Recv(length) ==
  {t \in 1 .. length : rpos + t <= avail}
    \cup {t \in {0} : length = 0 \/ (rpos = avail /\ conn = "closed")}
    \cup {t \in {-1} : length # 0 /\ rpos = avail /\ conn = "reset"}

\* Mutant: the result of recv replaces the length instead of adding to it.
RlenForgets(rlen, t) == t

\* The new value of *rlen: 0 at the end of the stream, otherwise the result
\* of recv is added unseen, -1 included.
Rlen(rlen, t) == IF t = 0 THEN 0 ELSE rlen + t

\* What the call writes when it reads to place `base' of a buffer of `size'
\* bytes: what recv took and a 0 behind it; at the end of the stream nothing.
\* After an error the 0 goes to the place before `base', t being -1.
Written(base, t, size) ==
  CASE t > 0  -> [first |-> base, last |-> base + t, size |-> size]
    [] t = 0  -> Nothing
    [] t = -1 -> [first |-> base - 1, last |-> base - 1, size |-> size]

\* What the call does to the connection.
Took(t) ==
  /\ rpos' = IF t > 0 THEN rpos + t ELSE rpos
  /\ conn' = IF t = -1 THEN "closed" ELSE conn

\* common_get_data_block_length on the HeaderLen bytes read last: the length
\* smbtad announced if they are a header, any length if they are not.
BlockLength(base) ==
  LET headers == {f \in DOMAIN frames : frames[f].start = base}
  IN  IF headers # {} THEN {frames[f].len : f \in headers} ELSE Lens

----------------------------------------------------------------------------
(* connect_monitor and network_handle_data *)

\* select reports the socket readable.
Readable == rpos < avail \/ conn # "open"

\* connect_monitor writes the query.  When the peer is gone the second send
\* of common_write_data may raise SIGPIPE, which nobody catches.
SendQuery ==
  /\ requests > 0
  /\ state = "UNSENT"
  /\ \/ conn # "reset" /\ state' = "SENT"
     \/ conn # "open" /\ state' = "KILLED"
  /\ UNCHANGED <<stream, rpos, conn, requests, positions, wrote, got>>

\* What network_handle_data and connect_monitor allocate for a header.
HeaderSize == HeaderLen + 3

HeaderComplete ==
  /\ state' = "HEADER_RECEIVED"
  /\ data_length' \in BlockLength(rpos' - HeaderLen)

\* Mutant: a short first read is taken for the end of the stream.
BeginHeaderShort ==
  /\ Readable
  /\ state = IF requests > 0 THEN "SENT" ELSE "UNSENT"
  /\ \E t \in Recv(HeaderLen) :
       /\ header_position' = Rlen(header_position, t)
       /\ wrote' = Written(0, t, HeaderSize)
       /\ Took(t)
  /\ \/ /\ header_position' = HeaderLen
        /\ HeaderComplete
     \/ /\ header_position' # HeaderLen
        /\ state' = "RECEIVING_HEADER"
        /\ UNCHANGED data_length
  /\ UNCHANGED <<stream, requests, body_position, got>>

\* The first bytes of a header: connect_monitor reads them once it has sent
\* its query, network_handle_data as soon as there are any.
BeginHeader ==
  /\ Readable
  /\ state = IF requests > 0 THEN "SENT" ELSE "UNSENT"
  /\ \E t \in Recv(HeaderLen) :
       /\ header_position' = Rlen(header_position, t)
       /\ wrote' = Written(0, t, HeaderSize)
       /\ Took(t)
  /\ \/ /\ header_position' = HeaderLen
        /\ HeaderComplete
     \/ /\ header_position' # HeaderLen
        /\ state' = IF header_position' = 0 THEN "RECEIVING_HEADER"
                                            ELSE "RECEIVING_HEADER_ONGOING"
        /\ UNCHANGED data_length
  /\ UNCHANGED <<stream, requests, body_position, got>>

\* Mutant: the second read asks for a whole header again.
ContinueHeaderWhole ==
  /\ Readable
  /\ state = "RECEIVING_HEADER_ONGOING"
  /\ \E t \in Recv(HeaderLen) :
       /\ header_position' = Rlen(header_position, t)
       /\ wrote' = Written(header_position, t, HeaderSize)
       /\ Took(t)
  /\ \/ /\ header_position' >= HeaderLen
        /\ HeaderComplete
     \/ /\ header_position' < HeaderLen
        /\ UNCHANGED <<state, data_length>>
  /\ UNCHANGED <<stream, requests, body_position, got>>

ContinueHeader ==
  /\ Readable
  /\ state = "RECEIVING_HEADER_ONGOING"
  /\ \E t \in Recv(HeaderLen - header_position) :
       /\ header_position' = Rlen(header_position, t)
       /\ wrote' = Written(header_position, t, HeaderSize)
       /\ Took(t)
  /\ \/ /\ header_position' = HeaderLen
        /\ HeaderComplete
     \/ /\ header_position' # HeaderLen
        /\ UNCHANGED <<state, data_length>>
  /\ UNCHANGED <<stream, requests, body_position, got>>

\* The body is complete: the caller gets it, and the next round (the next
\* call of connect_monitor, the next turn of the loop) starts from UNSENT.
BodyComplete ==
  /\ got' = Append(got, [start |-> rpos' - data_length - HeaderLen, len |-> data_length])
  /\ requests' = IF requests > 0 THEN requests - 1 ELSE 0
  /\ state' = "UNSENT"
  /\ header_position' = 0
  /\ data_length' = 0

\* Mutant: the first part of a body is taken for the whole of it.
BeginBodyShort ==
  /\ Readable
  /\ state = "HEADER_RECEIVED"
  /\ \E t \in Recv(data_length) :
       /\ body_position' = Rlen(0, t)
       /\ wrote' = Written(0, t, data_length + 2)
       /\ Took(t)
  /\ \/ /\ body_position' # 0
        /\ BodyComplete
     \/ /\ body_position' = 0
        /\ state' = "RECEIVING_DATA"
        /\ UNCHANGED <<requests, header_position, data_length, got>>
  /\ UNCHANGED stream

BeginBody ==
  /\ Readable
  /\ state = "HEADER_RECEIVED"
  /\ \E t \in Recv(data_length) :
       /\ body_position' = Rlen(0, t)
       /\ wrote' = Written(0, t, data_length + 2)
       /\ Took(t)
  /\ \/ /\ body_position' # 0
        /\ body_position' = data_length
        /\ BodyComplete
     \/ /\ body_position' = 0 \/ body_position' # data_length
        /\ state' = IF body_position' = 0 THEN "RECEIVING_DATA" ELSE "RECEIVING_DATA_ONGOING"
        /\ UNCHANGED <<requests, header_position, data_length, got>>
  /\ UNCHANGED stream

ContinueBody ==
  /\ Readable
  /\ state = "RECEIVING_DATA_ONGOING"
  /\ \E t \in Recv(data_length - body_position) :
       /\ body_position' = Rlen(body_position, t)
       /\ wrote' = Written(body_position, t, data_length + 2)
       /\ Took(t)
  /\ \/ /\ body_position' = data_length
        /\ BodyComplete
     \/ /\ body_position' # data_length
        /\ UNCHANGED <<state, requests, header_position, data_length, got>>
  /\ UNCHANGED stream

\* RECEIVING_HEADER and RECEIVING_DATA match no branch of the loop: select
\* keeps reporting the socket readable and the loop turns without effect.
Spin ==
  /\ Readable
  /\ state \in {"RECEIVING_HEADER", "RECEIVING_DATA"}
  /\ UNCHANGED vars
----------------------------------------------------------------------------
Smbtad ==
  \/ \E len \in Lens : SmbtadWrite(len)
  \/ \E how \in {"closed", "reset"} : SmbtadGone(how)

Receiver ==
  \/ SendQuery
  \/ BeginHeader \/ ContinueHeader
  \/ BeginBody \/ ContinueBody
  \/ Spin

Next == Smbtad \/ Receiver

Spec == Init /\ [][Next]_vars

\* The receiving thread keeps being scheduled; smbtad owes nothing.
FairSpec == Spec /\ WF_vars(Receiver)
----------------------------------------------------------------------------
TypeOK ==
  /\ frames \in Seq(FrameRecord)
  /\ avail \in Nat
  /\ rpos \in Nat
  /\ conn \in {"open", "closed", "reset"}
  /\ requests \in 0 .. Requests
  /\ state \in Flags
  /\ header_position \in Int
  /\ body_position \in Int
  /\ data_length \in Nat
  /\ wrote \in WriteRecord
  /\ got \in Seq(FrameRecord)

\* Where a sequence of frames ends in the stream, and where the frame the
\* receiver is working on (the one after those it has handed over) starts.
EndOf(s) == IF s = <<>> THEN 0 ELSE s[Len(s)].start + HeaderLen + s[Len(s)].len
Current == Len(got) + 1
CurrentStart == IF Current \in DOMAIN frames THEN frames[Current].start ELSE EndOf(frames)

\* The stream is over: smbtad has gone and nothing of it is left to read.
Over == conn = "closed" /\ rpos = avail

(***************************************************************************)
(* However smbtad's bytes are cut into recv results, and wherever the      *)
(* connection breaks, the caller gets exactly the frames smbtad wrote,     *)
(* with the right length, in order, none twice and none skipped (lines     *)
(* 113-207 of monitor/network.c).                                          *)
(***************************************************************************)
FramesInOrder ==
  /\ Len(got) <= Len(frames)
  /\ \A i \in DOMAIN got : got[i] = frames[i]

(***************************************************************************)
(* Whatever common_receive_data writes, the 0 behind the bytes included,   *)
(* is inside the buffer it was given (29 bytes for a header, data_length   *)
(* + 2 for a body), with one exception: when the first recv of a block     *)
(* meets a reset, the 0 is written to the byte before the buffer           *)
(* (`*(buf + t)' with t = -1, line 273 of common.c), and then the stream   *)
(* is over and nothing is written any more.  A body is never longer than   *)
(* its own frame: the length in use is the one of the frame being read,    *)
(* not of an earlier one, although data_length outlives a frame.           *)
(***************************************************************************)
WritesFit ==
  \/ wrote.first >= 0 /\ wrote.last < wrote.size
  \/ wrote.first = -1 /\ wrote.last = -1 /\ Over

BuffersFit ==
  /\ WritesFit
  /\ header_position <= HeaderLen
  /\ state \in {"HEADER_RECEIVED", "RECEIVING_DATA", "RECEIVING_DATA_ONGOING"} =>
       /\ Current \in DOMAIN frames
       /\ data_length = frames[Current].len
  /\ state = "RECEIVING_DATA_ONGOING" => body_position < data_length

(***************************************************************************)
(* Whatever has been taken from the stream belongs to frames handed over   *)
(* or to the one in hand: no recv reaches into the next frame, so no byte  *)
(* of it is lost when the buffers are freed (network.c lines 205-206).     *)
(***************************************************************************)
NoReadAhead ==
  rpos <= IF Current \in DOMAIN frames
          THEN CurrentStart + HeaderLen + frames[Current].len
          ELSE CurrentStart

(***************************************************************************)
(* The two states no branch of the loop handles are reached only when the  *)
(* stream is over, or by a frame with an empty body; while smbtad lives    *)
(* and sends non-empty bodies the receiver is never lost in them (the      *)
(* `continue' of lines 141-144 and 176-179 of network.c).                  *)
(***************************************************************************)
LostOnlyAtTheEnd ==
  /\ state = "RECEIVING_HEADER" => Over
  /\ state = "RECEIVING_DATA" => Over \/ data_length = 0

(***************************************************************************)
(* Unless smbtad goes away or sends an empty body, every frame it writes   *)
(* is handed over: no interleaving of partial reads leaves the receiver    *)
(* waiting for bytes it has already taken.                                 *)
(***************************************************************************)
Interrupted == conn # "open" \/ \E f \in DOMAIN frames : frames[f].len = 0

EveryFrameDelivered ==
  \A n \in 1 .. MaxFrames : Len(frames) >= n ~> Len(got) >= n \/ Interrupted

\* The frames seen as messages: what FrameDelivery promises.
Delivery == INSTANCE FrameDelivery WITH
              Frame <- FrameRecord, sent <- frames, received <- got

(***************************************************************************)
(* The receiver implements FrameDelivery: every recv that does not         *)
(* complete a body is invisible to the caller, and the one that does hands *)
(* over exactly the next frame.                                            *)
(***************************************************************************)
DeliverySpec == Delivery!DeliverySpec
=============================================================================
