------------------------ MODULE FrameReceiver_proofs ------------------------
(***************************************************************************)
(* Proofs about FrameReceiver, for every header length, every set of body  *)
(* lengths and any number of frames.  The argument is one inductive        *)
(* invariant: the frames tile the stream, and in every state of the        *)
(* receiver the byte counts say exactly how far into the current frame it  *)
(* has read, unless the stream is over.                                    *)
(***************************************************************************)
EXTENDS FrameReceiver, TLAPS

FrameEnd(f) == frames[f].start + HeaderLen + frames[f].len

\* The frames follow one another without a gap, and nothing is readable
\* that is not part of one.
Layout ==
  /\ \A f \in DOMAIN frames : FrameEnd(f) <= EndOf(frames)
  /\ \A f, g \in DOMAIN frames : f < g => FrameEnd(f) <= frames[g].start
  /\ \A f \in DOMAIN frames :
       f + 1 \in DOMAIN frames => frames[f + 1].start = FrameEnd(f)
  /\ frames # <<>> => frames[1].start = 0
  /\ rpos <= avail
  /\ avail <= EndOf(frames)
  /\ conn = "open" => avail = EndOf(frames)

\* How far the receiver is, state by state.
Progress ==
  /\ state \in Waiting => header_position = 0 /\ rpos = CurrentStart
  /\ state = "RECEIVING_HEADER_ONGOING" =>
       \/ Over
       \/ /\ header_position \in 1 .. HeaderLen - 1
          /\ Current \in DOMAIN frames
          /\ rpos = CurrentStart + header_position
  /\ state = "RECEIVING_HEADER_ONGOING" => header_position < HeaderLen
  /\ state = "HEADER_RECEIVED" => rpos = CurrentStart + HeaderLen
  /\ state = "RECEIVING_DATA_ONGOING" => data_length > 0
  /\ state = "RECEIVING_DATA_ONGOING" =>
       \/ Over
       \/ /\ body_position \in 1 .. data_length - 1
          /\ rpos = CurrentStart + HeaderLen + body_position

IInv ==
  /\ TypeOK
  /\ Layout
  /\ Progress
  /\ FramesInOrder
  /\ BuffersFit
  /\ NoReadAhead
  /\ LostOnlyAtTheEnd
----------------------------------------------------------------------------
(* Facts about one state. *)

\* A result of recv is a number of bytes that are there, or tells the end.
LEMMA RecvResults ==
  ASSUME TypeOK, NEW length \in Int, NEW t \in Recv(length)
  PROVE  \/ t \in 1 .. length /\ rpos + t <= avail
         \/ t = 0 /\ (length = 0 \/ Over)
         \/ t = -1 /\ length # 0 /\ rpos = avail /\ conn = "reset"
  BY DEF Recv, Over

\* Frames start at different places, so the bytes at the start of the
\* current frame give its length and no other.
LEMMA HeaderGivesLength ==
  ASSUME TypeOK, Layout, Current \in DOMAIN frames
  PROVE  BlockLength(CurrentStart) = {frames[Current].len}
<1> DEFINE headers == {f \in DOMAIN frames : frames[f].start = CurrentStart}
<1>1. CurrentStart = frames[Current].start
  BY DEF CurrentStart
<1>2. headers = {Current}
  <2> SUFFICES ASSUME NEW f \in DOMAIN frames, frames[f].start = frames[Current].start
               PROVE  f = Current
    BY <1>1
  <2>1. f \in 1 .. Len(frames) /\ Current \in 1 .. Len(frames)
    BY DEF TypeOK
  <2>2. frames[f] \in FrameRecord /\ frames[Current] \in FrameRecord
    BY <2>1 DEF TypeOK
  <2>3. ~(f < Current)
    BY <2>1, <2>2, FrameAssumption DEF Layout, FrameEnd, FrameRecord
  <2>4. ~(Current < f)
    BY <2>1, <2>2, FrameAssumption DEF Layout, FrameEnd, FrameRecord
  <2> QED BY <2>1, <2>3, <2>4
<1>3. BlockLength(CurrentStart) = {frames[f].len : f \in headers}
  BY <1>2 DEF BlockLength
<1> QED BY <1>2, <1>3

\* The offsets are numbers.
LEMMA OffsetsAreNat ==
  ASSUME TypeOK
  PROVE  /\ EndOf(frames) \in Nat
         /\ CurrentStart \in Nat
         /\ Current \in Nat
         /\ DOMAIN frames = 1 .. Len(frames)
         /\ \A f \in DOMAIN frames : frames[f] \in FrameRecord /\ FrameEnd(f) \in Nat
<1>1. DOMAIN frames = 1 .. Len(frames) /\ Len(frames) \in Nat /\ Current \in Nat
  BY DEF TypeOK, Current
<1>2. \A f \in DOMAIN frames : frames[f] \in FrameRecord
  BY DEF TypeOK
<1>3. \A f \in DOMAIN frames : FrameEnd(f) \in Nat
  BY <1>2, FrameAssumption DEF FrameEnd, FrameRecord
<1>4. EndOf(frames) \in Nat
  <2>1. CASE frames = <<>>
    BY <2>1 DEF EndOf
  <2>2. CASE frames # <<>>
    <3>1. Len(frames) \in DOMAIN frames
      BY <1>1, <2>2 DEF TypeOK
    <3> QED BY <1>2, <2>2, <3>1, FrameAssumption DEF EndOf, FrameRecord
  <2> QED BY <2>1, <2>2
<1>5. CurrentStart \in Nat
  BY <1>2, <1>4 DEF CurrentStart, FrameRecord
<1> QED BY <1>1, <1>2, <1>3, <1>4, <1>5

\* While a byte is left to read at the end of a frame, there is a next frame.
LEMMA MoreBytesMoreFrames ==
  ASSUME TypeOK, Layout, FramesInOrder, CurrentStart < avail
  PROVE  Current \in DOMAIN frames
  BY OffsetsAreNat DEF TypeOK, Layout, CurrentStart

\* Where the frame after the current one starts.
LEMMA CurrentEnd ==
  ASSUME TypeOK, Layout, FramesInOrder, Current \in DOMAIN frames
  PROVE  FrameEnd(Current) = IF Current + 1 \in DOMAIN frames
                             THEN frames[Current + 1].start
                             ELSE EndOf(frames)
<1>1. Current \in 1 .. Len(frames) /\ Len(frames) \in Nat
  BY DEF TypeOK
<1>2. CASE Current + 1 \in DOMAIN frames
  BY <1>2 DEF Layout
<1>3. CASE Current + 1 \notin DOMAIN frames
  <2>1. DOMAIN frames = 1 .. Len(frames)
    BY DEF TypeOK
  <2>2. Current = Len(frames)
    BY <1>1, <1>3, <2>1
  <2>3. frames # <<>>
    BY <1>1, <2>2
  <2> QED BY <1>3, <2>2, <2>3 DEF EndOf, FrameEnd
<1> QED BY <1>2, <1>3
----------------------------------------------------------------------------
(* The steps of smbtad. *)

LEMMA InitIInv == Init => IInv
<1> SUFFICES ASSUME Init PROVE IInv
  OBVIOUS
<1> USE DEF Init
<1>1. TypeOK
  BY FrameAssumption DEF TypeOK, Flags, Nothing, WriteRecord
<1>2. Layout
  BY DEF Layout, EndOf
<1>3. Progress
  BY DEF Progress, Waiting, CurrentStart, EndOf
<1>4. FramesInOrder /\ BuffersFit /\ LostOnlyAtTheEnd
  BY FrameAssumption DEF FramesInOrder, BuffersFit, WritesFit, Nothing, LostOnlyAtTheEnd
<1>5. NoReadAhead
  BY DEF NoReadAhead, CurrentStart, EndOf, Current
<1> QED BY <1>1, <1>2, <1>3, <1>4, <1>5 DEF IInv

\* A new frame is appended where the stream ended; the one being read, if
\* there is one, stays where it is, and otherwise the new one is it.
LEMMA WriteKeepsIInv ==
  ASSUME IInv, NEW len \in Lens, SmbtadWrite(len)
  PROVE  IInv'
<1> DEFINE new == [start |-> avail, len |-> len]
<1> USE DEF IInv
<1>1. /\ frames' = Append(frames, new)
      /\ avail' = avail + HeaderLen + len
      /\ conn = "open" /\ avail = EndOf(frames)
      /\ UNCHANGED <<rpos, conn, requests, state, header_position, body_position, data_length>>
      /\ UNCHANGED <<wrote, got>>
  BY DEF SmbtadWrite, positions, Layout
<1>2. new \in FrameRecord /\ len \in Nat /\ avail \in Nat /\ HeaderLen \in Nat \ {0}
  BY FrameAssumption DEF TypeOK, FrameRecord
<1>3. TypeOK'
  BY <1>1, <1>2 DEF TypeOK
<1>4. /\ Len(frames') = Len(frames) + 1
      /\ DOMAIN frames = 1 .. Len(frames)
      /\ DOMAIN frames' = 1 .. Len(frames) + 1
      /\ \A f \in DOMAIN frames : frames'[f] = frames[f]
      /\ frames'[Len(frames) + 1] = new
      /\ Len(frames) \in Nat
  BY <1>1, <1>2 DEF TypeOK
<1>5. EndOf(frames') = avail + HeaderLen + len /\ EndOf(frames') = avail'
  BY <1>1, <1>4 DEF EndOf
<1>6. Current' = Current /\ Current \in 1 .. Len(frames) + 1
  BY <1>1, <1>4 DEF Current, FramesInOrder, TypeOK
<1>7. /\ CurrentStart' = CurrentStart
      /\ Current \in DOMAIN frames'
      /\ Current \notin DOMAIN frames => frames'[Current] = new
  BY <1>1, <1>4, <1>6 DEF CurrentStart
<1>8. Layout'
  <2>1. \A f \in DOMAIN frames : FrameEnd(f)' = FrameEnd(f) /\ FrameEnd(f) <= avail
    BY <1>1, <1>4 DEF FrameEnd, Layout
  <2>2. \A f \in DOMAIN frames' : f \notin DOMAIN frames => FrameEnd(f)' = avail'
    BY <1>1, <1>4 DEF FrameEnd
  <2>3. avail' >= avail
    BY <1>1, <1>2
  <2>4. \A f \in DOMAIN frames : FrameEnd(f) \in Nat
    BY OffsetsAreNat
  <2>5. (\A f \in DOMAIN frames : FrameEnd(f) <= EndOf(frames))'
    BY <1>1, <1>2, <1>4, <1>5, <2>1, <2>2, <2>3, <2>4
  <2>6. (\A f, g \in DOMAIN frames : f < g => FrameEnd(f) <= frames[g].start)'
    BY <1>2, <1>4, <2>1, <2>4 DEF Layout
  <2>7. (\A f \in DOMAIN frames :
            f + 1 \in DOMAIN frames => frames[f + 1].start = FrameEnd(f))'
    <3> SUFFICES ASSUME NEW f \in DOMAIN frames', f + 1 \in DOMAIN frames'
                 PROVE  frames'[f + 1].start = FrameEnd(f)'
      OBVIOUS
    <3>1. CASE f + 1 \in DOMAIN frames
      BY <1>4, <2>1, <3>1 DEF Layout
    <3>2. CASE f + 1 = Len(frames) + 1
      <4>1. f = Len(frames) /\ frames # <<>> /\ f \in DOMAIN frames
        BY <1>4, <3>2
      <4>2. FrameEnd(f) = EndOf(frames)
        BY <4>1 DEF FrameEnd, EndOf
      <4> QED BY <1>1, <1>4, <2>1, <3>2, <4>1, <4>2
    <3> QED BY <1>4, <3>1, <3>2
  <2>8. (frames # <<>> => frames[1].start = 0)'
    <3>1. CASE frames = <<>>
      BY <1>1, <1>4, <3>1 DEF EndOf
    <3>2. CASE frames # <<>>
      BY <1>4, <3>2 DEF Layout
    <3> QED BY <3>1, <3>2
  <2>9. (rpos <= avail /\ avail <= EndOf(frames) /\ (conn = "open" => avail = EndOf(frames)))'
    BY <1>1, <1>2, <1>5, <2>3 DEF Layout, TypeOK
  <2> QED BY <2>5, <2>6, <2>7, <2>8, <2>9 DEF Layout
<1>9. FramesInOrder' /\ BuffersFit'
  BY <1>1, <1>4, <1>6, <1>7 DEF FramesInOrder, BuffersFit, WritesFit, Over
<1>10. Progress' /\ LostOnlyAtTheEnd'
  BY <1>1, <1>4, <1>6, <1>7 DEF Progress, LostOnlyAtTheEnd, Over
<1>11. NoReadAhead'
  <2>1. CASE Current \in DOMAIN frames
    BY <1>1, <1>4, <1>6, <1>7, <2>1 DEF NoReadAhead
  <2>2. CASE Current \notin DOMAIN frames
    <3>1. rpos <= CurrentStart
      BY <2>2 DEF NoReadAhead
    <3>2. CurrentStart \in Nat /\ rpos \in Nat
      BY OffsetsAreNat DEF TypeOK
    <3>3. frames'[Current'].len = len /\ Current' \in DOMAIN frames'
      BY <1>6, <1>7, <2>2
    <3>4. rpos' <= CurrentStart' + HeaderLen + frames'[Current'].len
      BY <1>1, <1>2, <1>7, <3>1, <3>2, <3>3
    <3> QED BY <3>3, <3>4 DEF NoReadAhead
  <2> QED BY <2>1, <2>2
<1> QED BY <1>3, <1>8, <1>9, <1>10, <1>11

LEMMA GoneKeepsIInv ==
  ASSUME IInv, NEW how \in {"closed", "reset"}, SmbtadGone(how)
  PROVE  IInv'
<1> USE DEF IInv
<1> PICK cut \in rpos .. avail : avail' = cut
  BY DEF SmbtadGone
<1>1. /\ UNCHANGED <<frames, rpos, requests, state, wrote, got>>
      /\ UNCHANGED <<header_position, body_position, data_length>>
      /\ conn = "open" /\ conn' = how
  BY DEF SmbtadGone, positions
<1>2. TypeOK'
  BY <1>1 DEF TypeOK
<1>3. /\ EndOf(frames)' = EndOf(frames) /\ Current' = Current
      /\ CurrentStart' = CurrentStart
      /\ \A f \in DOMAIN frames : FrameEnd(f)' = FrameEnd(f)
  BY <1>1 DEF EndOf, Current, CurrentStart, FrameEnd
<1>4. Layout'
  BY <1>1, <1>3, OffsetsAreNat DEF Layout, TypeOK
<1>5. FramesInOrder' /\ BuffersFit' /\ NoReadAhead'
  <2>1. FramesInOrder'
    BY <1>1 DEF FramesInOrder
  <2>2. WritesFit'
    BY <1>1 DEF BuffersFit, WritesFit, Over
  <2>3. BuffersFit'
    BY <1>1, <1>3, <2>2 DEF BuffersFit
  <2>4. NoReadAhead'
    BY <1>1, <1>3 DEF NoReadAhead
  <2> QED BY <2>1, <2>3, <2>4
<1>6. Progress' /\ LostOnlyAtTheEnd'
  BY <1>1, <1>3 DEF Progress, LostOnlyAtTheEnd, Over
<1> QED BY <1>2, <1>4, <1>5, <1>6
----------------------------------------------------------------------------
(* The steps of the receiver.  None of them changes what smbtad wrote. *)

\* Taking t bytes leaves the frames and their order alone.
LEMMA ReadKeepsLayout ==
  ASSUME IInv, UNCHANGED stream, NEW length \in Int, NEW t \in Recv(length), Took(t)
  PROVE  /\ Layout'
         /\ rpos' \in Nat /\ conn' \in {"open", "closed", "reset"}
         /\ Over => Over'
         /\ t = -1 => Over'
         /\ t = 0 => Over \/ length = 0
         /\ t \in 1 .. length => rpos' = rpos + t /\ rpos < avail
         /\ Over => t \notin 1 .. length /\ t # -1
         /\ EndOf(frames)' = EndOf(frames)
<1> USE DEF IInv
<1>1. \/ t \in 1 .. length /\ rpos + t <= avail
      \/ t = 0 /\ (length = 0 \/ Over)
      \/ t = -1 /\ length # 0 /\ rpos = avail /\ conn = "reset"
  BY RecvResults
<1>2. UNCHANGED <<frames, avail>> /\ rpos \in Nat /\ avail \in Nat /\ rpos <= avail
  BY DEF stream, TypeOK, Layout
<1>3. /\ rpos' = IF t > 0 THEN rpos + t ELSE rpos
      /\ conn' = IF t = -1 THEN "closed" ELSE conn
  BY DEF Took
<1>4. EndOf(frames)' = EndOf(frames) /\ \A f \in DOMAIN frames : FrameEnd(f)' = FrameEnd(f)
  BY <1>2 DEF EndOf, FrameEnd
<1>5. rpos' \in Nat /\ rpos' <= avail /\ conn' \in {"open", "closed", "reset"}
  BY <1>1, <1>2, <1>3 DEF TypeOK
<1>6. Layout'
  BY <1>2, <1>3, <1>4, <1>5 DEF Layout
<1>7. (Over => Over') /\ (t = -1 => Over') /\ (t = 0 => Over \/ length = 0)
  BY <1>1, <1>2, <1>3 DEF Over
<1>8. t \in 1 .. length => rpos' = rpos + t /\ rpos < avail
  BY <1>1, <1>2, <1>3
<1>9. Over => t \notin 1 .. length /\ t # -1
  BY <1>1, <1>2 DEF Over
<1> QED BY <1>4, <1>5, <1>6, <1>7, <1>8, <1>9

LEMMA SendQueryKeepsIInv ==
  ASSUME IInv, SendQuery
  PROVE  IInv'
<1> USE DEF IInv
<1>1. /\ UNCHANGED <<frames, avail, rpos, conn, requests, wrote, got>>
      /\ UNCHANGED <<header_position, body_position, data_length>>
      /\ state = "UNSENT" /\ state' \in {"SENT", "KILLED"}
  BY DEF SendQuery, stream, positions
<1>2. TypeOK'
  BY <1>1 DEF TypeOK, Flags
<1>3. EndOf(frames)' = EndOf(frames) /\ Current' = Current /\ CurrentStart' = CurrentStart
  BY <1>1 DEF EndOf, Current, CurrentStart
<1>4. Layout' /\ FramesInOrder' /\ NoReadAhead'
  BY <1>1, <1>3 DEF Layout, FramesInOrder, NoReadAhead, FrameEnd
<1>5. Progress' /\ BuffersFit' /\ LostOnlyAtTheEnd'
  BY <1>1, <1>3 DEF Progress, BuffersFit, WritesFit, Over, LostOnlyAtTheEnd, Waiting
<1> QED BY <1>2, <1>4, <1>5

\* What a read of `length' bytes to place `base' writes is inside the buffer,
\* or is the 0 before it of a reset that comes first of all.
LEMMA WrittenFits ==
  ASSUME NEW base \in Int, NEW length \in Int, NEW size \in Nat,
         NEW t \in (1 .. length) \cup {0, -1},
         t \in 1 .. length => base \in Nat /\ base + length < size,
         t = -1 => base \in Nat /\ base < size /\ Over',
         wrote' = Written(base, t, size)
  PROVE  WritesFit' /\ wrote' \in WriteRecord
<1>1. CASE t \in 1 .. length
  <2>1. wrote' = [first |-> base, last |-> base + t, size |-> size]
    BY <1>1 DEF Written
  <2> QED BY <1>1, <2>1 DEF WritesFit, WriteRecord
<1>2. CASE t = 0
  <2>1. wrote' = Nothing
    BY <1>2 DEF Written
  <2> QED BY <2>1 DEF WritesFit, WriteRecord, Nothing
<1>3. CASE t = -1
  <2>1. wrote' = [first |-> base - 1, last |-> base - 1, size |-> size]
    BY <1>3 DEF Written
  <2> QED BY <1>3, <2>1 DEF WritesFit, WriteRecord
<1> QED BY <1>1, <1>2, <1>3

\* A read of header bytes: `length' is what is missing of the header.
LEMMA HeaderReadKeepsIInv ==
  ASSUME IInv, UNCHANGED <<stream, requests, body_position, got>>,
         NEW length \in 1 .. HeaderLen, NEW t \in Recv(length), Took(t),
         header_position' = Rlen(header_position, t),
         wrote' = Written(header_position, t, HeaderSize),
         Over \/ (header_position = HeaderLen - length /\ rpos = CurrentStart + header_position),
         header_position < HeaderLen, header_position \in Int,
         state \notin {"HEADER_RECEIVED", "RECEIVING_DATA", "RECEIVING_DATA_ONGOING"},
         \/ header_position' = HeaderLen /\ HeaderComplete
         \/ /\ header_position' # HeaderLen
            /\ state' \in {"RECEIVING_HEADER", "RECEIVING_HEADER_ONGOING"}
            /\ state' = "RECEIVING_HEADER" => t = 0
            /\ UNCHANGED data_length
  PROVE  IInv'
<1> USE DEF IInv
<1>1. /\ UNCHANGED <<frames, avail, requests, body_position, got>>
      /\ length \in Int /\ HeaderLen \in Nat \ {0}
      /\ rpos \in Nat /\ CurrentStart \in Nat /\ Current \in Nat
  BY FrameAssumption, OffsetsAreNat DEF stream, TypeOK
<1>2. /\ Layout'
      /\ rpos' \in Nat /\ conn' \in {"open", "closed", "reset"}
      /\ Over => Over'
      /\ t = -1 => Over'
      /\ t = 0 => Over
      /\ t \in 1 .. length => rpos' = rpos + t /\ rpos < avail
      /\ Over => t \notin 1 .. length /\ t # -1
  BY <1>1, ReadKeepsLayout
<1>3. EndOf(frames)' = EndOf(frames) /\ Current' = Current /\ CurrentStart' = CurrentStart
  BY <1>1 DEF EndOf, Current, CurrentStart
<1>4. t \in (1 .. length) \cup {0, -1}
  BY <1>1, RecvResults
<1>5. FramesInOrder'
  BY <1>1 DEF FramesInOrder
<1>6. ASSUME t \in 1 .. length
      PROVE  /\ Current \in DOMAIN frames
             /\ header_position = HeaderLen - length
             /\ header_position' = header_position + t
             /\ rpos' = CurrentStart + header_position'
             /\ header_position' \in 1 .. HeaderLen
  <2>1. ~Over /\ rpos' = rpos + t /\ rpos < avail
    BY <1>2, <1>6
  <2>2. header_position = HeaderLen - length /\ rpos = CurrentStart + header_position
    BY <2>1
  <2>3. CurrentStart < avail
    BY <1>1, <2>1, <2>2 DEF TypeOK
  <2>4. Current \in DOMAIN frames
    BY <2>3, MoreBytesMoreFrames
  <2>5. header_position' = header_position + t
    BY <1>1, <1>6 DEF Rlen
  <2> QED BY <1>1, <1>6, <2>1, <2>2, <2>4, <2>5
<1>7. ASSUME t \in {0, -1}
      PROVE  Over' /\ header_position' \in Int /\ header_position' < HeaderLen /\ rpos' = rpos
  BY <1>1, <1>2, <1>7 DEF Rlen, Took
<1>w. WritesFit' /\ wrote' \in WriteRecord
  <2>1. ~Over => header_position \in Nat /\ header_position + length = HeaderLen
    BY <1>1
  <2>2. t \in 1 .. length \/ t = -1 => ~Over
    BY <1>2
  <2>3. HeaderSize \in Nat /\ HeaderLen < HeaderSize
    BY <1>1 DEF HeaderSize
  <2> HIDE DEF IInv
  <2> QED BY <1>1, <1>2, <1>4, <2>1, <2>2, <2>3, WrittenFits
<1>8. CASE header_position' = HeaderLen
  <2>1. t \in 1 .. length
    BY <1>1, <1>4, <1>7, <1>8
  <2>2. Current \in DOMAIN frames /\ rpos' = CurrentStart + HeaderLen
    BY <1>6, <1>8, <2>1
  <2>3. rpos' - HeaderLen = CurrentStart
    BY <1>1, <2>2
  <2>4. state' = "HEADER_RECEIVED" /\ data_length' = frames[Current].len
    BY <1>8, <2>2, <2>3, HeaderGivesLength DEF HeaderComplete
  <2>5. frames[Current] \in FrameRecord
    BY <2>2, OffsetsAreNat
  <2>6. TypeOK'
    BY <1>1, <1>2, <1>w, <1>8, <2>4, <2>5 DEF TypeOK, Flags, FrameRecord
  <2>7. BuffersFit' /\ Progress' /\ LostOnlyAtTheEnd'
    BY <1>1, <1>3, <1>w, <1>8, <2>2, <2>4 DEF BuffersFit, Progress, LostOnlyAtTheEnd, Waiting
  <2>8. NoReadAhead'
    BY <1>1, <1>3, <2>2, <2>5 DEF NoReadAhead, FrameRecord
  <2> QED BY <1>2, <1>5, <2>6, <2>7, <2>8
<1>9. CASE header_position' # HeaderLen
  <2>1. /\ state' \in {"RECEIVING_HEADER", "RECEIVING_HEADER_ONGOING"}
        /\ state' = "RECEIVING_HEADER" => t = 0
        /\ UNCHANGED data_length
    BY <1>9
  <2>2. header_position' \in Int /\ header_position' < HeaderLen
    BY <1>1, <1>4, <1>6, <1>7, <1>9
  <2>3. TypeOK'
    BY <1>1, <1>2, <1>w, <2>1, <2>2 DEF TypeOK, Flags
  <2>4. BuffersFit'
    BY <1>1, <1>w, <2>1, <2>2 DEF BuffersFit
  <2>5. Progress' /\ LostOnlyAtTheEnd'
    <3>1. CASE t \in {0, -1}
      BY <1>7, <2>1, <2>2, <3>1 DEF Progress, LostOnlyAtTheEnd, Waiting
    <3>2. CASE t \in 1 .. length
      BY <1>1, <1>3, <1>6, <1>9, <2>1, <2>2, <3>2 DEF Progress, LostOnlyAtTheEnd, Waiting
    <3> QED BY <1>4, <3>1, <3>2
  <2>6. NoReadAhead'
    <3>1. CASE t \in {0, -1}
      BY <1>1, <1>3, <1>7, <3>1 DEF NoReadAhead
    <3>2. CASE t \in 1 .. length
      <4>1. frames[Current] \in FrameRecord
        BY <1>6, <3>2, OffsetsAreNat
      <4> QED BY <1>1, <1>3, <1>6, <3>2, <4>1 DEF NoReadAhead, FrameRecord
    <3> QED BY <1>4, <3>1, <3>2
  <2> QED BY <1>2, <1>5, <2>3, <2>4, <2>5, <2>6
<1> QED BY <1>8, <1>9

LEMMA BeginHeaderKeepsIInv ==
  ASSUME IInv, BeginHeader
  PROVE  IInv'
<1> PICK t \in Recv(HeaderLen) : /\ header_position' = Rlen(header_position, t)
                                 /\ wrote' = Written(0, t, HeaderSize)
                                 /\ Took(t)
  BY DEF BeginHeader
<1>1. HeaderLen \in 1 .. HeaderLen /\ HeaderLen \in Int
  BY FrameAssumption
<1>2. UNCHANGED <<stream, requests, body_position, got>> /\ state \in {"SENT", "UNSENT"}
  BY DEF BeginHeader
<1>3. header_position = 0 /\ rpos = CurrentStart /\ CurrentStart \in Nat
  BY <1>2, OffsetsAreNat DEF IInv, Progress, Waiting
<1>4. t \in Int /\ wrote' = Written(header_position, t, HeaderSize)
  BY <1>1, <1>3, RecvResults DEF IInv
<1>5. header_position' = 0 => t = 0
  BY <1>3, <1>4 DEF Rlen
<1>6. \/ header_position' = HeaderLen /\ HeaderComplete
      \/ /\ header_position' # HeaderLen
         /\ state' \in {"RECEIVING_HEADER", "RECEIVING_HEADER_ONGOING"}
         /\ state' = "RECEIVING_HEADER" => t = 0
         /\ UNCHANGED data_length
  BY <1>5 DEF BeginHeader
<1>7. header_position = HeaderLen - HeaderLen /\ rpos = CurrentStart + header_position
      /\ header_position < HeaderLen
  BY <1>1, <1>3, FrameAssumption
<1> QED BY <1>1, <1>2, <1>3, <1>4, <1>6, <1>7, HeaderReadKeepsIInv

LEMMA ContinueHeaderKeepsIInv ==
  ASSUME IInv, ContinueHeader
  PROVE  IInv'
<1> DEFINE length == HeaderLen - header_position
<1> PICK t \in Recv(length) : /\ header_position' = Rlen(header_position, t)
                              /\ wrote' = Written(header_position, t, HeaderSize)
                              /\ Took(t)
  BY DEF ContinueHeader
<1>1. UNCHANGED <<stream, requests, body_position, got>> /\ state = "RECEIVING_HEADER_ONGOING"
  BY DEF ContinueHeader
<1>2. /\ header_position \in Int /\ header_position < HeaderLen
      /\ \/ Over
         \/ header_position \in 1 .. HeaderLen - 1 /\ rpos = CurrentStart + header_position
  BY <1>1 DEF IInv, Progress, TypeOK
<1>3. \/ header_position' = HeaderLen /\ HeaderComplete
      \/ /\ header_position' # HeaderLen
         /\ state' \in {"RECEIVING_HEADER", "RECEIVING_HEADER_ONGOING"}
         /\ state' = "RECEIVING_HEADER" => t = 0
         /\ UNCHANGED data_length
  BY <1>1 DEF ContinueHeader
<1>4. CASE length \in 1 .. HeaderLen
  <2>1. Over \/ (header_position = HeaderLen - length /\ rpos = CurrentStart + header_position)
    BY <1>2, FrameAssumption
  <2> HIDE DEF length
  <2> QED BY <1>1, <1>2, <1>3, <1>4, <2>1, HeaderReadKeepsIInv
\* After an error return the count is negative, but then nothing is left to read.
<1>5. CASE length \notin 1 .. HeaderLen
  <2>1. Over /\ length \in Int /\ length # 0
    BY <1>2, <1>5, FrameAssumption
  <2>2. t = 0
    <3> HIDE DEF length
    <3> QED BY <2>1, RecvResults DEF IInv, Over, TypeOK
  <2>w. WritesFit' /\ wrote' \in WriteRecord
    <3>1. wrote' = Nothing
      BY <2>2 DEF Written
    <3> QED BY <3>1 DEF WritesFit, WriteRecord, Nothing
  <2>3. header_position' = 0 /\ header_position' # HeaderLen
        /\ UNCHANGED <<frames, avail, rpos, conn, requests, body_position, got, state, data_length>>
    BY <1>1, <2>2, FrameAssumption DEF ContinueHeader, Rlen, Took, stream
  <2>4. EndOf(frames)' = EndOf(frames) /\ Current' = Current /\ CurrentStart' = CurrentStart
    BY <2>3 DEF EndOf, Current, CurrentStart
  <2>5. TypeOK' /\ Layout' /\ FramesInOrder' /\ NoReadAhead'
    BY <2>w, <2>3, <2>4 DEF IInv, TypeOK, Layout, FramesInOrder, NoReadAhead, FrameEnd
  <2>6. Progress' /\ BuffersFit' /\ LostOnlyAtTheEnd'
    BY <1>1, <2>w, <2>1, <2>3, <2>4, FrameAssumption
    DEF IInv, Progress, BuffersFit, LostOnlyAtTheEnd, Over, Waiting
  <2> QED BY <2>5, <2>6 DEF IInv
<1> QED BY <1>4, <1>5

\* A read of body bytes, `b' of which are already there.
LEMMA BodyReadKeepsIInv ==
  ASSUME IInv, UNCHANGED stream, NEW b \in Int, NEW t \in Recv(data_length - b), Took(t),
         body_position' = Rlen(b, t),
         wrote' = Written(b, t, data_length + 2),
         state \in {"HEADER_RECEIVED", "RECEIVING_DATA_ONGOING"},
         b < data_length \/ (b = 0 /\ data_length = 0),
         Over \/ (b \in Nat /\ rpos = CurrentStart + HeaderLen + b),
         \/ body_position' # 0 /\ body_position' = data_length /\ BodyComplete
         \/ /\ body_position' = 0 \/ body_position' # data_length
            /\ state' \in {"RECEIVING_DATA", "RECEIVING_DATA_ONGOING"}
            /\ state' = "RECEIVING_DATA" => t = 0
            /\ state' = "RECEIVING_DATA_ONGOING" => data_length > 0
            /\ UNCHANGED <<requests, header_position, data_length, got>>
  PROVE  IInv'
<1> USE DEF IInv
<1> DEFINE length == data_length - b
<1>1. /\ UNCHANGED <<frames, avail>>
      /\ HeaderLen \in Nat \ {0}
      /\ rpos \in Nat /\ CurrentStart \in Nat /\ Current \in Nat
      /\ data_length \in Nat /\ length \in Int
      /\ Current \in DOMAIN frames /\ data_length = frames[Current].len
      /\ frames[Current] \in FrameRecord
  BY FrameAssumption, OffsetsAreNat DEF stream, TypeOK, BuffersFit
<1>2. /\ Layout'
      /\ rpos' \in Nat /\ conn' \in {"open", "closed", "reset"}
      /\ Over => Over'
      /\ t = -1 => Over'
      /\ t = 0 => Over \/ length = 0
      /\ t \in 1 .. length => rpos' = rpos + t /\ rpos < avail
      /\ Over => t \notin 1 .. length /\ t # -1
  BY <1>1, ReadKeepsLayout
<1>3. t \in (1 .. length) \cup {0, -1}
  BY <1>1, RecvResults
<1>4. ASSUME t \in 1 .. length
      PROVE  /\ b \in Nat
             /\ body_position' = b + t
             /\ rpos' = CurrentStart + HeaderLen + body_position'
             /\ body_position' \in 1 .. data_length
  <2>1. ~Over
    BY <1>2, <1>4
  <2> QED BY <1>1, <1>2, <1>4, <2>1 DEF Rlen
<1>5. ASSUME t \in {0, -1}
      PROVE  /\ Over' \/ data_length = 0
             /\ body_position' \in Int /\ rpos' = rpos
             /\ body_position' < data_length \/ (data_length = 0 /\ t = 0)
             /\ body_position' # 0 => body_position' # data_length
  BY <1>1, <1>2, <1>5, RecvResults DEF Rlen, Took
<1>w. WritesFit' /\ wrote' \in WriteRecord
  <2>1. ~Over => b \in Nat /\ b + length = data_length /\ b <= data_length
    BY <1>1
  <2>2. t \in 1 .. length \/ t = -1 => ~Over
    BY <1>2
  <2>3. data_length + 2 \in Nat /\ data_length < data_length + 2
    BY <1>1
  <2>4. t \in 1 .. length => b \in Nat /\ b + length < data_length + 2
    BY <2>1, <2>2, <2>3
  <2>5. t = -1 => b \in Nat /\ b < data_length + 2 /\ Over'
    BY <1>1, <1>2, <2>1, <2>2
  <2> HIDE DEF IInv, length
  <2> QED BY <1>1, <1>3, <2>3, <2>4, <2>5, WrittenFits
<1>6. CASE body_position' # 0 /\ body_position' = data_length /\ BodyComplete
  <2>1. t \in 1 .. length
    BY <1>3, <1>5, <1>6
  <2>2. rpos' = CurrentStart + HeaderLen + data_length
    BY <1>4, <1>6, <2>1
  <2>3. /\ got' = Append(got, [start |-> CurrentStart, len |-> data_length])
        /\ requests' \in 0 .. Requests
        /\ state' = "UNSENT" /\ header_position' = 0 /\ data_length' = 0
    <3>1. rpos' - data_length - HeaderLen = CurrentStart
      BY <1>1, <2>2
    <3> QED BY <1>6, <3>1, FrameAssumption DEF BodyComplete, TypeOK
  <2>4. [start |-> CurrentStart, len |-> data_length] = frames[Current]
    BY <1>1 DEF CurrentStart, FrameRecord
  <2>5. got' = Append(got, frames[Current]) /\ Current = Len(got) + 1 /\ Len(got) \in Nat
    BY <2>3, <2>4 DEF Current, TypeOK
  <2>6. Len(got') = Current /\ Current' = Current + 1
    BY <1>1, <2>5 DEF Current, TypeOK
  <2>7. TypeOK'
    BY <1>1, <1>2, <1>4, <1>w, <2>1, <2>3, <2>5 DEF TypeOK, Flags
  <2>8. FramesInOrder'
    <3>1. /\ got \in Seq(FrameRecord) /\ frames \in Seq(FrameRecord) /\ frames' = frames
          /\ Len(got) <= Len(frames) /\ \A i \in DOMAIN got : got[i] = frames[i]
      BY <1>1 DEF FramesInOrder, TypeOK
    <3>2. Current <= Len(frames)
      BY <1>1, <3>1
    <3>3. \A i \in DOMAIN got' : got'[i] = frames[i]
      BY <1>1, <2>5, <3>1
    <3> HIDE DEF IInv
    <3> QED BY <2>6, <3>1, <3>2, <3>3 DEF FramesInOrder
  <2>9. CurrentStart' = CurrentStart + HeaderLen + data_length
    <3>1. CurrentStart' = FrameEnd(Current)
      <4>1. EndOf(frames)' = EndOf(frames)
        BY <1>1 DEF EndOf
      <4> QED BY <1>1, <2>6, <4>1, CurrentEnd DEF CurrentStart
    <3> QED BY <1>1, <3>1 DEF FrameEnd, CurrentStart
  <2>10. Progress' /\ BuffersFit' /\ LostOnlyAtTheEnd'
    BY <1>1, <1>w, <2>2, <2>3, <2>9 DEF Progress, BuffersFit, LostOnlyAtTheEnd, Waiting
  <2>11. NoReadAhead'
    <3>1. ASSUME Current' \in DOMAIN frames
          PROVE  frames[Current'] \in FrameRecord
      BY <3>1, OffsetsAreNat
    <3> QED BY <1>1, <1>2, <2>2, <2>9, <3>1 DEF NoReadAhead, FrameRecord
  <2> QED BY <1>2, <2>7, <2>8, <2>10, <2>11
<1>7. CASE /\ body_position' = 0 \/ body_position' # data_length
           /\ state' \in {"RECEIVING_DATA", "RECEIVING_DATA_ONGOING"}
           /\ state' = "RECEIVING_DATA" => t = 0
           /\ state' = "RECEIVING_DATA_ONGOING" => data_length > 0
           /\ UNCHANGED <<requests, header_position, data_length, got>>
  <2>1. EndOf(frames)' = EndOf(frames) /\ Current' = Current /\ CurrentStart' = CurrentStart
    BY <1>1, <1>7 DEF EndOf, Current, CurrentStart
  <2>2. TypeOK'
    BY <1>1, <1>2, <1>3, <1>4, <1>5, <1>w, <1>7 DEF TypeOK, Flags
  <2>3. FramesInOrder'
    BY <1>1, <1>7 DEF FramesInOrder
  <2>4. BuffersFit'
    <3>1. CASE t \in 1 .. length
      BY <1>1, <1>4, <1>w, <1>7, <2>1, <3>1 DEF BuffersFit
    <3>2. CASE t \in {0, -1}
      BY <1>1, <1>5, <1>w, <1>7, <2>1, <3>2 DEF BuffersFit
    <3> QED BY <1>3, <3>1, <3>2
  <2>5. Progress' /\ LostOnlyAtTheEnd'
    <3>1. CASE t \in 1 .. length
      BY <1>1, <1>4, <1>7, <2>1, <3>1 DEF Progress, LostOnlyAtTheEnd, Waiting
    <3>2. CASE t \in {0, -1}
      BY <1>1, <1>5, <1>7, <2>1, <3>2 DEF Progress, LostOnlyAtTheEnd, Waiting
    <3> QED BY <1>3, <3>1, <3>2
  <2>6. NoReadAhead'
    <3>1. CASE t \in 1 .. length
      BY <1>1, <1>4, <2>1, <3>1 DEF NoReadAhead, FrameRecord
    <3>2. CASE t \in {0, -1}
      BY <1>1, <1>5, <2>1, <3>2 DEF NoReadAhead
    <3> QED BY <1>3, <3>1, <3>2
  <2> QED BY <1>2, <2>2, <2>3, <2>4, <2>5, <2>6
<1> QED BY <1>6, <1>7

LEMMA BeginBodyKeepsIInv ==
  ASSUME IInv, BeginBody
  PROVE  IInv'
<1>1. data_length \in Nat /\ CurrentStart \in Nat /\ HeaderLen \in Nat
  BY OffsetsAreNat, FrameAssumption DEF IInv, TypeOK
<1> PICK t \in Recv(data_length) : /\ body_position' = Rlen(0, t)
                                   /\ wrote' = Written(0, t, data_length + 2)
                                   /\ Took(t)
  BY DEF BeginBody
<1>2. t \in Recv(data_length - 0) /\ 0 \in Int
  BY <1>1
<1>3. t \in Int
  BY <1>1, RecvResults DEF IInv
<1>4. UNCHANGED stream /\ state = "HEADER_RECEIVED"
  BY DEF BeginBody
<1>5. rpos = CurrentStart + HeaderLen + 0
  BY <1>1, <1>4 DEF IInv, Progress
<1>6. 0 < data_length \/ (0 = 0 /\ data_length = 0)
  BY <1>1
<1>7. body_position' = 0 => t = 0
  BY <1>3 DEF Rlen
<1>8. t # 0 => data_length > 0
  BY <1>1, <1>3, RecvResults DEF IInv
<1>9. \/ body_position' # 0 /\ body_position' = data_length /\ BodyComplete
      \/ /\ body_position' = 0 \/ body_position' # data_length
         /\ state' \in {"RECEIVING_DATA", "RECEIVING_DATA_ONGOING"}
         /\ state' = "RECEIVING_DATA" => t = 0
         /\ state' = "RECEIVING_DATA_ONGOING" => data_length > 0
         /\ UNCHANGED <<requests, header_position, data_length, got>>
  <2>1. body_position' # 0 => t # 0
    BY DEF Rlen
  <2> QED BY <1>7, <1>8, <2>1 DEF BeginBody
<1> QED BY <1>1, <1>2, <1>4, <1>5, <1>6, <1>9, BodyReadKeepsIInv

LEMMA ContinueBodyKeepsIInv ==
  ASSUME IInv, ContinueBody
  PROVE  IInv'
<1> PICK t \in Recv(data_length - body_position) :
           /\ body_position' = Rlen(body_position, t)
           /\ wrote' = Written(body_position, t, data_length + 2)
           /\ Took(t)
  BY DEF ContinueBody
<1>1. UNCHANGED stream /\ state = "RECEIVING_DATA_ONGOING"
  BY DEF ContinueBody
<1>2. /\ body_position \in Int /\ data_length \in Nat /\ data_length > 0
      /\ body_position < data_length
      /\ Over \/ (body_position \in Nat /\ rpos = CurrentStart + HeaderLen + body_position)
  BY <1>1 DEF IInv, TypeOK, BuffersFit, Progress
<1>3. \/ body_position' # 0 /\ body_position' = data_length /\ BodyComplete
      \/ /\ body_position' = 0 \/ body_position' # data_length
         /\ state' \in {"RECEIVING_DATA", "RECEIVING_DATA_ONGOING"}
         /\ state' = "RECEIVING_DATA" => t = 0
         /\ state' = "RECEIVING_DATA_ONGOING" => data_length > 0
         /\ UNCHANGED <<requests, header_position, data_length, got>>
  BY <1>1, <1>2 DEF ContinueBody
<1> QED BY <1>1, <1>2, <1>3, BodyReadKeepsIInv

LEMMA SpinKeepsIInv ==
  ASSUME IInv, UNCHANGED vars
  PROVE  IInv'
BY DEF vars, stream, positions, IInv, TypeOK, Layout, Progress, FramesInOrder, BuffersFit,
       WritesFit, NoReadAhead, LostOnlyAtTheEnd, FrameEnd, EndOf, Current, CurrentStart, Over
----------------------------------------------------------------------------
(* The theorems. *)

LEMMA StepKeepsIInv ==
  ASSUME IInv, [Next]_vars
  PROVE  IInv'
<1>1. ASSUME NEW len \in Lens, SmbtadWrite(len) PROVE IInv'
  BY <1>1, WriteKeepsIInv
<1>2. ASSUME NEW how \in {"closed", "reset"}, SmbtadGone(how) PROVE IInv'
  BY <1>2, GoneKeepsIInv
<1>3. CASE SendQuery
  BY <1>3, SendQueryKeepsIInv
<1>4. CASE BeginHeader
  BY <1>4, BeginHeaderKeepsIInv
<1>5. CASE ContinueHeader
  BY <1>5, ContinueHeaderKeepsIInv
<1>6. CASE BeginBody
  BY <1>6, BeginBodyKeepsIInv
<1>7. CASE ContinueBody
  BY <1>7, ContinueBodyKeepsIInv
<1>8. CASE Spin
  BY <1>8, SpinKeepsIInv DEF Spin
<1>9. CASE UNCHANGED vars
  BY <1>9, SpinKeepsIInv
<1> QED BY <1>1, <1>2, <1>3, <1>4, <1>5, <1>6, <1>7, <1>8, <1>9 DEF Next, Smbtad, Receiver

THEOREM Invariance == Spec => []IInv
<1>1. Init => IInv
  BY InitIInv
<1>2. IInv /\ [Next]_vars => IInv'
  BY StepKeepsIInv
<1> QED BY <1>1, <1>2, PTL DEF Spec

\* Type correctness of the receive state machine: the byte counts, the
\* remembered length and the place in the stream stay in their ranges
\* whatever recv returns, its error return included.
THEOREM TypeCorrect == Spec => []TypeOK
<1>1. IInv => TypeOK
  BY DEF IInv
<1> QED BY <1>1, Invariance, PTL

\* However the bytes are cut and wherever the connection breaks, the caller
\* of connect_monitor and network_handle_data gets smbtad's frames in order.
THEOREM InOrder == Spec => []FramesInOrder
<1>1. IInv => FramesInOrder
  BY DEF IInv
<1> QED BY <1>1, Invariance, PTL

\* Nothing the receive loop writes is outside its buffers, save the one byte
\* before a buffer whose first recv meets a reset, and the body length in use
\* is the one of the frame being read.
THEOREM Fit == Spec => []BuffersFit
<1>1. IInv => BuffersFit
  BY DEF IInv
<1> QED BY <1>1, Invariance, PTL

\* No recv takes a byte of the frame after the one being read.
THEOREM Frugal == Spec => []NoReadAhead
<1>1. IInv => NoReadAhead
  BY DEF IInv
<1> QED BY <1>1, Invariance, PTL

\* The two states without a branch are entered only at the end of the stream
\* or for an empty body.
THEOREM LostAtTheEnd == Spec => []LostOnlyAtTheEnd
<1>1. IInv => LostOnlyAtTheEnd
  BY DEF IInv
<1> QED BY <1>1, Invariance, PTL
----------------------------------------------------------------------------
(* The receiver implements FrameDelivery. *)

\* A completed body is the current frame: FrameDelivery's Deliver.
LEMMA CompletionDelivers ==
  ASSUME IInv, IInv', UNCHANGED frames, Len(got') = Len(got) + 1,
         \A i \in DOMAIN got : got'[i] = got[i]
  PROVE  Delivery!Deliver
<1> USE DEF IInv
<1>1. got \in Seq(FrameRecord) /\ got' \in Seq(FrameRecord) /\ frames \in Seq(FrameRecord)
  BY DEF TypeOK
<1>2. Len(got) < Len(frames)
  BY <1>1 DEF FramesInOrder
<1>3. got'[Len(got) + 1] = frames[Len(got) + 1]
  BY <1>1 DEF FramesInOrder
<1>4. got' = Append(got, frames[Len(got) + 1])
  BY <1>1, <1>2, <1>3
<1> QED BY <1>2, <1>4 DEF Delivery!Deliver

LEMMA WriteSends ==
  ASSUME IInv, NEW len \in Lens, SmbtadWrite(len)
  PROVE  Delivery!Write
<1> DEFINE new == [start |-> avail, len |-> len]
<1>1. frames' = Append(frames, new) /\ UNCHANGED got /\ frames \in Seq(FrameRecord)
  BY DEF SmbtadWrite, IInv, TypeOK
<1>2. new \in FrameRecord
  BY FrameAssumption DEF IInv, TypeOK, FrameRecord
<1>3. frames' # <<>> /\ frames'[Len(frames')] = new
  BY <1>1, <1>2
<1> QED BY <1>1, <1>2, <1>3 DEF Delivery!Write, Delivery!Send

\* A receiver step hands over nothing, or one frame.
LEMMA ReceiverStep ==
  ASSUME IInv, Receiver
  PROVE  /\ UNCHANGED frames
         /\ \/ UNCHANGED got
            \/ Len(got') = Len(got) + 1 /\ \A i \in DOMAIN got : got'[i] = got[i]
<1>1. UNCHANGED frames
  BY DEF Receiver, SendQuery, BeginHeader, ContinueHeader, BeginBody, ContinueBody, Spin,
         vars, stream
<1>2. UNCHANGED got \/ BodyComplete
  BY DEF Receiver, SendQuery, BeginHeader, ContinueHeader, BeginBody, ContinueBody, Spin, vars
<1>3. ASSUME BodyComplete
      PROVE  Len(got') = Len(got) + 1 /\ \A i \in DOMAIN got : got'[i] = got[i]
  <2> DEFINE r == [start |-> rpos' - data_length - HeaderLen, len |-> data_length]
  <2>1. got' = Append(got, r)
    BY <1>3 DEF BodyComplete
  <2> HIDE DEF r
  <2>2. got \in Seq(FrameRecord)
    BY DEF IInv, TypeOK
  <2> QED BY <2>1, <2>2
<1> QED BY <1>1, <1>2, <1>3

\* The byte-wise state machine of connect_monitor and network_handle_data
\* implements FrameDelivery, for every header length and set of body lengths.
THEOREM Implements == Spec => DeliverySpec
<1>1. Init => Delivery!DeliveryInit
  BY DEF Init, Delivery!DeliveryInit
<1>2. IInv /\ IInv' /\ [Next]_vars => [Delivery!DeliveryNext]_<<frames, got>>
  <2> SUFFICES ASSUME IInv, IInv', [Next]_vars
               PROVE  [Delivery!DeliveryNext]_<<frames, got>>
    OBVIOUS
  <2>1. ASSUME NEW len \in Lens, SmbtadWrite(len)
        PROVE  Delivery!DeliveryNext
    BY <2>1, WriteSends DEF Delivery!DeliveryNext
  <2>2. ASSUME NEW how \in {"closed", "reset"}, SmbtadGone(how)
        PROVE  UNCHANGED <<frames, got>>
    BY <2>2 DEF SmbtadGone
  <2>3. CASE Receiver
    <3>1. CASE UNCHANGED got
      BY <2>3, <3>1, ReceiverStep
    <3>2. CASE got' # got
      BY <2>3, <3>2, ReceiverStep, CompletionDelivers DEF Delivery!DeliveryNext
    <3> QED BY <3>1, <3>2
  <2>4. CASE UNCHANGED vars
    BY <2>4 DEF vars, stream
  <2> QED BY <2>1, <2>2, <2>3, <2>4 DEF Next, Smbtad
<1> QED BY <1>1, <1>2, Invariance, PTL DEF Spec, DeliverySpec, Delivery!DeliverySpec
=============================================================================
