--------------------------- MODULE FrameDelivery ---------------------------
(***************************************************************************)
(* What the receiving side of the smbtad protocol promises to the code     *)
(* above it: the frames smbtad wrote into the connection are handed over   *)
(* whole, in the order they were written, none twice and none skipped.     *)
(* After the connection is lost the rest may never arrive.                 *)
(*                                                                         *)
(* FrameReceiver implements this module with the byte-wise state machine   *)
(* of connect_monitor and network_handle_data; MonitorGen is built on it.  *)
(***************************************************************************)
EXTENDS Naturals, Sequences

CONSTANT Frame      \* what one frame of the connection carries

VARIABLES sent,     \* every frame smbtad wrote, in order
          received  \* every frame handed to the caller, in order

DeliveryTypeOK ==
  /\ sent \in Seq(Frame)
  /\ received \in Seq(Frame)

DeliveryInit ==
  /\ sent = <<>>
  /\ received = <<>>

\* smbtad writes one more frame.
Send(f) ==
  /\ sent' = Append(sent, f)
  /\ UNCHANGED received

\* The caller gets the first frame it has not had yet.
Deliver ==
  /\ Len(received) < Len(sent)
  /\ received' = Append(received, sent[Len(received) + 1])
  /\ UNCHANGED sent

\* Some frame was written: the one now last.  (Said this way, and not with
\* \E f \in Frame, because Frame may be infinite.)
Write ==
  /\ sent' # <<>>
  /\ sent'[Len(sent')] \in Frame
  /\ Send(sent'[Len(sent')])

DeliveryNext == Deliver \/ Write

DeliverySpec == DeliveryInit /\ [][DeliveryNext]_<<sent, received>>
=============================================================================
