---------------------------- MODULE FrameChannel -----------------------------
(***************************************************************************)
(* What one direction of a connection that carries tiny_frame frames       *)
(* promises to its two ends.                                               *)
(*                                                                         *)
(* As long as no byte is changed on the way, the reader gets for each      *)
(* frame, in the order of writing, the frame itself or an error.  Once     *)
(* bytes have been changed, plain frames are worth nothing, and an         *)
(* encrypted frame is still one that was written, or it is not delivered.  *)
(***************************************************************************)
EXTENDS Naturals, Sequences

CONSTANTS
  Frames,   \* what a reader may be given: records with a field `encrypted'
  Failed    \* the result of a read that is an error, and no frame

VARIABLES
  sent,    \* the frames written, the one that was cut short included
  got,     \* the results of the reads
  intact   \* every byte has arrived as it was written, if it has arrived

vars == <<sent, got, intact>>

Init == /\ sent = <<>>
        /\ got = <<>>
        /\ intact = TRUE

Send(f) == /\ f \in Frames
           /\ sent' = Append(sent, f)
           /\ UNCHANGED <<got, intact>>

\* The next frame arrives as it was written.
Deliver == /\ Len(got) < Len(sent)
           /\ got' = Append(got, sent[Len(got) + 1])
           /\ UNCHANGED <<sent, intact>>

\* A read fails: one read for each frame, while the bytes are intact.
Fail == /\ intact => Len(got) < Len(sent)
        /\ got' = Append(got, Failed)
        /\ UNCHANGED <<sent, intact>>

Damage == /\ intact' = FALSE
          /\ UNCHANGED <<sent, got>>

\* A reader of damaged bytes is given some frame.
DeliverDamaged(f) == /\ ~intact
                     /\ f \in Frames
                     /\ f.encrypted => \E i \in 1..Len(sent) : f = sent[i]
                     /\ got' = Append(got, f)
                     /\ UNCHANGED <<sent, intact>>

Next == \/ \E f \in Frames : Send(f) \/ DeliverDamaged(f)
        \/ Deliver
        \/ Fail
        \/ Damage

Spec == Init /\ [][Next]_vars

=============================================================================
