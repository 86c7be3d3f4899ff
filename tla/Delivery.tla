------------------------------ MODULE Delivery ------------------------------
(***************************************************************************)
(* What a reliable connection promises to those who send messages over it: *)
(* they are handled one by one, as they were sent and in that order.       *)
(***************************************************************************)
EXTENDS Integers, Sequences

VARIABLES
    sent,    \* the messages that were sent
    done     \* those that have been handled

Init == sent = <<>> /\ done = <<>>

\* Some message more.
Send ==
    /\ Len(sent') = Len(sent) + 1
    /\ SubSeq(sent', 1, Len(sent)) = sent
    /\ UNCHANGED done

Handle ==
    /\ Len(done) < Len(sent)
    /\ done' = Append(done, sent[Len(done) + 1])
    /\ UNCHANGED sent

Next == Send \/ Handle

Spec == Init /\ [][Next]_<<sent, done>>

\* ... and none of them is left lying.
FairSpec == Spec /\ WF_<<sent, done>>(Handle)
=============================================================================
