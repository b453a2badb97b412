------------------------------ MODULE LogQueue ------------------------------
(***************************************************************************)
(* What the way of the transaction logs promises: logs are sent once, and  *)
(* leave in the order in which they were sent, at most FlushSize at a      *)
(* time.  Those that leave together are recorded together or are lost      *)
(* together; what has left does not come back.  RequestPipeline implements *)
(* this.                                                                   *)
(***************************************************************************)
EXTENDS Integers, Sequences, SequencesExt

CONSTANT FlushSize

VARIABLES
    sent,       \* the logs that were sent, in order
    gone,       \* how many of them have left
    recorded    \* the logs that were recorded, in order

vars == <<sent, gone, recorded>>

Init == sent = <<>> /\ gone = 0 /\ recorded = <<>>

\* A log that was not sent before.
Send ==
    /\ Len(sent') = Len(sent) + 1
    /\ sent' = Append(sent, Last(sent'))
    /\ Last(sent') \notin ToSet(sent)
    /\ UNCHANGED <<gone, recorded>>

Leave(n) ==
    /\ gone + n <= Len(sent)
    /\ gone' = gone + n
    /\ UNCHANGED sent

Record(n) == Leave(n) /\ recorded' = recorded \o SubSeq(sent, gone + 1, gone + n)

Lose(n) == Leave(n) /\ UNCHANGED recorded

Next == Send \/ \E n \in 1..FlushSize : Record(n) \/ Lose(n)

Spec == Init /\ [][Next]_vars
=============================================================================
