---------------------------- MODULE QueueContract ----------------------------
(* What a consumer group promises its handler: at least once, in order.  A message is  *)
(* settled for the first time only after all before it, and the group acknowledges no   *)
(* message that is not settled, nor takes an acknowledgement back.  How often a message *)
(* is handled again, after a restart or a lost acknowledgement, is left open.            *)
EXTENDS Naturals

VARIABLES
    length,      \* messages produced
    unusable,    \* offsets of messages nobody can handle
    offered,     \* offsets that were handled, or whose handler threw
    acknowledged \* offset below which the group is done

vars == <<length, unusable, offered, acknowledged>>

Init ==
    /\ length = 0
    /\ unusable = {}
    /\ offered = {}
    /\ acknowledged = 0

Settled(n) == n \in offered \cup unusable

Produce(lost) ==
    /\ length' = length + 1
    /\ unusable' = unusable \cup lost
    /\ UNCHANGED <<offered, acknowledged>>

Offer(n) ==
    /\ n < length
    /\ \A m \in 0..(n - 1) : Settled(m)
    /\ offered' = offered \cup {n}
    /\ UNCHANGED <<length, unusable, acknowledged>>

Acknowledge(n) ==
    /\ acknowledged <= n
    /\ \A m \in 0..(n - 1) : Settled(m)
    /\ acknowledged' = n
    /\ UNCHANGED <<length, unusable, offered>>

Next ==
    \/ \E lost \in {{}, {length}} : Produce(lost)
    \/ \E n \in 0..length : Offer(n) \/ Acknowledge(n)

Spec == Init /\ [][Next]_vars
==============================================================================
