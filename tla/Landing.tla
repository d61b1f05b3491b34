------------------------------- MODULE Landing -------------------------------
(***************************************************************************)
(* What the consumer promises of one topic, without batches, processes or  *)
(* objects: at-least-once landing.  A published message may land at any    *)
(* time and as often as it likes, what has landed stays, and the group     *)
(* acknowledges only a prefix that has landed and never takes an           *)
(* acknowledgement back.                                                   *)
(***************************************************************************)
EXTENDS Naturals

CONSTANT Partitions

VARIABLES published,    \* number of messages in each partition
          landed,       \* offsets readable in the lake, in the store they belong to
          acknowledged  \* length of the prefix that is never delivered again

landingVars == <<published, landed, acknowledged>>

Init ==
    /\ published \in [Partitions -> Nat]
    /\ landed = [p \in Partitions |-> {}]
    /\ acknowledged = [p \in Partitions |-> 0]

Publish(p) ==
    /\ published' = [published EXCEPT ![p] = @ + 1]
    /\ UNCHANGED <<landed, acknowledged>>

\* A batch lands: any published messages, some of them perhaps again.
Land(p) ==
    /\ \E batch \in SUBSET (0 .. (published[p] - 1)) :
          landed' = [landed EXCEPT ![p] = @ \cup batch]
    /\ UNCHANGED <<published, acknowledged>>

Acknowledge(p) ==
    /\ \E n \in acknowledged[p] .. published[p] :
          /\ 0 .. (n - 1) \subseteq landed[p]
          /\ acknowledged' = [acknowledged EXCEPT ![p] = n]
    /\ UNCHANGED <<published, landed>>

Next == \E p \in Partitions : Publish(p) \/ Land(p) \/ Acknowledge(p)

Spec == Init /\ [][Next]_landingVars

=============================================================================
