-------------------------- MODULE MCKafkaToIceberg --------------------------
(* Small instances of KafkaToIceberg for TLC. *)
EXTENDS KafkaToIceberg, TLC

CONSTANTS k1, k2, p1, e1, e2

\* Two keys in one partition: their records interleave.
OnePartition == k1 :> p1 @@ k2 :> p1

\* What the producers of an instance write: everything, or rows that come and go
\* beside rows that come and records that cannot be read.
EveryKind == [key : Key, payload : Payload]
FourKinds == [key : {k1}, payload : {e1, NoRow}] \cup [key : {k2}, payload : {e1, Malformed}]

EventSymmetry == Permutations(Event)
=============================================================================
