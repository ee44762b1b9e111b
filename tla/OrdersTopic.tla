---------------------------- MODULE OrdersTopic ----------------------------
(***************************************************************************)
(* The Kafka topic of order changes, as the Path B Flink job sees it, and  *)
(* what a range of it means for the two Iceberg tables.                    *)
(*                                                                         *)
(* A record is the key it was routed by and a payload.  A payload is the   *)
(* event id of the row version carried by a Debezium create, read or       *)
(* update, NoRow for a delete, Malformed for bytes the deserializer        *)
(* quarantines, Torn for an update of which only the before image can be   *)
(* read, or Tombstone for a record without a value.                        *)
(*                                                                         *)
(* What the deserializer collects for one record leaves it in one call and *)
(* shares a fate: the two changelog rows of an update are one slot here,   *)
(* and a torn update is both a changelog row (its before image had been    *)
(* collected when the after image failed) and a dead letter.               *)
(*                                                                         *)
(* A payload stands for what decoding it gives whenever it is tried.  The  *)
(* deserializer catches every RuntimeException, one of the schema registry *)
(* too, so a registry that cannot be asked turns a good record into a dead *)
(* letter; that is left out, and with it a decoding that differs between   *)
(* two polls of one record.                                                *)
(***************************************************************************)
EXTENDS Naturals, Sequences

CONSTANTS
  Key,          \* order ids
  Partition,    \* partitions of the topic
  PartitionOf,  \* the record key decides the partition
  Event,        \* event ids: one names one version of one row
  NoRow,        \* the row is absent
  Malformed,    \* a value that is not a Debezium envelope
  Torn,         \* an update whose after image cannot be read
  Tombstone,    \* a record without a value
  Untouched,    \* a batch says nothing of this key
  Produced,     \* bound: the records the producers of an instance write
  MaxRecords    \* bound: records a partition may hold

ASSUME PartitionAssumption == PartitionOf \in [Key -> Partition]
ASSUME MaxRecordsAssumption == MaxRecords \in Nat
ASSUME MarkersAssumption ==
  /\ {NoRow, Malformed, Torn, Tombstone, Untouched} \cap Event = {}
  /\ NoRow \notin {Malformed, Torn, Tombstone, Untouched}
  /\ Malformed \notin {Torn, Tombstone, Untouched}
  /\ Torn \notin {Tombstone, Untouched}
  /\ Tombstone # Untouched

Row == Event \cup {NoRow}
Payload == Row \cup {Malformed, Torn, Tombstone}
Record == [key : Key, payload : Payload] \cap Produced
Offset == 1 .. MaxRecords
Position == [Partition -> 0 .. MaxRecords]
KeyPosition == [Key -> 0 .. MaxRecords]
Slot == Partition \X Offset
Table == [Key -> Row]
Batch == [Key -> Row \cup {Untouched}]

Start == [p \in Partition |-> 0]
KeyStart == [k \in Key |-> 0]
EmptyTable == [k \in Key |-> NoRow]
EmptyBatch == [k \in Key |-> Untouched]

\* What a record gives the changelog, the current table and the dead letters.
IsLogged(record) == record.payload \in Row \cup {Torn}
IsDecoded(record) == record.payload \in Row
IsQuarantined(record) == record.payload \in {Malformed, Torn}

Ends(topic) == [p \in Partition |-> Len(topic[p])]

Within(low, high) == \A p \in Partition : low[p] <= high[p]
KeysWithin(low, high) == \A k \in Key : low[k] <= high[k]

\* A position of the topic, key by key.
ForKeys(position) == [k \in Key |-> position[PartitionOf[k]]]

\* Slots of changelog records after position low and up to position high.
Slice(topic, low, high) ==
  {s \in Slot : /\ low[s[1]] < s[2]
                /\ s[2] <= high[s[1]]
                /\ IsLogged(topic[s[1]][s[2]])}

\* Slots of quarantined records up to position high.
QuarantinedUpTo(topic, high) ==
  {s \in Slot : s[2] <= high[s[1]] /\ IsQuarantined(topic[s[1]][s[2]])}

\* The decoded records of one key in a range of its partition.
OffsetsOf(topic, k, low, high) ==
  {o \in Offset : /\ low < o /\ o <= high
                  /\ topic[PartitionOf[k]][o].key = k
                  /\ IsDecoded(topic[PartitionOf[k]][o])}

\* entry is what the offsets of key k after low and up to high say of it:
\* nothing, or its last record.
Says(topic, k, low, high, entry) ==
  LET p == PartitionOf[k]
      offsets == OffsetsOf(topic, k, low, high)
  IN  \/ entry = Untouched /\ offsets = {}
      \/ \E o \in offsets : /\ entry = topic[p][o].payload
                            /\ \A later \in offsets : later <= o

\* A batch written over a table, or over an earlier batch.
Overlay(base, batch) ==
  [k \in Key |-> IF batch[k] = Untouched THEN base[k] ELSE batch[k]]
=============================================================================
