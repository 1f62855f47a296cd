---------------------------- MODULE FeedbackStore ----------------------------
(***************************************************************************)
(* What the feedback consumer promises (services/feedback_bus/consumer.py, *)
(* docs/PHASE4C_STREAMING.md): the records of the topic are stored in      *)
(* order, a record whose deduplication key is remembered is not stored     *)
(* again, and the offset moves past a record only when its key is          *)
(* remembered, and past no message that ends the consumer.  Nothing        *)
(* crashes here.                                                           *)
(***************************************************************************)
EXTENDS Naturals, Sequences

CONSTANTS
    Records,       \* feedback records
    Foreign,       \* messages the consumer rejects
    Poison,        \* messages it cannot get past
    Capacity,      \* the keys the deduplication remembers
    KeyOf(_),      \* the deduplication key of a record
    Put(_, _)      \* the files once a record is written to them

VARIABLES
    direct,        \* does the service write the files itself
    topic,         \* the messages the broker has accepted
    committed,     \* the offset of the consumer group
    kept,          \* the keys remembered, oldest first
    files          \* the records on disk

vars == <<direct, topic, committed, kept, files>>

Recent(keys) ==
    SubSeq(keys, IF Len(keys) > Capacity THEN Len(keys) - Capacity + 1 ELSE 1, Len(keys))

Known(m) == \E i \in 1 .. Len(kept) : kept[i] = KeyOf(m)

Init ==
    /\ direct \in BOOLEAN
    /\ topic = <<>> /\ committed = 0 /\ kept = <<>> /\ files = {}

WriteDirect(r) ==
    /\ direct
    /\ files' = Put(files, r)
    /\ UNCHANGED <<direct, topic, committed, kept>>

Append1(m) ==
    /\ topic' = Append(topic, m)
    /\ UNCHANGED <<direct, committed, kept, files>>

Store(m) ==
    /\ ~Known(m)
    /\ files' = Put(files, m)
    /\ UNCHANGED <<direct, topic, committed, kept>>

Remember(m) ==
    /\ m \in files /\ ~Known(m)
    /\ kept' = Recent(Append(kept, KeyOf(m)))
    /\ UNCHANGED <<direct, topic, committed, files>>

Advance(m) ==
    /\ m \in Foreign \/ Known(m)
    /\ committed' = committed + 1
    /\ UNCHANGED <<direct, topic, kept, files>>

Consume ==
    /\ committed < Len(topic)
    /\ LET m == topic[committed + 1] IN
          \/ m \notin Poison /\ Advance(m)
          \/ m \in Records /\ (Store(m) \/ Remember(m))

Next ==
    \/ \E r \in Records : WriteDirect(r)
    \/ \E m \in Records \cup Foreign \cup Poison : Append1(m)
    \/ Consume

Spec == Init /\ [][Next]_vars

=============================================================================
