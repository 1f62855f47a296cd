--------------------------- MODULE FeedbackPipeline ---------------------------
(***************************************************************************)
(* The way of a feedback record from the execution of a query to a row of  *)
(* the training set: the publisher of the ML service (file or Kafka), the  *)
(* feedback consumer with its deduplication log (services/feedback_bus),   *)
(* the files of data/feedback (exec_service/capture.py) and the merge into *)
(* features.csv with its watermark (automl_service/merge.py, watermark.py),*)
(* which the retraining worker and an operator's scripts may run at once;  *)
(* and what the worker's volume rule then counts (worker.py, state.py).    *)
(*                                                                         *)
(* The records are those of one statement and variant, and the topic has   *)
(* one partition.  A process may crash between any two steps, and while it *)
(* rewrites the training set, which is not done through a temporary file:  *)
(* the file then ends anywhere, inside a row too.                          *)
(***************************************************************************)
EXTENDS Naturals, FiniteSets, Sequences, SequencesExt

CONSTANTS
    Records,        \* feedback records, one for each execution
    SameRequest,    \* those of requests that came with the same x-request-id
    SameName,       \* those of one second whose request ids begin alike
    Foreign,        \* messages that are not JSON or of another schema major
    Poison,         \* those that are JSON but not an object
    Capacity,       \* the keys the deduplication set holds
    Mergers,        \* the processes that run merge_feedback()
    Worker,         \* the one that does so again and again
    Base,           \* a plan of the offline training set
    MaxRecords,     \* bound on executions and on messages of others
    MaxCrashes,     \* bound on crashes
    MaxScripts      \* bound on the merges the worker does not run

ASSUME FeedbackAssumption ==
    /\ IsFiniteSet(Records)
    /\ SameRequest \subseteq Records /\ SameName \subseteq Records
    /\ Foreign \cap Records = {} /\ Poison \cap (Records \cup Foreign) = {}
    /\ Base \notin Records
    /\ Capacity \in Nat \ {0} /\ MaxRecords \in Nat /\ MaxCrashes \in Nat
    /\ MaxScripts \in Nat
    /\ Worker \in Mergers

VARIABLES
    direct,         \* FEEDBACK_BUS is "file", or the Kafka producer failed
    sent,           \* the records and the messages of others so far
    buffer,         \* the producer's queue
    topic,          \* the messages the broker has accepted
    committed,      \* the offset of the consumer group
    consumer,       \* where the consumer is
    memory,         \* the deduplication set, in the order of its deque
    seen,           \* _seen.txt
    files,          \* the records in data/feedback
    csv,            \* the rows of features.csv
    headed,         \* has the file a header, or a part of it
    mark,           \* features_rows of merge_watermark.json
    atRetrain,      \* features_rows_at_retrain of retrain_state.json
    merger,         \* what each merge has read, and where it is
    overlapped,     \* have two merges run at once
    torn,           \* the writes of features.csv that a crash has cut short
    scripts,        \* the merges the worker has not run
    crashes

storeVars == <<direct, topic, committed, seen, files>>
busVars   == <<direct, sent, buffer, topic>>
sinkVars  == <<committed, consumer, memory, seen>>
dataVars  == <<csv, headed>>
setVars   == <<dataVars, mark, atRetrain, merger, overlapped, torn, scripts>>
vars == <<busVars, sinkVars, files, setVars, crashes>>

(* The deduplication key has the request id, which a client may choose and *)
(* repeat; the file name has its first eight characters and the second.    *)
KeyOf(r)  == IF r \in SameRequest THEN SameRequest ELSE {r}
NameOf(r) == IF r \in SameName THEN SameName ELSE {r}

\* The files once r is written over the file of its name.
Put(stored, r) == {f \in stored : NameOf(f) # NameOf(r)} \cup {r}

(* A row of the training set is known by the exact time of its execution,  *)
(* its sixth column.  A row that is cut short before that has lost its key *)
(* ("early"); one cut short behind it ("late") keeps its place, its other  *)
(* columns empty for ever.                                                 *)
Whole(r) == [of |-> r, cut |-> "no"]

Short(row, cut) == [row EXCEPT !.cut = IF row.cut = "early" THEN "early" ELSE cut]

\* Those whose key is in the rows.
Keyed(rows) == {row.of : row \in {x \in Range(rows) : x.cut # "early"}}

NoMerge == [pc |-> "idle", found |-> {}, rows |-> <<>>, count |-> 0]

Init ==
    /\ direct \in BOOLEAN
    /\ sent = {} /\ buffer = <<>> /\ topic = <<>>
    /\ committed = 0 /\ consumer = "down" /\ memory = <<>> /\ seen = <<>>
    /\ files = {}
    /\ csv = <<Whole(Base)>> /\ headed = TRUE
    /\ mark = 0 /\ atRetrain = 0
    /\ merger = [m \in Mergers |-> NoMerge]
    /\ overlapped = FALSE /\ torn = 0
    /\ scripts = 0 /\ crashes = 0

----------------------------------------------------------------------------
(* The publisher.                                                          *)

Sends(r) ==
    /\ r \notin sent
    /\ Cardinality(sent) < MaxRecords
    /\ sent' = sent \cup {r}

\* FilePublisher: the record is written before the request is answered.
PublishFile(r) ==
    /\ direct
    /\ Sends(r)
    /\ files' = Put(files, r)
    /\ UNCHANGED <<direct, buffer, topic, sinkVars, setVars, crashes>>

\* KafkaPublisher: the record is queued in the producer, and published for the caller.
PublishKafka(r) ==
    /\ ~direct
    /\ Sends(r)
    /\ buffer' = Append(buffer, r)
    /\ UNCHANGED <<direct, topic, files, sinkVars, setVars, crashes>>

\* produce() fails on a full queue, and the request goes on without a record.
ProduceFails(r) ==
    /\ ~direct
    /\ Sends(r)
    /\ UNCHANGED <<direct, buffer, topic, files, sinkVars, setVars, crashes>>

Delivers ==
    /\ buffer # <<>>
    /\ topic' = Append(topic, Head(buffer))
    /\ buffer' = Tail(buffer)
    /\ UNCHANGED <<direct, sent, files, sinkVars, setVars, crashes>>

\* The broker does not answer in time and the producer gives the record up.
DeliveryFails ==
    /\ buffer # <<>>
    /\ buffer' = Tail(buffer)
    /\ UNCHANGED <<direct, sent, topic, files, sinkVars, setVars, crashes>>

\* Another producer's message, or one of an older deployment.
Intrudes(m) ==
    /\ ~direct
    /\ Sends(m)
    /\ topic' = Append(topic, m)
    /\ UNCHANGED <<direct, buffer, files, sinkVars, setVars, crashes>>

\* The replica goes down: flush(5) of its shutdown has delivered what it could.
ServiceStops ==
    /\ crashes < MaxCrashes
    /\ crashes' = crashes + 1
    /\ buffer # <<>> /\ buffer' = <<>>
    /\ UNCHANGED <<direct, sent, topic, files, sinkVars, setVars>>

----------------------------------------------------------------------------
(* The consumer.                                                           *)

Message == topic[committed + 1]

\* The last keys of the log, as many as the set holds.
Recent(keys) ==
    SubSeq(keys, IF Len(keys) > Capacity THEN Len(keys) - Capacity + 1 ELSE 1, Len(keys))

\* A record of this schema whose key is not remembered.
Fresh == Message \in Records /\ KeyOf(Message) \notin Range(memory)

Consumes(from, to) ==
    /\ consumer = from
    /\ consumer' = to
    /\ UNCHANGED <<busVars, setVars, crashes>>

\* Seeded fault: the deduplication log is not read at the start.
StartsForgetful ==
    /\ Consumes("down", "poll")
    /\ memory' = <<>>
    /\ UNCHANGED <<committed, seen, files>>

Starts ==
    /\ Consumes("down", "poll")
    /\ memory' = Recent(seen)
    /\ UNCHANGED <<committed, seen, files>>

\* Seeded fault: a message that cannot be decoded ends the consumer.
RejectsRaising ==
    /\ committed < Len(topic)
    /\ ~Fresh /\ Message \notin Poison
    /\ Consumes("poll", "down")
    /\ memory' = <<>>
    /\ UNCHANGED <<committed, seen, files>>

\* poll() returns the message after the committed offset; one that cannot be decoded,
\* has another schema major or is remembered goes straight to the commit.
Rejects ==
    /\ committed < Len(topic)
    /\ ~Fresh /\ Message \notin Poison
    /\ Consumes("poll", "commit")
    /\ UNCHANGED <<committed, memory, seen, files>>

\* What is JSON but not an object has no get(): the exception is not the decoder's, nothing
\* is committed, and the consumer ends here each time it is started.
Raises ==
    /\ committed < Len(topic)
    /\ Message \in Poison
    /\ Consumes("poll", "down")
    /\ memory' = <<>>
    /\ UNCHANGED <<committed, seen, files>>

Stores ==
    /\ committed < Len(topic)
    /\ Fresh
    /\ Consumes("poll", "remember")
    /\ files' = Put(files, Message)
    /\ UNCHANGED <<committed, memory, seen>>

Remembers ==
    /\ Consumes("remember", "commit")
    /\ memory' = Recent(Append(memory, KeyOf(Message)))
    /\ seen' = Append(seen, KeyOf(Message))
    /\ UNCHANGED <<committed, files>>

Commits ==
    /\ Consumes("commit", "poll")
    /\ committed' = committed + 1
    /\ UNCHANGED <<memory, seen, files>>

\* A commit that fails, or any other exception, ends the process as a crash does.
ConsumerCrashes ==
    /\ crashes < MaxCrashes
    /\ consumer # "down"
    /\ consumer' = "down"
    /\ memory' = <<>>
    /\ crashes' = crashes + 1
    /\ UNCHANGED <<busVars, committed, seen, files, setVars>>

ConsumerStep == Starts \/ Rejects \/ Raises \/ Stores \/ Remembers \/ Commits

----------------------------------------------------------------------------
(* merge_feedback(apply=True), in the worker's retrain or in a script.     *)

Merges(m, from, to) ==
    /\ merger[m].pc = from
    /\ merger' = [merger EXCEPT ![m] = to]
    /\ UNCHANGED <<busVars, sinkVars, files, crashes>>

Writing(m) == merger[m].pc = "write"
Merging(m) == merger[m].pc \in {"read", "open", "write", "bump"}

\* The worker merges in a cycle its trigger has started, a script when it is run.
Scan(m) ==
    /\ Merges(m, "idle", [NoMerge EXCEPT !.pc = "read", !.found = files])
    /\ overlapped' = (overlapped \/ \E o \in Mergers \ {m} : Merging(o))
    /\ IF m = Worker THEN UNCHANGED scripts ELSE scripts < MaxScripts /\ scripts' = scripts + 1
    /\ UNCHANGED <<dataVars, mark, atRetrain, torn>>

\* Seeded fault: the merge does not drop the rows it has merged before.
NewRowsAll(rows, found) == SetToSeq({Whole(r) : r \in found})

\* The records whose key no row of the training set has yet.
NewRows(rows, found) == SetToSeq({Whole(r) : r \in found \ Keyed(rows)})

\* After its merge the worker goes on to the validation gate and the trainer.
Merged(m) == IF m = Worker THEN [NoMerge EXCEPT !.pc = "train"] ELSE NoMerge

Rewrites(m, rows) == [merger[m] EXCEPT !.pc = "open", !.found = {}, !.rows = rows]

\* What the death of m leaves of the file it is writing, if that is not the end of a row.
Pieces(m) ==
    {Append(csv, Short(merger[m].rows[Len(csv) + 1], cut)) :
        cut \in IF Writing(m) /\ Len(csv) < Len(merger[m].rows) THEN {"early", "late"} ELSE {}}

\* Seeded fault: the watermark is bumped before the rows are written.
ReadSetMarked(m) ==
    /\ headed
    /\ LET new == NewRows(csv, merger[m].found) IN
          /\ Merges(m, "read", IF new = <<>> THEN Merged(m) ELSE Rewrites(m, csv \o new))
          /\ mark' = IF new = <<>> THEN mark ELSE Len(csv) + Len(new)
    /\ UNCHANGED <<dataVars, atRetrain, overlapped, torn, scripts>>

\* A header without rows reads as an empty base, to which every record is new.  A merge
\* that overlaps a writer finds whole rows; one that follows a crash finds the pieces.
ReadSet(m) ==
    /\ headed
    /\ LET new == NewRows(csv, merger[m].found) IN
          Merges(m, "read", IF new = <<>> THEN Merged(m) ELSE Rewrites(m, csv \o new))
    /\ UNCHANGED <<dataVars, mark, atRetrain, overlapped, torn, scripts>>

\* read_csv() raises on an empty file.
ReadFails(m) ==
    /\ ~headed
    /\ Merges(m, "read", NoMerge)
    /\ UNCHANGED <<dataVars, mark, atRetrain, overlapped, torn, scripts>>

\* to_csv() opens the file, which truncates it, and writes buffer by buffer: nothing,
\* the header, or some of the rows.
OpenSet(m) ==
    /\ Merges(m, "open", [merger[m] EXCEPT !.pc = "write"])
    /\ \E n \in 0 .. Len(merger[m].rows) - 1 :
          csv' = SubSeq(merger[m].rows, 1, n) /\ headed' \in {TRUE, n > 0}
    /\ UNCHANGED <<mark, atRetrain, overlapped, torn, scripts>>

\* The writer has its own offset: what another one wrote beyond its end stays, from the
\* middle of a row perhaps.
WriteSet(m) ==
    LET rows   == merger[m].rows
        beyond == SubSeq(csv, Len(rows) + 1, Len(csv))
    IN
    /\ Merges(m, "write", [merger[m] EXCEPT !.pc = "bump"])
    /\ \/ csv' = rows \o beyond
       \/ beyond # <<>> /\ csv' = rows \o <<Short(beyond[1], "early")>> \o Tail(beyond)
    /\ headed' = TRUE
    /\ UNCHANGED <<mark, atRetrain, overlapped, torn, scripts>>

Bump(m) ==
    /\ Merges(m, "bump", Merged(m))
    /\ mark' = Len(merger[m].rows)
    /\ UNCHANGED <<dataVars, atRetrain, overlapped, torn, scripts>>

MergerCrashes(m) ==
    /\ crashes < MaxCrashes
    /\ merger[m].pc # "idle"
    /\ merger' = [merger EXCEPT ![m] = NoMerge]
    /\ csv' \in {csv} \cup Pieces(m)
    /\ headed' = (headed \/ csv' # csv)
    /\ torn' = torn + (IF Writing(m) THEN 1 ELSE 0)
    /\ crashes' = crashes + 1
    /\ UNCHANGED <<busVars, sinkVars, files, mark, atRetrain, overlapped, scripts>>

----------------------------------------------------------------------------
(* The rest of the worker's cycle, as far as the volume rule sees it.      *)

\* Seeded fault: the state is marked although the retrain has failed.
TrainFailsMarked ==
    /\ Merges(Worker, "train", NoMerge)
    /\ atRetrain' = mark
    /\ UNCHANGED <<dataVars, mark, overlapped, torn, scripts>>

\* The gate refuses the training set, or the trainer fails: nothing is saved.
TrainFails ==
    /\ Merges(Worker, "train", NoMerge)
    /\ UNCHANGED <<dataVars, mark, atRetrain, overlapped, torn, scripts>>

\* The outcome of a retrain names the rows of the watermark it finds at its end.
Trained ==
    /\ Merges(Worker, "train", [NoMerge EXCEPT !.pc = "save", !.count = mark])
    /\ UNCHANGED <<dataVars, mark, atRetrain, overlapped, torn, scripts>>

SaveState ==
    /\ Merges(Worker, "save", NoMerge)
    /\ atRetrain' = merger[Worker].count
    /\ UNCHANGED <<dataVars, mark, overlapped, torn, scripts>>

\* new_rows of the next poll, which the volume rule compares with its threshold.
UnseenRows == IF mark > atRetrain THEN mark - atRetrain ELSE 0

MergeStep(m) ==
    Scan(m) \/ ReadSet(m) \/ ReadFails(m) \/ OpenSet(m) \/ WriteSet(m) \/ Bump(m)

RetrainStep == TrainFails \/ Trained \/ SaveState

----------------------------------------------------------------------------
Next ==
    \/ \E r \in Records : PublishFile(r) \/ PublishKafka(r) \/ ProduceFails(r)
    \/ Delivers \/ DeliveryFails \/ ServiceStops
    \/ \E m \in Foreign \cup Poison : Intrudes(m)
    \/ ConsumerStep \/ ConsumerCrashes
    \/ \E m \in Mergers : MergeStep(m) \/ MergerCrashes(m)
    \/ RetrainStep

Spec == Init /\ [][Next]_vars

(* The consumer is restarted and polls for ever; the worker retrains again *)
(* and again, and a retrain begins with the merge.  No other merge need    *)
(* ever start, but one that has started ends.                              *)
Fairness ==
    /\ WF_vars(ConsumerStep)
    /\ WF_vars(MergeStep(Worker) \/ RetrainStep)
    /\ \A m \in Mergers \ {Worker} : WF_vars(merger[m].pc # "idle" /\ MergeStep(m))

LiveSpec == Spec /\ Fairness

----------------------------------------------------------------------------
(* Properties                                                              *)

\* Until two merges have overlapped, no execution has two rows with its key in the
\* training set, whatever else crashes or is merged again, and there are no more rows
\* cut short than crashed writes.  A row that a crash has cut short before its key is
\* merged a second time and stays: the idempotency of merge.py:23-24 is one of keys.
MergedOnce ==
    ~overlapped =>
        /\ \A i, j \in DOMAIN csv :
              csv[i].of = csv[j].of /\ csv[i].cut # "early" /\ csv[j].cut # "early" => i = j
        /\ Cardinality({i \in DOMAIN csv : csv[i].cut # "no"}) <= torn

\* While merges run one at a time and none dies in its write, the volume trigger never
\* reads of rows that the training set does not have: a crash between the write and the
\* bookmark leaves the bookmark behind, never ahead.
WatermarkNeverAhead ==
    ~overlapped /\ torn = 0 => mark <= Len(csv) \/ \E m \in Mergers : Writing(m)

\* What the volume rule counts is counted until a retrain that has trained is saved:
\* a retrain that fails or dies, after its merge too, leaves its rows to the next poll,
\* and no merge lowers the bookmark.  It is less than triggers.py:9 and
\* PHASE5D_TRIGGERS.md:35-36 say: a record that waits to be merged is not counted, and
\* the worker merges only in a retrain that another rule has started.
VolumeKeepsCount ==
    [][~overlapped' /\ torn' = 0 /\ UnseenRows' < UnseenRows => merger[Worker].pc = "save"]_vars

(* The consumer with its crashes and redeliveries stores what a consumer   *)
(* that never crashes would store, in the same order, and commits no       *)
(* offset earlier.                                                         *)
Store == INSTANCE FeedbackStore WITH kept <- Recent(seen)

CrashFree == Store!Spec

\* The row that stands for r: of r's request, or of an execution that has overwritten
\* the file of one of r's request, its name being the same.
StandsFor(s, r) ==
    \E q \in Records : KeyOf(q) = KeyOf(r) /\ NameOf(q) = NameOf(s)

\* What the topic has before the first message the consumer cannot get past.
Reached ==
    {topic[i] : i \in {j \in DOMAIN topic : \A k \in 1 .. j : topic[k] \notin Poison}}

\* Again and again the training set has a row with the key of every record that has
\* reached the topic, whoever crashes and however merges overlap, unless the consumer
\* cannot get to it or a crash has left features.csv without its header, which no later
\* merge can read.
EveryDeliveredIsMerged ==
    []<>(\/ \A r \in Records \cap Reached : \E s \in Keyed(csv) \ {Base} : StandsFor(s, r)
         \/ torn > 0 /\ ~headed)

=============================================================================
