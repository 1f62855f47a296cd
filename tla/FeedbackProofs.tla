--------------------------- MODULE FeedbackProofs ---------------------------
(***************************************************************************)
(* Theorems about FeedbackPipeline for any number of records, foreign      *)
(* messages, merging processes, crashes and scripts: what the training set *)
(* holds, what the watermark says of it, what the volume rule counts, and  *)
(* that the consumer implements FeedbackStore.                             *)
(***************************************************************************)
EXTENDS FeedbackPipeline, FiniteSetTheorems, SequenceTheorems, TLAPS

----------------------------------------------------------------------------
(* Sequences without repetition                                            *)

\* SetToSeq() lists a finite set, each element once.
LEMMA SetToSeqLists ==
    ASSUME NEW S, IsFiniteSet(S)
    PROVE  /\ SetToSeq(S) \in Seq(S)
           /\ Len(SetToSeq(S)) = Cardinality(S)
           /\ IsInjective(SetToSeq(S))
<1>1. Cardinality(S) \in Nat /\ ExistsBijection(1 .. Cardinality(S), S)
  BY FS_CardinalityType
<1>2. \E f \in [1 .. Cardinality(S) -> S] : IsInjective(f)
  BY <1>1 DEF ExistsBijection, Bijection, Injection
<1>3. SetToSeq(S) \in [1 .. Cardinality(S) -> S] /\ IsInjective(SetToSeq(S))
  BY <1>2 DEF SetToSeq
<1>4. QED
  BY <1>1, <1>3, SeqDef, LenProperties

----------------------------------------------------------------------------
(* Rows                                                                    *)

Row == [of : Records \cup {Base}, cut : {"no", "early", "late"}]

\* No two rows have the key of the same execution.
Distinct(s) ==
    \A i, j \in DOMAIN s : s[i].of = s[j].of /\ s[i].cut # "early" /\ s[j].cut # "early" => i = j

\* The rows that a crash has cut short.
Cuts(s) == {i \in DOMAIN s : s[i].cut # "no"}

Prefix(s, u) == Len(s) <= Len(u) /\ \A i \in DOMAIN s : s[i] = u[i]

LEMMA RowTypes ==
    /\ \A r \in Records \cup {Base} : Whole(r) \in Row /\ Whole(r).of = r /\ Whole(r).cut = "no"
    /\ \A row \in Row, cut \in {"early", "late"} :
          Short(row, cut) \in Row /\ Short(row, cut).of = row.of
          /\ (row.cut = "early" => Short(row, cut).cut = "early")
BY DEF Row, Whole, Short

LEMMA CutsFinite ==
    ASSUME NEW s \in Seq(Row)
    PROVE  IsFiniteSet(Cuts(s)) /\ Cardinality(Cuts(s)) \in Nat
<1>1. IsFiniteSet(1 .. Len(s)) /\ Cuts(s) \subseteq 1 .. Len(s)
  <2>1. Len(s) \in Nat /\ DOMAIN s = 1 .. Len(s)
    BY LenProperties
  <2>2. QED
    BY <2>1, FS_Interval DEF Cuts
<1>2. QED
  BY <1>1, FS_Subset, FS_CardinalityType

\* Appending whole rows of executions that have no key in s repeats none, and cuts none.
LEMMA ConcatDistinct ==
    ASSUME NEW s \in Seq(Row), NEW u \in Seq(Row),
           Distinct(s), Distinct(u), \A i \in 1 .. Len(u) : u[i].of \notin Keyed(s) /\ u[i].cut = "no"
    PROVE  Distinct(s \o u) /\ Cuts(s \o u) = Cuts(s)
<1>1. /\ DOMAIN s = 1 .. Len(s) /\ DOMAIN u = 1 .. Len(u)
      /\ Len(s) \in Nat /\ Len(u) \in Nat
  BY LenProperties
<1>2. /\ s \o u \in Seq(Row) /\ DOMAIN (s \o u) = 1 .. Len(s) + Len(u)
      /\ \A i \in 1 .. Len(s) + Len(u) :
            (s \o u)[i] = IF i <= Len(s) THEN s[i] ELSE u[i - Len(s)]
  BY ConcatProperties, LenProperties
<1>3. Cuts(s \o u) = Cuts(s)
  <2>1. \A i \in 1 .. Len(s) + Len(u) : i > Len(s) => i - Len(s) \in 1 .. Len(u)
    BY <1>1
  <2>2. \A i \in 1 .. Len(s) + Len(u) : (s \o u)[i].cut # "no" <=> i <= Len(s) /\ s[i].cut # "no"
    BY <1>1, <1>2, <2>1
  <2>3. QED
    BY <1>1, <1>2, <2>2 DEF Cuts
<1>4. SUFFICES ASSUME NEW a \in 1 .. Len(s) + Len(u), NEW b \in 1 .. Len(s) + Len(u),
                      (s \o u)[a].of = (s \o u)[b].of,
                      (s \o u)[a].cut # "early", (s \o u)[b].cut # "early"
               PROVE  a = b
  BY <1>2, <1>3 DEF Distinct
<1>5. \A i \in 1 .. Len(s) : s[i].cut # "early" => s[i].of \in Keyed(s)
  BY <1>1 DEF Keyed, Range
<1>6. CASE a <= Len(s) /\ b <= Len(s)
  BY <1>1, <1>2, <1>4, <1>6 DEF Distinct
<1>7. CASE a > Len(s) /\ b > Len(s)
  <2>1. a - Len(s) \in 1 .. Len(u) /\ b - Len(s) \in 1 .. Len(u)
    BY <1>1, <1>7
  <2>2. /\ u[a - Len(s)].of = u[b - Len(s)].of
        /\ u[a - Len(s)].cut # "early" /\ u[b - Len(s)].cut # "early"
    BY <1>1, <1>2, <1>4, <1>7
  <2>3. a - Len(s) = b - Len(s)
    BY <1>1, <2>1, <2>2 DEF Distinct
  <2>4. QED
    BY <1>1, <2>3
<1>8. CASE a <= Len(s) /\ b > Len(s)
  <2>1. b - Len(s) \in 1 .. Len(u) /\ a \in 1 .. Len(s)
    BY <1>1, <1>8
  <2>2. u[b - Len(s)].of = s[a].of /\ s[a].cut # "early"
    BY <1>1, <1>2, <1>4, <1>8
  <2>3. QED
    BY <1>5, <2>1, <2>2
<1>9. CASE a > Len(s) /\ b <= Len(s)
  <2>1. a - Len(s) \in 1 .. Len(u) /\ b \in 1 .. Len(s)
    BY <1>1, <1>9
  <2>2. u[a - Len(s)].of = s[b].of /\ s[b].cut # "early"
    BY <1>1, <1>2, <1>4, <1>9
  <2>3. QED
    BY <1>5, <2>1, <2>2
<1>10. QED
  BY <1>1, <1>6, <1>7, <1>8, <1>9

\* What is true of rows is true of those that a writer has got out.
LEMMA PrefixRows ==
    ASSUME NEW s \in Seq(Row), NEW u \in Seq(Row), Prefix(s, u)
    PROVE  /\ Distinct(u) => Distinct(s)
           /\ Cuts(s) \subseteq Cuts(u)
           /\ Cardinality(Cuts(s)) <= Cardinality(Cuts(u))
<1>1. /\ Len(s) \in Nat /\ Len(u) \in Nat
      /\ DOMAIN s = 1 .. Len(s) /\ DOMAIN u = 1 .. Len(u)
  BY LenProperties
<1>2. DOMAIN s \subseteq DOMAIN u /\ \A i \in DOMAIN s : s[i] = u[i]
  BY <1>1 DEF Prefix
<1>3. Distinct(u) => Distinct(s)
  BY <1>2 DEF Distinct
<1>4. Cuts(s) \subseteq Cuts(u)
  BY <1>2 DEF Cuts
<1>5. QED
  BY <1>3, <1>4, CutsFinite, FS_Subset

\* The first n rows.
LEMMA FirstRows ==
    ASSUME NEW s \in Seq(Row), NEW n \in 0 .. Len(s)
    PROVE  /\ SubSeq(s, 1, n) \in Seq(Row)
           /\ Len(SubSeq(s, 1, n)) = n
           /\ Prefix(SubSeq(s, 1, n), s)
<1>1. Len(s) \in Nat /\ DOMAIN s = 1 .. Len(s) /\ \A i \in 1 .. n : s[i] \in Row
  BY LenProperties, ElementOfSeq
<1>2. n \in Nat /\ n <= Len(s)
  BY <1>1
<1>3. /\ SubSeq(s, 1, n) \in Seq(Row)
      /\ Len(SubSeq(s, 1, n)) = n
      /\ \A i \in 1 .. n : SubSeq(s, 1, n)[i] = s[i]
  <2>1. /\ SubSeq(s, 1, n) \in Seq(Row)
        /\ Len(SubSeq(s, 1, n)) = IF 1 <= n THEN n - 1 + 1 ELSE 0
        /\ \A i \in 1 .. n - 1 + 1 : SubSeq(s, 1, n)[i] = s[1 + i - 1]
    BY <1>1, <1>2, SubSeqProperties
  <2>2. QED
    BY <1>2, <2>1
<1>4. DOMAIN SubSeq(s, 1, n) = 1 .. n
  BY <1>3, LenProperties
<1>5. QED
  BY <1>2, <1>3, <1>4 DEF Prefix

\* And a part of the next: one more row that is cut short, no key that u does not have.
LEMMA PieceRows ==
    ASSUME NEW s \in Seq(Row), NEW u \in Seq(Row), Len(s) < Len(u), NEW cut \in {"early", "late"}
    PROVE  /\ Append(s, Short(u[Len(s) + 1], cut)) \in Seq(Row)
           /\ Prefix(s, u) /\ Distinct(u) => Distinct(Append(s, Short(u[Len(s) + 1], cut)))
           /\ Cardinality(Cuts(Append(s, Short(u[Len(s) + 1], cut)))) <= Cardinality(Cuts(s)) + 1
<1> DEFINE n == Len(s) + 1
           x == Short(u[n], cut)
           t == Append(s, x)
<1>1. /\ Len(s) \in Nat /\ Len(u) \in Nat /\ n \in 1 .. Len(u)
      /\ DOMAIN s = 1 .. Len(s) /\ DOMAIN u = 1 .. Len(u)
  BY LenProperties
<1>2. u[n] \in Row
  BY <1>1, ElementOfSeq
<1>3. x \in Row /\ x.of = u[n].of /\ (u[n].cut = "early" => x.cut = "early")
  BY <1>2, RowTypes
<1> HIDE DEF x
<1>4. /\ t \in Seq(Row) /\ DOMAIN t = 1 .. n /\ t[n] = x
      /\ \A i \in 1 .. Len(s) : t[i] = s[i]
  BY <1>1, <1>3, AppendProperties, LenProperties
<1> HIDE DEF t
<1>5. ASSUME Prefix(s, u), Distinct(u) PROVE Distinct(t)
  <2>1. \A i \in 1 .. n : t[i].of = u[i].of /\ (t[i].cut # "early" => u[i].cut # "early")
    <3>1. \A i \in 1 .. Len(s) : t[i] = u[i]
      BY <1>1, <1>4, <1>5 DEF Prefix
    <3>2. \A i \in 1 .. n : i = n \/ i \in 1 .. Len(s)
      BY <1>1
    <3>3. QED
      BY <1>3, <1>4, <3>1, <3>2
  <2>2. 1 .. n \subseteq DOMAIN u
    BY <1>1
  <2>3. QED
    BY <1>4, <1>5, <2>1, <2>2 DEF Distinct
<1>6. Cuts(t) \subseteq Cuts(s) \cup {n}
  <2>1. \A i \in 1 .. n : i = n \/ i \in 1 .. Len(s)
    BY <1>1
  <2>2. QED
    BY <1>1, <1>4, <2>1 DEF Cuts
<1>7. Cardinality(Cuts(t)) <= Cardinality(Cuts(s)) + 1
  <2>1. /\ IsFiniteSet(Cuts(s)) /\ Cardinality(Cuts(s)) \in Nat
        /\ IsFiniteSet(Cuts(t)) /\ Cardinality(Cuts(t)) \in Nat
    BY <1>4, CutsFinite
  <2>2. /\ IsFiniteSet(Cuts(s) \cup {n})
        /\ Cardinality(Cuts(s) \cup {n}) = IF n \in Cuts(s) THEN Cardinality(Cuts(s))
                                                           ELSE Cardinality(Cuts(s)) + 1
    BY <2>1, FS_AddElement
  <2>3. Cardinality(Cuts(t)) <= Cardinality(Cuts(s) \cup {n})
    BY <1>6, <2>2, FS_Subset
  <2>4. QED
    BY <2>1, <2>2, <2>3
<1>8. QED
  BY <1>4, <1>5, <1>7 DEF t, x

----------------------------------------------------------------------------
(* Types                                                                   *)

Messages == Records \cup Foreign \cup Poison
Stage == {"idle", "read", "open", "write", "bump", "train", "save"}
Merge == [pc : Stage, found : SUBSET Records, rows : Seq(Row), count : Nat]

BusTypes ==
    /\ buffer \in Seq(Records)
    /\ topic \in Seq(Messages)
    /\ committed \in Nat
    /\ files \subseteq Records

SetTypes ==
    /\ csv \in Seq(Row)
    /\ mark \in Nat /\ atRetrain \in Nat /\ torn \in Nat
    /\ merger \in [Mergers -> Merge]

\* The rows a merge appends to those it has read.
LEMMA NewRowsList ==
    ASSUME NEW rows \in Seq(Row), NEW found \in SUBSET Records
    PROVE  /\ NewRows(rows, found) \in Seq(Row)
           /\ rows \o NewRows(rows, found) \in Seq(Row)
           /\ Prefix(rows, rows \o NewRows(rows, found))
           /\ Distinct(rows) => Distinct(rows \o NewRows(rows, found))
           /\ Distinct(rows) => Cuts(rows \o NewRows(rows, found)) = Cuts(rows)
<1> DEFINE S == found \ Keyed(rows)
           T == {Whole(r) : r \in S}
           new == NewRows(rows, found)
<1>1. IsFiniteSet(T)
  <2>1. IsFiniteSet(S)
    BY FeedbackAssumption, FS_Subset
  <2> DEFINE f == [r \in S |-> Whole(r)]
  <2>2. f \in Surjection(S, T)
    <3>1. f \in [S -> T] /\ \A x \in T : \E r \in S : f[r] = x
      OBVIOUS
    <3>2. QED
      BY <3>1 DEF Surjection
  <2>3. QED
    BY <2>1, <2>2, FS_Surjection
<1>2. new \in Seq(T) /\ IsInjective(new)
  BY <1>1, SetToSeqLists DEF NewRows
<1>3. T \subseteq Row /\ \A x \in T : x.of \notin Keyed(rows) /\ x.cut = "no" /\ x = Whole(x.of)
  BY RowTypes
<1> HIDE DEF T, S, new
<1>4. new \in Seq(Row)
  BY <1>2, <1>3, SeqMonotonic
<1>5. \A i \in 1 .. Len(new) : new[i] \in T
  BY <1>2, ElementOfSeq
<1>6. Len(rows) \in Nat /\ Len(new) \in Nat /\ DOMAIN new = 1 .. Len(new) /\ DOMAIN rows = 1 .. Len(rows)
  BY <1>4, LenProperties
<1>7. Distinct(new)
  <2> SUFFICES ASSUME NEW i \in DOMAIN new, NEW j \in DOMAIN new, new[i].of = new[j].of
               PROVE  i = j
    BY DEF Distinct
  <2>1. new[i] = new[j]
    BY <1>3, <1>5, <1>6
  <2>2. QED
    BY <1>2, <2>1 DEF IsInjective
<1>8. \A i \in 1 .. Len(new) : new[i].of \notin Keyed(rows) /\ new[i].cut = "no"
  BY <1>3, <1>5
<1>9. rows \o new \in Seq(Row) /\ Prefix(rows, rows \o new)
  BY <1>4, <1>6, ConcatProperties DEF Prefix
<1>10. Distinct(rows) => Distinct(rows \o new) /\ Cuts(rows \o new) = Cuts(rows)
  BY <1>4, <1>7, <1>8, ConcatDistinct
<1>11. QED
  BY <1>4, <1>9, <1>10 DEF new

\* What another process may have written beyond the end of a merge's rows stays there.
LEMMA Overwritten ==
    ASSUME NEW m \in Mergers, merger[m].rows \in Seq(Row), csv \in Seq(Row), WriteSet(m)
    PROVE  /\ csv' \in Seq(Row)
           /\ Len(csv) <= Len(merger[m].rows) => csv' = merger[m].rows
<1> DEFINE rows == merger[m].rows
           beyond == SubSeq(csv, Len(rows) + 1, Len(csv))
<1>1. Len(rows) \in Nat /\ Len(csv) \in Nat
  BY LenProperties
<1>2. \A i \in Len(rows) + 1 .. Len(csv) : csv[i] \in Row
  BY <1>1, ElementOfSeq
<1>3. beyond \in Seq(Row)
  BY <1>1, <1>2, SubSeqProperties
<1>4. Len(csv) <= Len(rows) => beyond = <<>>
  <2>1. SUFFICES ASSUME Len(csv) <= Len(rows) PROVE beyond = <<>>
    OBVIOUS
  <2>2. Len(rows) + 1 \in Int /\ Len(csv) \in Int /\ Len(csv) < Len(rows) + 1
    BY <1>1, <2>1
  <2>3. QED
    BY <2>2, SubSeqEmpty
<1>5. \/ csv' = rows \o beyond
      \/ beyond # <<>> /\ csv' = rows \o <<Short(beyond[1], "early")>> \o Tail(beyond)
  BY DEF WriteSet
<1> HIDE DEF beyond
<1>6. rows \o beyond \in Seq(Row)
  BY <1>3, ConcatProperties
<1>7. beyond # <<>> => rows \o <<Short(beyond[1], "early")>> \o Tail(beyond) \in Seq(Row)
  <2> SUFFICES ASSUME beyond # <<>>
               PROVE  rows \o <<Short(beyond[1], "early")>> \o Tail(beyond) \in Seq(Row)
    OBVIOUS
  <2>1. Tail(beyond) \in Seq(Row) /\ beyond[1] \in Row
    <3>1. Head(beyond) \in Row /\ Tail(beyond) \in Seq(Row)
      BY <1>3, HeadTailProperties
    <3>2. QED
      BY <1>3, <3>1
  <2>2. Short(beyond[1], "early") \in Row
    BY <2>1, RowTypes
  <2>3. <<Short(beyond[1], "early")>> \in Seq(Row)
    BY <2>2
  <2>4. QED
    BY <2>1, <2>3, ConcatProperties
<1>8. QED
  BY <1>4, <1>5, <1>6, <1>7, ConcatEmptySeq

LEMMA NoMergeType == NoMerge \in Merge
BY EmptySeq DEF NoMerge, Merge, Stage

\* The steps of the bus leave the merges alone, those of the merges the bus.
LEMMA BusStep ==
    ASSUME BusTypes,
           \/ \E r \in Records : PublishFile(r) \/ PublishKafka(r) \/ ProduceFails(r)
           \/ Delivers \/ DeliveryFails \/ ServiceStops
           \/ \E m \in Foreign \cup Poison : Intrudes(m)
           \/ ConsumerStep \/ ConsumerCrashes
    PROVE  BusTypes' /\ UNCHANGED setVars
<1> USE DEF BusTypes, Put
<1>1. ASSUME NEW r \in Records, PublishFile(r) \/ PublishKafka(r) \/ ProduceFails(r)
      PROVE  BusTypes' /\ UNCHANGED setVars
  <2>1. CASE PublishFile(r)
    BY <1>1, <2>1 DEF PublishFile, sinkVars
  <2>2. CASE PublishKafka(r)
    BY <1>1, <2>2, AppendProperties DEF PublishKafka, sinkVars
  <2>3. CASE ProduceFails(r)
    BY <1>1, <2>3 DEF ProduceFails, sinkVars
  <2>4. QED
    BY <1>1, <2>1, <2>2, <2>3
<1>2. CASE Delivers
  <2>1. Head(buffer) \in Records /\ Tail(buffer) \in Seq(Records)
    BY <1>2, HeadTailProperties DEF Delivers
  <2>2. topic' \in Seq(Messages)
    BY <1>2, <2>1, AppendProperties DEF Delivers, Messages
  <2>3. QED
    BY <1>2, <2>1, <2>2 DEF Delivers, sinkVars
<1>3. CASE DeliveryFails
  BY <1>3, HeadTailProperties DEF DeliveryFails, sinkVars
<1>4. CASE ServiceStops
  BY <1>4, EmptySeq DEF ServiceStops, sinkVars
<1>5. ASSUME NEW m \in Foreign \cup Poison, Intrudes(m)
      PROVE  BusTypes' /\ UNCHANGED setVars
  <2>1. topic' \in Seq(Messages)
    BY <1>5, AppendProperties DEF Intrudes, Messages
  <2>2. QED
    BY <1>5, <2>1 DEF Intrudes, sinkVars
<1>6. CASE Stores
  <2>1. Message \in Records
    BY <1>6 DEF Stores, Fresh
  <2>2. QED
    BY <1>6, <2>1 DEF Stores, Consumes, busVars
<1>7. CASE Starts \/ Rejects \/ Raises \/ Remembers \/ Commits \/ ConsumerCrashes
  BY <1>7 DEF Starts, Rejects, Raises, Remembers, Commits, ConsumerCrashes, Consumes, busVars
<1>8. QED
  BY <1>1, <1>2, <1>3, <1>4, <1>5, <1>6, <1>7 DEF ConsumerStep

MergingStep ==
    \/ \E m \in Mergers : MergeStep(m) \/ MergerCrashes(m)
    \/ RetrainStep

LEMMA MergingLeavesBus == MergingStep => UNCHANGED <<busVars, sinkVars, files>>
<1>1. ASSUME NEW m \in Mergers, MergeStep(m) \/ MergerCrashes(m)
      PROVE  UNCHANGED <<busVars, sinkVars, files>>
  BY <1>1 DEF MergeStep, Scan, ReadSet, ReadFails, OpenSet, WriteSet, Bump, MergerCrashes, Merges
<1>2. ASSUME RetrainStep PROVE UNCHANGED <<busVars, sinkVars, files>>
  BY <1>2 DEF RetrainStep, TrainFails, Trained, SaveState, Merges
<1>3. QED
  BY <1>1, <1>2 DEF MergingStep

----------------------------------------------------------------------------
(* What the steps of a merge do to it, to the file and to the bookmark     *)

Begun(m) ==
    /\ merger[m].pc = "idle" /\ merger'[m].pc = "read"
    /\ overlapped' = (overlapped \/ \E o \in Mergers \ {m} : Merging(o))
    /\ UNCHANGED <<csv, mark, atRetrain, torn>>

\* Nothing to merge, or a file without a header.
Left(m) ==
    /\ merger[m].pc = "read" /\ merger'[m].pc \in {"idle", "train"}
    /\ UNCHANGED <<csv, mark, atRetrain, torn, overlapped>>

Extended(m) ==
    /\ merger[m].pc = "read" /\ merger'[m].pc = "open"
    /\ merger'[m].rows = csv \o NewRows(csv, merger[m].found)
    /\ UNCHANGED <<csv, mark, atRetrain, torn, overlapped>>

Opened(m) ==
    /\ merger[m].pc = "open" /\ merger'[m].pc = "write"
    /\ merger'[m].rows = merger[m].rows
    /\ Prefix(csv', merger[m].rows)
    /\ UNCHANGED <<mark, atRetrain, torn, overlapped>>

Written(m) ==
    /\ merger[m].pc = "write" /\ merger'[m].pc = "bump"
    /\ merger'[m].rows = merger[m].rows
    /\ Len(csv) <= Len(merger[m].rows) => csv' = merger[m].rows
    /\ UNCHANGED <<mark, atRetrain, torn, overlapped>>

Booked(m) ==
    /\ merger[m].pc = "bump" /\ merger'[m].pc \in {"idle", "train"}
    /\ mark' = Len(merger[m].rows)
    /\ UNCHANGED <<csv, atRetrain, torn, overlapped>>

\* A writer that dies may leave a part of its next row.
Died(m) ==
    /\ merger[m].pc # "idle" /\ merger'[m].pc = "idle"
    /\ torn' = torn + (IF Writing(m) THEN 1 ELSE 0)
    /\ \/ csv' = csv
       \/ /\ Writing(m) /\ Len(csv) < Len(merger[m].rows)
          /\ \E cut \in {"early", "late"} :
                csv' = Append(csv, Short(merger[m].rows[Len(csv) + 1], cut))
    /\ UNCHANGED <<mark, atRetrain, overlapped>>

OneMoves(m) == \A o \in Mergers \ {m} : merger'[o] = merger[o]

LEMMA MergeCases ==
    ASSUME BusTypes, SetTypes, NEW m \in Mergers, MergeStep(m) \/ MergerCrashes(m)
    PROVE  /\ merger' \in [Mergers -> Merge] /\ csv' \in Seq(Row) /\ OneMoves(m)
           /\ \/ Begun(m) \/ Left(m) \/ Extended(m) \/ Opened(m) \/ Written(m)
              \/ Booked(m) \/ Died(m)
<1> DEFINE here == merger[m]
<1>1. /\ merger \in [Mergers -> Merge] /\ csv \in Seq(Row) /\ here \in Merge
      /\ here.rows \in Seq(Row) /\ here.found \in SUBSET Records
      /\ Len(here.rows) \in Nat /\ Len(csv) \in Nat /\ torn \in Nat
  BY LenProperties DEF SetTypes, Merge
<1>2. ASSUME NEW r \in Merge, merger' = [merger EXCEPT ![m] = r]
      PROVE  merger' \in [Mergers -> Merge] /\ OneMoves(m) /\ merger'[m] = r
  BY <1>1, <1>2 DEF OneMoves
<1>3. Merged(m) \in Merge /\ Merged(m).pc \in {"idle", "train"}
  BY NoMergeType DEF Merged, NoMerge, Merge, Stage
<1>4. \A pc \in Stage : [here EXCEPT !.pc = pc] \in Merge /\ [here EXCEPT !.pc = pc].pc = pc
                        /\ [here EXCEPT !.pc = pc].rows = here.rows
  BY <1>1 DEF Merge
<1>5. CASE Scan(m)
  <2>1. /\ [NoMerge EXCEPT !.pc = "read", !.found = files] \in Merge
        /\ [NoMerge EXCEPT !.pc = "read", !.found = files].pc = "read"
    BY EmptySeq DEF BusTypes, NoMerge, Merge, Stage
  <2>2. /\ here.pc = "idle"
        /\ merger' = [merger EXCEPT ![m] = [NoMerge EXCEPT !.pc = "read", !.found = files]]
        /\ overlapped' = (overlapped \/ \E o \in Mergers \ {m} : Merging(o))
        /\ UNCHANGED <<csv, mark, atRetrain, torn>>
    BY <1>5 DEF Scan, Merges, dataVars
  <2>3. merger' \in [Mergers -> Merge] /\ OneMoves(m) /\ merger'[m].pc = "read"
    BY <1>2, <2>1, <2>2
  <2>4. QED
    BY <1>1, <2>2, <2>3 DEF Begun
<1>6. CASE ReadSet(m)
  <2> DEFINE new  == NewRows(csv, here.found)
             more == Rewrites(m, csv \o new)
  <2>1. csv \o new \in Seq(Row)
    BY <1>1, NewRowsList
  <2>2. more \in Merge /\ more.pc = "open" /\ more.rows = csv \o new
    BY <1>1, <2>1 DEF Rewrites, Merge, Stage
  <2>3. /\ here.pc = "read" /\ UNCHANGED <<csv, mark, atRetrain, torn, overlapped>>
        /\ merger' = [merger EXCEPT ![m] = IF new = <<>> THEN Merged(m) ELSE more]
    BY <1>6 DEF ReadSet, Merges, dataVars
  <2> HIDE DEF more
  <2>4. CASE new = <<>>
    <3>1. merger' = [merger EXCEPT ![m] = Merged(m)]
      BY <2>3, <2>4
    <3>2. merger' \in [Mergers -> Merge] /\ OneMoves(m) /\ merger'[m] = Merged(m)
      BY <1>2, <1>3, <3>1
    <3>3. QED
      BY <1>1, <1>3, <2>3, <3>2 DEF Left
  <2>5. CASE new # <<>>
    <3>1. merger' = [merger EXCEPT ![m] = more]
      BY <2>3, <2>5
    <3>2. merger' \in [Mergers -> Merge] /\ OneMoves(m) /\ merger'[m] = more
      BY <1>2, <2>2, <3>1
    <3>3. QED
      BY <1>1, <2>2, <2>3, <3>2 DEF Extended
  <2>6. QED
    BY <2>4, <2>5
<1>7. CASE ReadFails(m)
  <2>1. /\ here.pc = "read" /\ merger' = [merger EXCEPT ![m] = NoMerge]
        /\ UNCHANGED <<csv, mark, atRetrain, torn, overlapped>>
    BY <1>7 DEF ReadFails, Merges, dataVars
  <2>2. merger' \in [Mergers -> Merge] /\ OneMoves(m) /\ merger'[m].pc = "idle"
    BY <1>2, <2>1, NoMergeType DEF NoMerge
  <2>3. QED
    BY <1>1, <2>1, <2>2 DEF Left
<1>8. CASE OpenSet(m)
  <2>1. PICK n \in 0 .. Len(here.rows) - 1 : csv' = SubSeq(here.rows, 1, n)
    BY <1>8 DEF OpenSet
  <2>2. n \in 0 .. Len(here.rows)
    BY <1>1, <2>1
  <2>3. csv' \in Seq(Row) /\ Prefix(csv', here.rows)
    BY <1>1, <2>1, <2>2, FirstRows
  <2>4. /\ here.pc = "open" /\ UNCHANGED <<mark, atRetrain, torn, overlapped>>
        /\ merger' = [merger EXCEPT ![m] = [here EXCEPT !.pc = "write"]]
    BY <1>8 DEF OpenSet, Merges
  <2>5. "write" \in Stage
    BY DEF Stage
  <2>6. /\ merger' \in [Mergers -> Merge] /\ OneMoves(m)
        /\ merger'[m].pc = "write" /\ merger'[m].rows = here.rows
    BY <1>2, <1>4, <2>4, <2>5
  <2>7. QED
    BY <2>3, <2>4, <2>6 DEF Opened
<1>9. CASE WriteSet(m)
  <2>1. csv' \in Seq(Row) /\ (Len(csv) <= Len(here.rows) => csv' = here.rows)
    BY <1>1, <1>9, Overwritten
  <2>2. /\ here.pc = "write" /\ UNCHANGED <<mark, atRetrain, torn, overlapped>>
        /\ merger' = [merger EXCEPT ![m] = [here EXCEPT !.pc = "bump"]]
    BY <1>9 DEF WriteSet, Merges
  <2>3. "bump" \in Stage
    BY DEF Stage
  <2>4. /\ merger' \in [Mergers -> Merge] /\ OneMoves(m)
        /\ merger'[m].pc = "bump" /\ merger'[m].rows = here.rows
    BY <1>2, <1>4, <2>2, <2>3
  <2>5. QED
    BY <2>1, <2>2, <2>4 DEF Written
<1>10. CASE Bump(m)
  <2>1. /\ here.pc = "bump" /\ merger' = [merger EXCEPT ![m] = Merged(m)]
        /\ mark' = Len(here.rows) /\ UNCHANGED <<csv, atRetrain, torn, overlapped>>
    BY <1>10 DEF Bump, Merges, dataVars
  <2>2. merger' \in [Mergers -> Merge] /\ OneMoves(m) /\ merger'[m] = Merged(m)
    BY <1>2, <1>3, <2>1
  <2>3. QED
    BY <1>1, <1>3, <2>1, <2>2 DEF Booked
<1>11. CASE MergerCrashes(m)
  <2>1. /\ here.pc # "idle" /\ merger' = [merger EXCEPT ![m] = NoMerge]
        /\ csv' \in {csv} \cup Pieces(m)
        /\ torn' = torn + (IF Writing(m) THEN 1 ELSE 0)
        /\ UNCHANGED <<mark, atRetrain, overlapped>>
    BY <1>11 DEF MergerCrashes
  <2>2. merger' \in [Mergers -> Merge] /\ OneMoves(m) /\ merger'[m].pc = "idle"
    BY <1>2, <2>1, NoMergeType DEF NoMerge
  <2>3. \/ csv' = csv
        \/ /\ Writing(m) /\ Len(csv) < Len(here.rows)
           /\ \E cut \in {"early", "late"} :
                 csv' = Append(csv, Short(here.rows[Len(csv) + 1], cut))
    BY <2>1 DEF Pieces
  <2>4. csv' \in Seq(Row)
    BY <1>1, <2>3, PieceRows
  <2>5. QED
    BY <2>1, <2>2, <2>3, <2>4 DEF Died
<1>12. QED
  BY <1>5, <1>6, <1>7, <1>8, <1>9, <1>10, <1>11 DEF MergeStep

\* What the rest of the worker's cycle does.
Retrained ==
    /\ UNCHANGED <<csv, mark, torn, overlapped>>
    /\ merger[Worker].pc \in {"train", "save"} /\ merger'[Worker].pc \in {"idle", "save"}
    /\ merger[Worker].pc # "save" => atRetrain' = atRetrain

LEMMA RetrainCases ==
    ASSUME SetTypes, RetrainStep
    PROVE  /\ merger' \in [Mergers -> Merge] /\ atRetrain' \in Nat
           /\ Worker \in Mergers /\ OneMoves(Worker) /\ Retrained
<1>1. /\ Worker \in Mergers /\ merger \in [Mergers -> Merge] /\ merger[Worker] \in Merge
      /\ merger[Worker].count \in Nat /\ mark \in Nat /\ atRetrain \in Nat
  BY FeedbackAssumption DEF SetTypes, Merge
<1>2. ASSUME NEW r \in Merge, merger' = [merger EXCEPT ![Worker] = r]
      PROVE  merger' \in [Mergers -> Merge] /\ OneMoves(Worker) /\ merger'[Worker] = r
  BY <1>1, <1>2 DEF OneMoves
<1>3. NoMerge.pc = "idle"
  BY DEF NoMerge
<1>4. CASE TrainFails
  <2>1. /\ merger[Worker].pc = "train" /\ merger' = [merger EXCEPT ![Worker] = NoMerge]
        /\ UNCHANGED <<csv, mark, atRetrain, torn, overlapped>>
    BY <1>4 DEF TrainFails, Merges, dataVars
  <2>2. QED
    BY <1>1, <1>2, <1>3, <2>1, NoMergeType DEF Retrained
<1>5. CASE Trained
  <2> DEFINE saving == [NoMerge EXCEPT !.pc = "save", !.count = mark]
  <2>1. /\ merger[Worker].pc = "train" /\ merger' = [merger EXCEPT ![Worker] = saving]
        /\ UNCHANGED <<csv, mark, atRetrain, torn, overlapped>>
    BY <1>5 DEF Trained, Merges, dataVars
  <2>2. saving \in Merge /\ saving.pc = "save"
    BY <1>1, EmptySeq DEF NoMerge, Merge, Stage
  <2> HIDE DEF saving
  <2>3. QED
    BY <1>1, <1>2, <2>1, <2>2 DEF Retrained
<1>6. CASE SaveState
  <2>1. /\ merger[Worker].pc = "save" /\ merger' = [merger EXCEPT ![Worker] = NoMerge]
        /\ atRetrain' = merger[Worker].count /\ UNCHANGED <<csv, mark, torn, overlapped>>
    BY <1>6 DEF SaveState, Merges, dataVars
  <2>2. QED
    BY <1>1, <1>2, <1>3, <2>1, NoMergeType DEF Retrained
<1>7. QED
  BY <1>4, <1>5, <1>6 DEF RetrainStep

LEMMA SetTypesStep ==
    ASSUME BusTypes, SetTypes, MergingStep
    PROVE  SetTypes'
<1>1. ASSUME NEW m \in Mergers, MergeStep(m) \/ MergerCrashes(m) PROVE SetTypes'
  <2>1. merger[m].rows \in Seq(Row) /\ Len(merger[m].rows) \in Nat
    BY LenProperties DEF SetTypes, Merge
  <2>2. mark' \in Nat /\ atRetrain' \in Nat /\ torn' \in Nat
    BY <1>1, <2>1, MergeCases
       DEF SetTypes, Begun, Left, Extended, Opened, Written, Booked, Died
  <2>3. QED
    BY <1>1, <2>2, MergeCases DEF SetTypes
<1>2. CASE RetrainStep
  BY <1>2, RetrainCases DEF SetTypes, Retrained
<1>3. QED
  BY <1>1, <1>2 DEF MergingStep

LEMMA FeedbackTypesInit == Init => BusTypes /\ SetTypes
<1>1. <<>> \in Seq(Records) /\ <<>> \in Seq(Messages) /\ <<Whole(Base)>> \in Seq(Row)
  BY EmptySeq, RowTypes
<1>2. QED
  BY <1>1, NoMergeType DEF Init, BusTypes, SetTypes

LEMMA NextParts ==
    [Next]_vars /\ BusTypes => (BusTypes' /\ UNCHANGED setVars) \/ MergingStep
<1> SUFFICES ASSUME [Next]_vars, BusTypes
             PROVE  (BusTypes' /\ UNCHANGED setVars) \/ MergingStep
  OBVIOUS
<1>1. CASE UNCHANGED vars
  BY <1>1 DEF vars, busVars, sinkVars, BusTypes
<1>2. CASE Next
  BY <1>2, BusStep DEF Next, MergingStep
<1>3. QED
  BY <1>1, <1>2

\* Type correctness of the bus, the merges and the training set.
THEOREM FeedbackTypes == Spec => [](BusTypes /\ SetTypes)
<1>1. BusTypes /\ SetTypes /\ [Next]_vars => (BusTypes /\ SetTypes)'
  <2> SUFFICES ASSUME BusTypes, SetTypes, [Next]_vars PROVE BusTypes' /\ SetTypes'
    OBVIOUS
  <2>1. CASE MergingStep
    BY <2>1, SetTypesStep, MergingLeavesBus DEF BusTypes, busVars, sinkVars
  <2>2. CASE BusTypes' /\ UNCHANGED setVars
    BY <2>2 DEF SetTypes, setVars, dataVars
  <2>3. QED
    BY <2>1, <2>2, NextParts
<1>2. QED
  BY <1>1, FeedbackTypesInit, PTL DEF Spec

----------------------------------------------------------------------------
(* The training set                                                        *)

\* Until two merges overlap there is one process that merges, at most.
OneAtATime ==
    ~overlapped => \A m, o \in Mergers : m # o => ~Merging(m) \/ ~Merging(o)

\* The rows a merge is about to write repeat no key, and are those in the file and more;
\* while it writes, the file is the first of them.  No crashed write cuts more than one.
SetWhole ==
    ~overlapped =>
        /\ Distinct(csv) /\ Cardinality(Cuts(csv)) <= torn
        /\ \A m \in Mergers :
              /\ merger[m].pc \in {"open", "write", "bump"} =>
                    Distinct(merger[m].rows) /\ Cardinality(Cuts(merger[m].rows)) <= torn
              /\ merger[m].pc \in {"open", "write"} => Prefix(csv, merger[m].rows)

\* The bookmark is behind the file, or behind the rows that are being written to it.
Bookmarked ==
    ~overlapped /\ torn = 0 =>
        /\ (\A m \in Mergers : ~Writing(m)) => mark <= Len(csv)
        /\ \A m \in Mergers :
              /\ merger[m].pc \in {"write", "bump"} => mark <= Len(merger[m].rows)
              /\ merger[m].pc = "bump" => Len(merger[m].rows) <= Len(csv)

SetInv == BusTypes /\ SetTypes /\ OneAtATime /\ SetWhole /\ Bookmarked

LEMMA SetInvInit == Init => SetInv
<1> SUFFICES ASSUME Init PROVE SetInv
  OBVIOUS
<1>1. /\ csv = <<Whole(Base)>> /\ csv \in Seq(Row) /\ DOMAIN csv = {1} /\ Len(csv) = 1
      /\ csv[1].cut = "no"
  BY RowTypes DEF Init
<1>2. Distinct(csv) /\ Cuts(csv) = {}
  BY <1>1 DEF Distinct, Cuts
<1>3. Cardinality(Cuts(csv)) = 0
  BY <1>2, FS_EmptySet
<1>4. \A m \in Mergers : merger[m].pc = "idle"
  BY DEF Init, NoMerge
<1>5. torn = 0 /\ mark = 0
  BY DEF Init
<1>6. QED
  BY <1>1, <1>2, <1>3, <1>4, <1>5, FeedbackTypesInit
     DEF SetInv, OneAtATime, SetWhole, Bookmarked, Writing, Merging

\* An overlap is never forgotten, nor a torn write, and only a scan begins a merge.
LEMMA OneAtATimeStep ==
    ASSUME BusTypes, SetTypes, OneAtATime, MergingStep
    PROVE  OneAtATime' /\ (overlapped => overlapped') /\ torn <= torn'
<1> DEFINE Proved == OneAtATime' /\ (overlapped => overlapped') /\ torn <= torn'
<1>1. torn \in Nat
  BY DEF SetTypes
<1>2. ASSUME NEW m \in Mergers, MergeStep(m) \/ MergerCrashes(m) PROVE Proved
  <2>1. OneMoves(m)
    BY <1>2, MergeCases
  <2>2. CASE Begun(m)
    <3>1. /\ overlapped' = (overlapped \/ \E o \in Mergers \ {m} : Merging(o))
          /\ torn' = torn
      BY <2>2 DEF Begun
    <3>2. \A o \in Mergers \ {m} : Merging(o)' <=> Merging(o)
      BY <2>1 DEF OneMoves, Merging
    <3>3. ASSUME ~overlapped' PROVE \A o, q \in Mergers : o # q => ~Merging(o)' \/ ~Merging(q)'
      BY <3>1, <3>2, <3>3 DEF OneAtATime
    <3>4. OneAtATime'
      BY <3>3 DEF OneAtATime
    <3>5. overlapped => overlapped'
      BY <3>1, Zenon
    <3>6. torn <= torn'
      BY <1>1, <3>1
    <3>7. QED
      BY <3>4, <3>5, <3>6
  <2>3. CASE Left(m) \/ Extended(m) \/ Opened(m) \/ Written(m) \/ Booked(m) \/ Died(m)
    <3>1. UNCHANGED overlapped /\ torn <= torn' /\ (Merging(m)' => Merging(m))
      BY <1>1, <2>3 DEF Left, Extended, Opened, Written, Booked, Died, Merging
    <3>2. \A o \in Mergers \ {m} : Merging(o)' <=> Merging(o)
      BY <2>1 DEF OneMoves, Merging
    <3>3. QED
      BY <3>1, <3>2 DEF OneAtATime
  <2>4. QED
    BY <1>2, <2>2, <2>3, MergeCases
<1>3. CASE RetrainStep
  <2>1. Retrained /\ OneMoves(Worker)
    BY <1>3, RetrainCases
  <2>2. \A o \in Mergers : Merging(o)' => Merging(o)
    BY <2>1 DEF Retrained, OneMoves, Merging
  <2>3. QED
    BY <1>1, <2>1, <2>2 DEF Retrained, OneAtATime
<1>4. QED
  BY <1>2, <1>3 DEF MergingStep

LEMMA SetWholeStep ==
    ASSUME BusTypes, SetTypes, OneAtATime, SetWhole, MergingStep, ~overlapped'
    PROVE  SetWhole'
<1>1. ~overlapped /\ torn <= torn'
  BY OneAtATimeStep
<1>2. /\ csv \in Seq(Row) /\ torn \in Nat /\ Len(csv) \in Nat
      /\ Distinct(csv) /\ Cardinality(Cuts(csv)) <= torn /\ Cardinality(Cuts(csv)) \in Nat
  BY <1>1, CutsFinite, LenProperties DEF SetTypes, SetWhole
<1>3. \A m \in Mergers :
         /\ merger[m].rows \in Seq(Row) /\ merger[m].found \in SUBSET Records
         /\ Len(merger[m].rows) \in Nat /\ Cardinality(Cuts(merger[m].rows)) \in Nat
  BY CutsFinite, LenProperties DEF SetTypes, Merge
\* What one process owes to SetWhole.
<1> DEFINE Owes(m) ==
             /\ merger[m].pc \in {"open", "write", "bump"} =>
                   Distinct(merger[m].rows) /\ Cardinality(Cuts(merger[m].rows)) <= torn
             /\ merger[m].pc \in {"open", "write"} => Prefix(csv, merger[m].rows)
<1>4. \A m \in Mergers : Owes(m)
  BY <1>1 DEF SetWhole
<1>5. ASSUME NEW m \in Mergers, MergeStep(m) \/ MergerCrashes(m) PROVE SetWhole'
  <2>1. /\ csv' \in Seq(Row) /\ OneMoves(m) /\ torn' \in Nat
        /\ \/ Begun(m) \/ Left(m) \/ Extended(m) \/ Opened(m) \/ Written(m)
           \/ Booked(m) \/ Died(m)
    <3>1. torn' \in Nat
      BY SetTypesStep DEF SetTypes
    <3>2. QED
      BY <1>5, <3>1, MergeCases
  \* The others: they do not merge while m writes, and their rows stay.
  <2>2. \A o \in Mergers \ {m} : merger[m].pc \in {"open", "write"} => ~Merging(o)
    BY <1>1 DEF OneAtATime, Merging
  <2>3. ASSUME csv' = csv \/ merger[m].pc \in {"open", "write"}, NEW o \in Mergers \ {m}
        PROVE  Owes(o)'
    <3>1. merger'[o] = merger[o] /\ Owes(o)
      BY <1>4, <2>1 DEF OneMoves
    <3>2. CASE csv' = csv
      BY <1>1, <1>2, <1>3, <2>1, <3>1, <3>2
    <3>3. CASE merger[m].pc \in {"open", "write"}
      BY <2>2, <3>1, <3>3 DEF Merging
    <3>4. QED
      BY <2>3, <3>2, <3>3
  <2>4. ASSUME Distinct(csv'), Cardinality(Cuts(csv')) <= torn', Owes(m)',
               csv' = csv \/ merger[m].pc \in {"open", "write"}
        PROVE  SetWhole'
    BY <2>3, <2>4 DEF SetWhole
  <2>5. CASE Begun(m) \/ Left(m) \/ Booked(m)
    BY <1>2, <2>4, <2>5 DEF Begun, Left, Booked
  <2>6. CASE Extended(m)
    <3> DEFINE rows == csv \o NewRows(csv, merger[m].found)
    <3>1. Prefix(csv, rows) /\ Distinct(rows) /\ Cuts(rows) = Cuts(csv)
      BY <1>2, <1>3, NewRowsList
    <3>2. merger'[m].rows = rows /\ csv' = csv /\ torn' = torn
      BY <2>6 DEF Extended
    <3> HIDE DEF rows
    <3>3. Owes(m)'
      BY <1>2, <3>1, <3>2
    <3>4. QED
      BY <1>2, <2>4, <3>2, <3>3
  <2>7. CASE Opened(m)
    <3>1. /\ merger[m].pc = "open" /\ merger'[m].rows = merger[m].rows /\ torn' = torn
          /\ Prefix(csv', merger[m].rows)
      BY <2>7 DEF Opened
    <3>2. Distinct(merger[m].rows) /\ Cardinality(Cuts(merger[m].rows)) <= torn
      BY <1>4, <3>1
    <3>3. Distinct(csv') /\ Cardinality(Cuts(csv')) <= Cardinality(Cuts(merger[m].rows))
      BY <1>3, <2>1, <3>1, <3>2, PrefixRows
    <3>4. Cardinality(Cuts(csv')) \in Nat
      BY <2>1, CutsFinite
    <3>5. Cardinality(Cuts(csv')) <= torn'
      BY <1>2, <1>3, <3>1, <3>2, <3>3, <3>4
    <3>6. Owes(m)'
      BY <3>1, <3>2
    <3>7. QED
      BY <2>4, <3>1, <3>3, <3>5, <3>6
  <2>8. CASE Written(m)
    <3>1. /\ merger[m].pc = "write" /\ merger'[m].pc = "bump"
          /\ merger'[m].rows = merger[m].rows /\ torn' = torn
      BY <2>8 DEF Written
    <3>2. /\ Distinct(merger[m].rows) /\ Cardinality(Cuts(merger[m].rows)) <= torn
          /\ Len(csv) <= Len(merger[m].rows)
      BY <1>4, <3>1 DEF Prefix
    <3>3. csv' = merger[m].rows
      BY <2>8, <3>2 DEF Written
    <3>4. Owes(m)'
      BY <3>1, <3>2
    <3>5. QED
      BY <2>4, <3>1, <3>2, <3>3, <3>4
  <2>9. CASE Died(m)
    <3>1. merger'[m].pc = "idle"
      BY <2>9 DEF Died
    <3>2. Owes(m)'
      BY <3>1
    <3>3. CASE csv' = csv
      BY <1>1, <1>2, <2>1, <2>4, <3>2, <3>3
    <3>4. CASE csv' # csv
      <4>1. /\ merger[m].pc = "write" /\ Len(csv) < Len(merger[m].rows) /\ torn' = torn + 1
            /\ \E cut \in {"early", "late"} :
                  csv' = Append(csv, Short(merger[m].rows[Len(csv) + 1], cut))
        BY <2>9, <3>4 DEF Died, Writing
      <4>2. Distinct(merger[m].rows) /\ Prefix(csv, merger[m].rows)
        BY <1>4, <4>1
      <4>3. Distinct(csv') /\ Cardinality(Cuts(csv')) <= Cardinality(Cuts(csv)) + 1
        BY <1>2, <1>3, <4>1, <4>2, PieceRows
      <4>4. Cardinality(Cuts(csv')) \in Nat
        BY <2>1, CutsFinite
      <4>5. Cardinality(Cuts(csv')) <= torn'
        BY <1>2, <4>1, <4>3, <4>4
      <4>6. QED
        BY <2>4, <3>2, <4>1, <4>3, <4>5
    <3>5. QED
      BY <3>3, <3>4
  <2>10. QED
    BY <2>1, <2>5, <2>6, <2>7, <2>8, <2>9
<1>6. CASE RetrainStep
  <2>1. Retrained /\ OneMoves(Worker)
    BY <1>6, RetrainCases
  <2>2. /\ csv' = csv /\ torn' = torn
        /\ \A o \in Mergers : Owes(o)'
    BY <1>4, <2>1 DEF Retrained, OneMoves
  <2>3. QED
    BY <1>2, <2>2 DEF SetWhole
<1>7. QED
  BY <1>5, <1>6 DEF MergingStep

LEMMA BookmarkedStep ==
    ASSUME BusTypes, SetTypes, OneAtATime, SetWhole, Bookmarked, MergingStep,
           ~overlapped', torn' = 0
    PROVE  Bookmarked'
<1>1. ~overlapped /\ torn = 0
  <2>1. torn \in Nat /\ torn <= torn' /\ ~overlapped
    BY OneAtATimeStep DEF SetTypes
  <2>2. QED
    BY <2>1
<1>2. mark \in Nat /\ Len(csv) \in Nat /\ \A m \in Mergers : Len(merger[m].rows) \in Nat
  BY LenProperties DEF SetTypes, Merge
<1>3. /\ (\A m \in Mergers : ~Writing(m)) => mark <= Len(csv)
      /\ \A m \in Mergers :
            /\ merger[m].pc \in {"write", "bump"} => mark <= Len(merger[m].rows)
            /\ merger[m].pc = "bump" => Len(merger[m].rows) <= Len(csv)
  BY <1>1 DEF Bookmarked
<1>4. ASSUME NEW m \in Mergers, MergeStep(m) \/ MergerCrashes(m) PROVE Bookmarked'
  <2>1. /\ OneMoves(m)
        /\ \/ Begun(m) \/ Left(m) \/ Extended(m) \/ Opened(m) \/ Written(m)
           \/ Booked(m) \/ Died(m)
    BY <1>4, MergeCases
  <2>2. \A o \in Mergers \ {m} : Merging(m) => ~Merging(o)
    BY <1>1 DEF OneAtATime
  \* The steps before and after the write, which leave the file and the bookmark alone.
  <2>3. ASSUME UNCHANGED <<csv, mark>>, merger[m].pc # "write", merger'[m].pc \notin {"write", "bump"}
        PROVE  Bookmarked'
    <3>1. \A o \in Mergers \ {m} : merger'[o] = merger[o]
      BY <2>1 DEF OneMoves
    <3>2. (\A o \in Mergers : ~Writing(o)') => \A o \in Mergers : ~Writing(o)
      BY <2>3, <3>1 DEF Writing
    <3>3. QED
      BY <1>3, <2>3, <3>1, <3>2 DEF Bookmarked
  <2>4. CASE Begun(m) \/ Left(m) \/ Extended(m)
    BY <2>3, <2>4 DEF Begun, Left, Extended
  <2>5. CASE Died(m)
    <3>1. merger[m].pc # "write" /\ csv' = csv
      BY <1>1, <2>5 DEF Died, Writing
    <3>2. QED
      BY <2>3, <2>5, <3>1 DEF Died
  \* While m writes, nobody else has rows of his own.
  <2>6. ASSUME Merging(m), NEW o \in Mergers \ {m}
        PROVE  merger'[o].pc \notin {"write", "bump"}
    BY <2>1, <2>2, <2>6 DEF OneMoves, Merging
  <2>7. CASE Opened(m)
    <3>1. /\ merger[m].pc = "open" /\ merger'[m].pc = "write"
          /\ merger'[m].rows = merger[m].rows /\ mark' = mark
      BY <2>7 DEF Opened
    <3>2. Merging(m)
      BY <3>1 DEF Merging
    <3>3. \A o \in Mergers : ~Writing(o)
      BY <2>2, <3>1, <3>2 DEF Writing, Merging
    <3>4. Len(csv) <= Len(merger[m].rows)
      BY <1>1, <3>1 DEF SetWhole, Prefix
    <3>5. mark' <= Len(merger'[m].rows)
      BY <1>2, <1>3, <3>1, <3>3, <3>4
    <3>6. QED
      BY <2>6, <3>1, <3>2, <3>5 DEF Bookmarked, Writing
  <2>8. CASE Written(m)
    <3>1. /\ merger[m].pc = "write" /\ merger'[m].pc = "bump"
          /\ merger'[m].rows = merger[m].rows /\ mark' = mark
      BY <2>8 DEF Written
    <3>2. Merging(m)
      BY <3>1 DEF Merging
    <3>3. Len(csv) <= Len(merger[m].rows)
      BY <1>1, <3>1 DEF SetWhole, Prefix
    <3>4. csv' = merger[m].rows /\ mark <= Len(merger[m].rows)
      BY <1>3, <2>8, <3>1, <3>3 DEF Written
    <3>5. QED
      BY <1>2, <2>6, <3>1, <3>2, <3>4 DEF Bookmarked
  <2>9. CASE Booked(m)
    <3>1. /\ merger[m].pc = "bump" /\ merger'[m].pc \in {"idle", "train"}
          /\ mark' = Len(merger[m].rows) /\ csv' = csv
      BY <2>9 DEF Booked
    <3>2. Merging(m)
      BY <3>1 DEF Merging
    <3>3. QED
      BY <1>2, <1>3, <2>6, <3>1, <3>2 DEF Bookmarked
  <2>10. QED
    BY <2>1, <2>4, <2>5, <2>7, <2>8, <2>9
<1>5. CASE RetrainStep
  <2>1. Retrained /\ OneMoves(Worker)
    BY <1>5, RetrainCases
  <2>2. UNCHANGED <<csv, mark>>
    BY <2>1 DEF Retrained
  <2>3. \A o \in Mergers : /\ merger[o].pc \in {"write", "bump"} => merger'[o] = merger[o]
                           /\ merger'[o].pc \in {"write", "bump"} => merger'[o] = merger[o]
    BY <2>1 DEF Retrained, OneMoves
  <2>4. QED
    BY <1>3, <2>2, <2>3 DEF Bookmarked, Writing
<1>6. QED
  BY <1>4, <1>5 DEF MergingStep

LEMMA SetInvStep == SetInv /\ [Next]_vars => SetInv'
<1> SUFFICES ASSUME SetInv, [Next]_vars PROVE SetInv'
  OBVIOUS
<1> USE DEF SetInv
<1>1. CASE MergingStep
  <2>1. BusTypes' /\ SetTypes'
    BY <1>1, SetTypesStep, MergingLeavesBus DEF BusTypes, busVars, sinkVars
  <2>2. OneAtATime'
    BY <1>1, OneAtATimeStep
  <2>3. SetWhole'
    BY <1>1, SetWholeStep DEF SetWhole
  <2>4. Bookmarked'
    BY <1>1, BookmarkedStep DEF Bookmarked
  <2>5. QED
    BY <2>1, <2>2, <2>3, <2>4
<1>2. CASE BusTypes' /\ UNCHANGED setVars
  BY <1>2 DEF SetTypes, OneAtATime, SetWhole, Bookmarked, Writing, Merging, setVars, dataVars,
     Distinct, Cuts, Prefix
<1>3. QED
  BY <1>1, <1>2, NextParts

LEMMA SetInvAlways == Spec => []SetInv
BY SetInvInit, SetInvStep, PTL DEF Spec

\* Whatever crashes, also inside a row, is delivered twice or is run by hand: as long as
\* no two merges overlap, no execution has two rows with its key in the training set, and
\* every row that is cut short is the trace of a crash of its own.
THEOREM NoRowTwice == Spec => []MergedOnce
<1>1. SetInv => MergedOnce
  BY DEF SetInv, SetWhole, MergedOnce, Distinct, Cuts
<1>2. QED
  BY SetInvAlways, <1>1, PTL

\* As long as no two merges overlap and none dies in its write, the bookmark names no
\* row the training set does not have.
THEOREM BookmarkBehind == Spec => []WatermarkNeverAhead
<1>1. SetInv => WatermarkNeverAhead
  BY DEF SetInv, Bookmarked, WatermarkNeverAhead
<1>2. QED
  BY SetInvAlways, <1>1, PTL

----------------------------------------------------------------------------
(* The volume rule                                                         *)

LEMMA CountGrows ==
    ASSUME NEW a \in Nat, NEW b \in Nat, NEW c \in Nat, a <= b
    PROVE  ~((IF b > c THEN b - c ELSE 0) < (IF a > c THEN a - c ELSE 0))
OBVIOUS

\* No merge lowers the bookmark, and nothing but the end of a retrain that has trained
\* moves what it is compared with.
LEMMA CountKept ==
    ASSUME SetInv, [Next]_vars, ~overlapped', torn' = 0, UnseenRows' < UnseenRows
    PROVE  merger[Worker].pc = "save"
<1>1. SUFFICES ASSUME merger[Worker].pc # "save" PROVE mark <= mark' /\ atRetrain' = atRetrain
  <2>1. mark \in Nat /\ mark' \in Nat /\ atRetrain \in Nat
    <3>1. SetInv'
      BY SetInvStep
    <3>2. QED
      BY <3>1 DEF SetInv, SetTypes
  <2>2. ASSUME mark <= mark', atRetrain' = atRetrain PROVE FALSE
    <3>1. /\ UnseenRows = IF mark > atRetrain THEN mark - atRetrain ELSE 0
          /\ UnseenRows' = IF mark' > atRetrain THEN mark' - atRetrain ELSE 0
      BY <2>2 DEF UnseenRows
    <3>2. ~(UnseenRows' < UnseenRows)
      BY <2>1, <2>2, <3>1, CountGrows
    <3>3. QED
      BY <3>2
  <2>3. QED
    BY <1>1, <2>2
<1>2. mark \in Nat
  BY DEF SetInv, SetTypes
<1>3. CASE UNCHANGED setVars
  BY <1>2, <1>3 DEF setVars
<1>4. ASSUME NEW m \in Mergers, MergeStep(m) \/ MergerCrashes(m)
      PROVE  mark <= mark' /\ atRetrain' = atRetrain
  <2>1. CASE Begun(m) \/ Left(m) \/ Extended(m) \/ Opened(m) \/ Written(m) \/ Died(m)
    BY <1>2, <2>1 DEF Begun, Left, Extended, Opened, Written, Died
  <2>2. CASE Booked(m)
    BY <2>2 DEF Booked, SetInv, Bookmarked
  <2>3. QED
    BY <1>4, <2>1, <2>2, MergeCases DEF SetInv
<1>5. CASE RetrainStep
  BY <1>1, <1>2, <1>5, RetrainCases DEF SetInv, Retrained
<1>6. QED
  BY <1>3, <1>4, <1>5, NextParts DEF MergingStep, SetInv

\* As long as no two merges overlap and none dies in its write, what the volume rule
\* counts is counted until a retrain is saved, however many fail or crash before it.
THEOREM VolumeCountKept == Spec => VolumeKeepsCount
<1>1. SetInv /\ [Next]_vars =>
         [~overlapped' /\ torn' = 0 /\ UnseenRows' < UnseenRows => merger[Worker].pc = "save"]_vars
  BY CountKept
<1>2. QED
  BY SetInvAlways, <1>1, PTL DEF Spec, VolumeKeepsCount

----------------------------------------------------------------------------
(* The consumer implements FeedbackStore                                   *)

Keys == SUBSET Messages

\* How many of the oldest keys of the log are forgotten.
Forgotten(keys) == IF Len(keys) > Capacity THEN Len(keys) - Capacity ELSE 0

LEMMA RecentEffect ==
    ASSUME NEW S, NEW s \in Seq(S)
    PROVE  /\ Forgotten(s) \in Nat /\ Forgotten(s) <= Len(s)
           /\ Recent(s) \in Seq(S)
           /\ Len(Recent(s)) = Len(s) - Forgotten(s)
           /\ \A i \in 1 .. Len(s) - Forgotten(s) : Recent(s)[i] = s[i + Forgotten(s)]
<1> DEFINE n == Len(s)
           d == Forgotten(s)
<1>1. n \in Nat /\ Capacity \in Nat \ {0}
  BY LenProperties, FeedbackAssumption
<1>2. d \in Nat /\ d <= n /\ Recent(s) = SubSeq(s, d + 1, n)
  BY <1>1 DEF Forgotten, Recent
<1> HIDE DEF d
<1>3. \A i \in d + 1 .. n : s[i] \in S
  BY <1>1, <1>2, ElementOfSeq
<1>4. /\ SubSeq(s, d + 1, n) \in Seq(S)
      /\ Len(SubSeq(s, d + 1, n)) = IF d + 1 <= n THEN n - (d + 1) + 1 ELSE 0
      /\ \A i \in 1 .. n - (d + 1) + 1 : SubSeq(s, d + 1, n)[i] = s[d + 1 + i - 1]
  BY <1>1, <1>2, <1>3, SubSeqProperties
<1>5. QED
  BY <1>1, <1>2, <1>4 DEF d

\* Reading the log back and then remembering a key gives what remembering it gave before
\* the crash: what is forgotten of the log is forgotten in the same order.
LEMMA RecentOfRecent ==
    ASSUME NEW S, NEW s \in Seq(S), NEW k \in S
    PROVE  Recent(Append(Recent(s), k)) = Recent(Append(s, k))
<1> DEFINE r == Recent(s)
           long == Append(s, k)
           short == Append(r, k)
<1>1. /\ Len(s) \in Nat /\ Capacity \in Nat \ {0}
      /\ r \in Seq(S) /\ Len(r) = Len(s) - Forgotten(s)
      /\ \A i \in 1 .. Len(s) - Forgotten(s) : r[i] = s[i + Forgotten(s)]
      /\ Forgotten(s) \in Nat /\ Forgotten(s) <= Len(s)
  BY LenProperties, FeedbackAssumption, RecentEffect
<1> HIDE DEF r
<1>2. /\ long \in Seq(S) /\ Len(long) = Len(s) + 1
      /\ \A i \in 1 .. Len(s) : long[i] = s[i]
      /\ long[Len(s) + 1] = k
  BY AppendProperties
<1>3. /\ short \in Seq(S) /\ Len(short) = Len(r) + 1
      /\ \A i \in 1 .. Len(r) : short[i] = r[i]
      /\ short[Len(r) + 1] = k
  BY <1>1, AppendProperties
<1> HIDE DEF long, short
<1>4. \A i \in 1 .. Len(short) : short[i] = long[i + Forgotten(s)]
  <2> SUFFICES ASSUME NEW i \in 1 .. Len(short) PROVE short[i] = long[i + Forgotten(s)]
    OBVIOUS
  <2>1. CASE i = Len(r) + 1
    BY <1>1, <1>2, <1>3, <2>1
  <2>2. CASE i # Len(r) + 1
    <3>1. i \in 1 .. Len(r) /\ i + Forgotten(s) \in 1 .. Len(s)
      BY <1>1, <1>3, <2>2
    <3>2. QED
      BY <1>1, <1>2, <1>3, <3>1
  <2>3. QED
    BY <2>1, <2>2
<1>5. Forgotten(long) = Forgotten(short) + Forgotten(s)
  <2>1. CASE Len(s) > Capacity
    <3>1. Forgotten(s) = Len(s) - Capacity
      BY <2>1 DEF Forgotten
    <3>2. Len(long) > Capacity /\ Len(short) = Capacity + 1
      BY <1>1, <1>2, <1>3, <2>1, <3>1
    <3>3. Forgotten(long) = Len(long) - Capacity /\ Forgotten(short) = Len(short) - Capacity
      BY <1>1, <3>2 DEF Forgotten
    <3>4. QED
      BY <1>1, <1>2, <3>1, <3>2, <3>3
  <2>2. CASE ~(Len(s) > Capacity)
    <3>1. Forgotten(s) = 0
      BY <2>2 DEF Forgotten
    <3>2. Len(long) = Len(short)
      BY <1>1, <1>2, <1>3, <3>1
    <3>3. Forgotten(long) = Forgotten(short)
      BY <3>2 DEF Forgotten
    <3>4. Forgotten(short) \in Nat
      BY <1>3, RecentEffect
    <3>5. QED
      BY <3>1, <3>3, <3>4
  <2>3. QED
    BY <2>1, <2>2
<1>6. /\ Recent(short) \in Seq(S) /\ Recent(long) \in Seq(S)
      /\ Len(Recent(short)) = Len(short) - Forgotten(short)
      /\ Len(Recent(long)) = Len(long) - Forgotten(long)
      /\ \A i \in 1 .. Len(short) - Forgotten(short) : Recent(short)[i] = short[i + Forgotten(short)]
      /\ \A i \in 1 .. Len(long) - Forgotten(long) : Recent(long)[i] = long[i + Forgotten(long)]
      /\ Forgotten(short) \in Nat /\ Forgotten(long) \in Nat
      /\ Forgotten(short) <= Len(short)
  BY <1>2, <1>3, RecentEffect
<1>7. Len(Recent(short)) = Len(Recent(long))
  <2>1. /\ Len(long) = Len(s) + 1
        /\ Len(short) = Len(s) - Forgotten(s) + 1
        /\ Forgotten(s) \in Nat /\ Forgotten(short) \in Nat /\ Len(s) \in Nat
    BY <1>1, <1>2, <1>3, <1>6
  <2>2. QED
    BY <1>5, <1>6, <2>1
<1>8. \A i \in 1 .. Len(Recent(short)) : Recent(short)[i] = Recent(long)[i]
  <2> SUFFICES ASSUME NEW i \in 1 .. Len(Recent(short)) PROVE Recent(short)[i] = Recent(long)[i]
    OBVIOUS
  <2>1. i + Forgotten(short) \in 1 .. Len(short)
    <3>1. Len(short) \in Nat /\ i \in 1 .. Len(short) - Forgotten(short)
      BY <1>3, <1>6, LenProperties
    <3>2. QED
      BY <1>6, <3>1
  <2>2. Recent(short)[i] = long[i + Forgotten(short) + Forgotten(s)]
    BY <1>1, <1>3, <1>4, <1>6, <2>1
  <2>3. Recent(long)[i] = long[i + Forgotten(long)]
    BY <1>1, <1>2, <1>6, <1>7
  <2>4. i + Forgotten(short) + Forgotten(s) = i + Forgotten(long)
    BY <1>1, <1>5, <1>6
  <2>5. QED
    BY <2>2, <2>3, <2>4
<1>9. Recent(short) = Recent(long)
  BY <1>6, <1>7, <1>8, SeqEqual
<1>10. QED
  BY <1>9 DEF long, short, r

\* The key that was appended last is remembered.
LEMMA LastIsRecent ==
    ASSUME NEW S, NEW s \in Seq(S), NEW k \in S
    PROVE  k \in Range(Recent(Append(s, k)))
<1> DEFINE long == Append(s, k)
<1>1. long \in Seq(S) /\ Len(long) = Len(s) + 1 /\ long[Len(s) + 1] = k /\ Len(s) \in Nat
  BY AppendProperties, LenProperties
<1> HIDE DEF long
<1>2. Forgotten(long) <= Len(s)
  BY <1>1, FeedbackAssumption DEF Forgotten
<1>3. /\ Forgotten(long) \in Nat /\ Recent(long) \in Seq(S)
      /\ Len(Recent(long)) = Len(long) - Forgotten(long)
      /\ \A i \in 1 .. Len(long) - Forgotten(long) : Recent(long)[i] = long[i + Forgotten(long)]
  BY <1>1, RecentEffect
<1>4. Len(long) - Forgotten(long) \in DOMAIN Recent(long)
  BY <1>1, <1>2, <1>3, LenProperties
<1>5. Recent(long)[Len(long) - Forgotten(long)] = k
  BY <1>1, <1>2, <1>3
<1>6. QED
  BY <1>4, <1>5 DEF Range, long

\* The key of r is among those a consumer that starts now would remember.
Remembered(r) == KeyOf(r) \in Range(Recent(seen))

\* A running consumer remembers what the log would give back; between its steps it
\* holds the message at the committed offset, whose file is there before its key,
\* and whose key is there before the offset moves on.
ConsumerInv ==
    /\ direct => buffer = <<>> /\ topic = <<>>
    /\ seen \in Seq(Keys)
    /\ consumer # "down" => memory = Recent(seen)
    /\ consumer \in {"remember", "commit"} => committed < Len(topic)
    /\ consumer = "remember" => Message \in files \cap Records /\ ~Remembered(Message)
    /\ consumer = "commit" => Message \notin Poison /\ (Message \in Foreign \/ Remembered(Message))

\* What FeedbackStore calls a known record.
LEMMA KnownIsRemembered ==
    ASSUME ConsumerInv, NEW r
    PROVE  Store!Known(r) <=> Remembered(r)
<1>1. Recent(seen) \in Seq(Keys)
  BY RecentEffect DEF ConsumerInv
<1>2. DOMAIN Recent(seen) = 1 .. Len(Recent(seen))
  BY <1>1, LenProperties
<1>3. QED
  BY <1>2 DEF Store!Known, Remembered, Range

LEMMA MessageType ==
    ASSUME BusTypes, committed < Len(topic)
    PROVE  /\ Message \in Messages
           /\ KeyOf(Message) \in Keys
           /\ \A m \in Messages :
                 /\ committed < Len(Append(topic, m))
                 /\ Append(topic, m)[committed + 1] = Message
<1>1. committed + 1 \in 1 .. Len(topic) /\ topic \in Seq(Messages) /\ Len(topic) \in Nat
  BY LenProperties DEF BusTypes
<1>2. Message \in Messages
  BY <1>1, ElementOfSeq DEF Message
<1>3. KeyOf(Message) \in Keys
  BY <1>2, FeedbackAssumption DEF KeyOf, Keys, Messages
<1>4. ASSUME NEW m \in Messages
      PROVE  /\ committed < Len(Append(topic, m))
             /\ Append(topic, m)[committed + 1] = Message
  <2>1. /\ Len(Append(topic, m)) = Len(topic) + 1
        /\ \A i \in 1 .. Len(topic) : Append(topic, m)[i] = topic[i]
    BY <1>1, AppendProperties
  <2>2. QED
    BY <1>1, <2>1 DEF Message, BusTypes
<1>5. QED
  BY <1>2, <1>3, <1>4

\* What the step of the consumer, or of those who feed it, is in FeedbackStore.
Mapped == Store!Next \/ UNCHANGED Store!vars

\* A step that moves neither the consumer nor what it reads.
LEMMA ConsumerStays ==
    ASSUME ConsumerInv, UNCHANGED <<direct, topic, sinkVars, files>>, direct => buffer' = buffer
    PROVE  ConsumerInv' /\ Mapped
<1>1. /\ direct' = direct /\ topic' = topic /\ committed' = committed /\ files' = files
      /\ consumer' = consumer /\ memory' = memory /\ seen' = seen
  BY Zenon DEF sinkVars
<1>2. Recent(seen)' = Recent(seen) /\ Message' = Message
  BY <1>1 DEF Recent, Message
<1>3. ConsumerInv'
  BY <1>1, <1>2 DEF ConsumerInv, Remembered
<1>4. UNCHANGED Store!vars
  BY <1>1, <1>2 DEF Store!vars
<1>5. QED
  BY <1>3, <1>4 DEF Mapped

\* A message that arrives comes after the one the consumer holds.
LEMMA TopicGrows ==
    ASSUME BusTypes, ConsumerInv, ~direct, NEW m \in Messages,
           topic' = Append(topic, m), UNCHANGED <<direct, sinkVars, files>>
    PROVE  ConsumerInv' /\ Mapped
<1>1. /\ direct' = direct /\ committed' = committed /\ files' = files
      /\ consumer' = consumer /\ memory' = memory /\ seen' = seen
  BY Zenon DEF sinkVars
<1>2. Recent(seen)' = Recent(seen)
  BY <1>1 DEF Recent
<1>3. committed < Len(topic) => committed' < Len(topic') /\ Message' = Message
  BY <1>1, MessageType DEF Message
<1>4. ConsumerInv'
  BY <1>1, <1>2, <1>3 DEF ConsumerInv, Remembered
<1>5. Store!Append1(m)
  BY <1>1, <1>2 DEF Store!Append1
<1>6. QED
  BY <1>4, <1>5 DEF Mapped, Store!Next, Messages

LEMMA FeedsStore ==
    ASSUME BusTypes, ConsumerInv,
           \/ \E r \in Records : PublishFile(r) \/ PublishKafka(r) \/ ProduceFails(r)
           \/ Delivers \/ DeliveryFails \/ ServiceStops
           \/ \E m \in Foreign \cup Poison : Intrudes(m)
    PROVE  ConsumerInv' /\ Mapped
<1>1. ASSUME NEW r \in Records, PublishFile(r) PROVE ConsumerInv' /\ Mapped
  <2>1. /\ direct /\ topic = <<>> /\ files' = Put(files, r)
        /\ direct' = direct /\ topic' = topic /\ buffer' = buffer
        /\ committed' = committed /\ consumer' = consumer /\ memory' = memory /\ seen' = seen
    BY <1>1 DEF PublishFile, sinkVars, ConsumerInv
  <2>2. Recent(seen)' = Recent(seen)
    BY <2>1 DEF Recent
  <2>3. consumer \notin {"remember", "commit"}
    <3>1. Len(topic) = 0 /\ committed \in Nat
      BY <2>1 DEF BusTypes
    <3>2. QED
      BY <3>1 DEF ConsumerInv
  <2>4. ConsumerInv'
    BY <2>1, <2>2, <2>3 DEF ConsumerInv
  <2>5. Store!WriteDirect(r)
    BY <2>1, <2>2 DEF Store!WriteDirect
  <2>6. QED
    BY <2>4, <2>5 DEF Mapped, Store!Next
<1>2. ASSUME NEW r \in Records, PublishKafka(r) \/ ProduceFails(r) PROVE ConsumerInv' /\ Mapped
  BY <1>2, ConsumerStays DEF PublishKafka, ProduceFails
<1>3. CASE Delivers
  <2>1. Head(buffer) \in Records /\ ~direct
    BY <1>3, HeadTailProperties DEF Delivers, BusTypes, ConsumerInv
  <2>2. Head(buffer) \in Messages
    BY <2>1 DEF Messages
  <2>3. QED
    BY <1>3, <2>1, <2>2, TopicGrows DEF Delivers
<1>4. CASE DeliveryFails \/ ServiceStops
  BY <1>4, ConsumerStays DEF DeliveryFails, ServiceStops, ConsumerInv
<1>5. ASSUME NEW m \in Foreign \cup Poison, Intrudes(m) PROVE ConsumerInv' /\ Mapped
  <2>1. m \in Messages
    BY DEF Messages
  <2>2. QED
    BY <1>5, <2>1, TopicGrows DEF Intrudes
<1>6. QED
  BY <1>1, <1>2, <1>3, <1>4, <1>5

\* The steps of the consumer: starting, rejecting and crashing change nothing that
\* FeedbackStore sees; a record stored again after a crash is one that is not known yet.
LEMMA ConsumesStore ==
    ASSUME BusTypes, ConsumerInv, ConsumerStep \/ ConsumerCrashes
    PROVE  ConsumerInv' /\ Mapped
<1>1. CASE Starts \/ Rejects \/ Raises \/ ConsumerCrashes
  <2>1. /\ direct' = direct /\ topic' = topic /\ buffer' = buffer
        /\ committed' = committed /\ files' = files /\ seen' = seen
    BY <1>1 DEF Starts, Rejects, Raises, ConsumerCrashes, Consumes, busVars
  <2>2. Recent(seen)' = Recent(seen) /\ Message' = Message
    BY <2>1 DEF Recent, Message
  <2>3. UNCHANGED Store!vars
    BY <2>1, <2>2 DEF Store!vars
  <2>4. CASE Rejects
    <3>1. /\ consumer = "poll" /\ consumer' = "commit" /\ memory' = memory
          /\ committed < Len(topic) /\ ~Fresh /\ Message \notin Poison
      BY <2>4 DEF Rejects, Consumes
    <3>2. Message \in Foreign \/ Remembered(Message)
      BY <3>1, MessageType DEF Fresh, Remembered, ConsumerInv, Messages
    <3>3. ConsumerInv'
      BY <2>1, <2>2, <3>1, <3>2 DEF ConsumerInv, Remembered
    <3>4. QED
      BY <2>3, <3>3 DEF Mapped
  <2>5. CASE Starts \/ Raises \/ ConsumerCrashes
    <3>1. /\ consumer' \notin {"remember", "commit"}
          /\ consumer' # "down" => memory' = Recent(seen)
      BY <2>5 DEF Starts, Raises, ConsumerCrashes, Consumes
    <3>2. consumer' # "down" => memory' = Recent(seen)'
      BY <2>2, <3>1
    <3>3. ConsumerInv'
      BY <2>1, <3>1, <3>2 DEF ConsumerInv
    <3>4. QED
      BY <2>3, <3>3 DEF Mapped
  <2>6. QED
    BY <1>1, <2>4, <2>5
<1>2. CASE Stores
  <2>1. /\ consumer = "poll" /\ consumer' = "remember" /\ memory' = memory /\ seen' = seen
        /\ committed < Len(topic) /\ Fresh /\ files' = Put(files, Message)
        /\ direct' = direct /\ topic' = topic /\ buffer' = buffer /\ committed' = committed
    BY <1>2 DEF Stores, Consumes, busVars
  <2>2. Recent(seen)' = Recent(seen) /\ Message' = Message
    BY <2>1 DEF Recent, Message
  <2>3. Message \in Records /\ ~Remembered(Message)
    BY <2>1 DEF Fresh, Remembered, ConsumerInv
  <2>4. Message' \in files'
    BY <2>1, <2>2 DEF Put
  <2>5. ConsumerInv'
    BY <2>1, <2>2, <2>3, <2>4 DEF ConsumerInv, Remembered
  <2>6. Store!Consume
    BY <2>1, <2>2, <2>3, KnownIsRemembered DEF Store!Consume, Store!Store, Message
  <2>7. QED
    BY <2>5, <2>6 DEF Mapped, Store!Next
<1>3. CASE Remembers
  <2> DEFINE k == KeyOf(Message)
  <2>1. /\ consumer = "remember" /\ consumer' = "commit" /\ files' = files
        /\ memory' = Recent(Append(memory, k)) /\ seen' = Append(seen, k)
        /\ direct' = direct /\ topic' = topic /\ buffer' = buffer /\ committed' = committed
    BY <1>3 DEF Remembers, Consumes, busVars
  <2>2. /\ committed < Len(topic) /\ memory = Recent(seen) /\ seen \in Seq(Keys)
        /\ Message \in files \cap Records /\ ~Remembered(Message)
    BY <2>1 DEF ConsumerInv
  <2>3. k \in Keys /\ Message' = Message
    BY <2>1, <2>2, MessageType DEF Message
  <2> HIDE DEF k
  <2>4. Recent(seen)' = Recent(Append(Recent(seen), k)) /\ memory' = Recent(seen)'
    <3>1. Recent(seen)' = Recent(Append(seen, k))
      BY <2>1 DEF Recent
    <3>2. QED
      BY <2>1, <2>2, <2>3, <3>1, RecentOfRecent
  <2>5. Remembered(Message)'
    <3>1. k \in Range(Recent(Append(seen, k)))
      BY <2>2, <2>3, LastIsRecent
    <3>2. Recent(seen)' = Recent(Append(seen, k))
      BY <2>1 DEF Recent
    <3>3. QED
      BY <2>3, <3>1, <3>2 DEF Remembered, k
  <2>6. seen' \in Seq(Keys)
    BY <2>1, <2>2, <2>3, AppendProperties
  <2>7. ConsumerInv'
    <3>1. Message' \notin Poison
      BY <2>2, <2>3, FeedbackAssumption
    <3>2. QED
      BY <2>1, <2>2, <2>4, <2>5, <2>6, <3>1 DEF ConsumerInv
  <2>8. Store!Recent(Append(Recent(seen), k)) = Recent(Append(Recent(seen), k))
    BY DEF Store!Recent, Recent
  <2>9. Store!Consume
    BY <2>1, <2>2, <2>4, <2>8, KnownIsRemembered DEF Store!Consume, Store!Remember, Message, k
  <2>10. QED
    BY <2>7, <2>9 DEF Mapped, Store!Next
<1>4. CASE Commits
  <2>1. /\ consumer = "commit" /\ consumer' = "poll" /\ committed' = committed + 1
        /\ memory' = memory /\ seen' = seen /\ files' = files
        /\ direct' = direct /\ topic' = topic /\ buffer' = buffer
    BY <1>4 DEF Commits, Consumes, busVars
  <2>2. /\ committed < Len(topic) /\ memory = Recent(seen)
        /\ Message \notin Poison /\ (Message \in Foreign \/ Remembered(Message))
    BY <2>1 DEF ConsumerInv
  <2>3. Recent(seen)' = Recent(seen)
    BY <2>1 DEF Recent
  <2>4. ConsumerInv'
    BY <2>1, <2>2, <2>3 DEF ConsumerInv
  <2>5. Store!Consume
    BY <2>1, <2>2, <2>3, KnownIsRemembered DEF Store!Consume, Store!Advance, Message
  <2>6. QED
    BY <2>4, <2>5 DEF Mapped, Store!Next
<1>5. QED
  BY <1>1, <1>2, <1>3, <1>4 DEF ConsumerStep

LEMMA CrashFreeStep ==
    ASSUME BusTypes, ConsumerInv, [Next]_vars
    PROVE  ConsumerInv' /\ Mapped
<1>1. CASE MergingStep \/ UNCHANGED vars
  <2>1. UNCHANGED <<busVars, sinkVars, files>>
    BY <1>1, MergingLeavesBus DEF vars
  <2>2. QED
    BY <2>1, ConsumerStays DEF busVars
<1>2. QED
  BY <1>1, FeedsStore, ConsumesStore DEF Next, MergingStep

\* Whatever is delivered again after a crash of the consumer, at whichever step it died:
\* the files, the remembered keys and the offsets are those of a consumer that
\* never crashes and takes the records in order.
THEOREM ConsumerCrashFree == Spec => CrashFree
<1>1. Init => ConsumerInv /\ Store!Init
  <2> SUFFICES ASSUME Init PROVE ConsumerInv /\ Store!Init
    OBVIOUS
  <2>1. seen = <<>> /\ Recent(<<>>) = <<>> /\ <<>> \in Seq(Keys)
    <3>1. <<>> \in Seq(Keys) /\ Len(<<>>) = 0
      BY EmptySeq
    <3>2. Recent(<<>>) \in Seq(Keys) /\ Len(Recent(<<>>)) = 0
      <4>1. /\ Forgotten(<<>>) \in Nat /\ Forgotten(<<>>) <= Len(<<>>)
            /\ Recent(<<>>) \in Seq(Keys)
            /\ Len(Recent(<<>>)) = Len(<<>>) - Forgotten(<<>>)
        BY <3>1, RecentEffect
      <4>2. QED
        BY <3>1, <4>1
    <3>3. Recent(<<>>) = <<>>
      BY <3>2, EmptySeq
    <3>4. QED
      BY <3>1, <3>3 DEF Init
  <2>2. QED
    BY <2>1 DEF Init, ConsumerInv, Store!Init
<1>2. BusTypes /\ ConsumerInv /\ [Next]_vars => ConsumerInv' /\ [Store!Next]_(Store!vars)
  BY CrashFreeStep DEF Mapped
<1>3. QED
  BY <1>1, <1>2, FeedbackTypes, PTL DEF Spec, CrashFree, Store!Spec
=============================================================================
