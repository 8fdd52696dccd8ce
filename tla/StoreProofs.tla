---------------------------- MODULE StoreProofs ----------------------------
(***************************************************************************)
(* Proofs about EventStore for any number of writers, streams and events.  *)
(* StoreInv is the inductive invariant.  It speaks of the table twice, as  *)
(* it is committed and as the transaction in progress sees it, because a   *)
(* COMMIT turns the second into the first.                                 *)
(***************************************************************************)
EXTENDS EventStore, FiniteSetTheorems, TLAPS

-----------------------------------------------------------------------------
(* What SELECT MAX(sequence_i64) returns: the element no other exceeds.    *)
LEMMA MaxIs ==
  ASSUME NEW S \in SUBSET Nat, NEW m \in S, \A y \in S : y <= m
  PROVE  Max(S) = m
<1>1. \A y \in S : m >= y
  BY Zenon
<1>2. \A x \in S : (\A y \in S : x >= y) => x = m
  OBVIOUS
<1> QED
  BY <1>1, <1>2, Zenon DEF Max

(* The rows of a stream among the first n of a table are finitely many.    *)
LEMMA RowsAreFinite ==
  ASSUME NEW table, NEW n \in Nat, NEW s
  PROVE  /\ IsFiniteSet(RowsUpTo(table, n, s))
         /\ Cardinality(RowsUpTo(table, n, s)) \in Nat
<1>1. IsFiniteSet(1..n)
  BY FS_Interval
<1>2. RowsUpTo(table, n, s) \in SUBSET (1..n)
  BY Zenon DEF RowsUpTo
<1>3. IsFiniteSet(RowsUpTo(table, n, s))
  BY <1>1, <1>2, FS_Subset, Zenon
<1> QED
  BY <1>3, FS_CardinalityType, Zenon

(* In an empty table every stream is at sequence 0.                        *)
LEMMA EmptyTable == WellKept(<<>>)
<1>1. <<>> \in Seq(Event) /\ DOMAIN <<>> = {} /\ Len(<<>>) = 0
  OBVIOUS
<1>2. ASSUME NEW s \in Streams
      PROVE  LastSequence(<<>>, s) = Cardinality(RowsUpTo(<<>>, 0, s))
  <2>1. RowsUpTo(<<>>, 0, s) = {} /\ {j \in DOMAIN <<>> : <<>>[j].stream = s} = {}
    BY DEF RowsUpTo
  <2>2. LastSequence(<<>>, s) = Max({0})
    BY <2>1, Zenon DEF LastSequence
  <2>3. Max({0}) = 0
    BY MaxIs
  <2> QED
    BY <2>1, <2>2, <2>3, FS_EmptySet, Zenon
<1> QED
  BY <1>1, <1>2, Zenon DEF WellKept

(* The columns of a row.                                                   *)
LEMMA RowFields ==
  ASSUME NEW table \in Seq(Event), NEW i \in DOMAIN table
  PROVE  /\ table[i] \in Event /\ table[i].id \in EventIds
         /\ table[i].stream \in Streams /\ table[i].sequence \in Nat
<1>1. table[i] \in Event
  OBVIOUS
<1> QED
  BY <1>1, Zenon DEF Event

(* MAX(sequence_i64) of a stream is a natural number.                      *)
LEMMA LastIsNat ==
  ASSUME NEW table, WellKept(table), NEW s \in Streams
  PROVE  LastSequence(table, s) \in Nat
<1>1. Len(table) \in Nat
  BY DEF WellKept
<1>2. LastSequence(table, s) = Cardinality(RowsUpTo(table, Len(table), s))
  BY Zenon DEF WellKept
<1> QED
  BY <1>1, <1>2, RowsAreFinite, Zenon

(***************************************************************************)
(* insert_prepared at the end of a well-kept table: the stream it goes to  *)
(* grows by one, the other streams do not.                                 *)
(***************************************************************************)
LEMMA LastAfterAppend ==
  ASSUME NEW table, WellKept(table), NEW e \in Event,
         e.sequence = LastSequence(table, e.stream) + 1
  PROVE  /\ LastSequence(Append(table, e), e.stream) = e.sequence
         /\ \A s \in Streams : s # e.stream =>
              LastSequence(Append(table, e), s) = LastSequence(table, s)
<1> DEFINE n == Len(table)
           new == Append(table, e)
           Seqs(t, s) == {t[i].sequence : i \in {j \in DOMAIN t : t[j].stream = s}}
<1>1. /\ table \in Seq(Event) /\ n \in Nat /\ DOMAIN table = 1..n
      /\ DOMAIN new = 1..(n + 1) /\ new[n + 1] = e
      /\ \A i \in 1..n : new[i] = table[i]
  BY DEF WellKept
<1>2. e.stream \in Streams /\ e.sequence \in Nat /\ e.sequence # 0
  BY Zenon DEF Event
<1>3. \A i \in 1..n : table[i].stream = e.stream =>
        table[i].sequence \in Nat /\ table[i].sequence < e.sequence
  <2> SUFFICES ASSUME NEW i \in 1..n, table[i].stream = e.stream
               PROVE  table[i].sequence \in Nat /\ table[i].sequence < e.sequence
    BY Zenon
  <2>1. table[i] \in Event
    BY <1>1
  <2>2. table[i].sequence <= LastSequence(table, e.stream)
    BY <1>1, Zenon DEF WellKept
  <2>3. LastSequence(table, e.stream) = e.sequence - 1
    BY <1>2, LastIsNat
  <2> QED
    BY <1>2, <2>1, <2>2, <2>3 DEF Event
<1>4. LastSequence(new, e.stream) = e.sequence
  <2> DEFINE S == {0} \cup Seqs(new, e.stream)
  <2>1. ASSUME NEW y \in S
        PROVE  y \in Nat /\ y <= e.sequence
    <3>1. CASE y = 0
      BY <1>2, <3>1
    <3>2. CASE y # 0
      <4>1. PICK i \in DOMAIN new : new[i].stream = e.stream /\ y = new[i].sequence
        BY <3>2, Zenon
      <4>2. CASE i = n + 1
        BY <1>1, <1>2, <4>1, <4>2
      <4>3. CASE i \in 1..n
        BY <1>1, <1>2, <1>3, <4>1, <4>3, SMTT(60)
      <4> QED
        BY <1>1, <4>2, <4>3
    <3> QED
      BY <3>1, <3>2, Zenon
  <2>2. e.sequence \in S
    <3>1. n + 1 \in {j \in DOMAIN new : new[j].stream = e.stream}
      BY <1>1
    <3> QED
      BY <1>1, <3>1, Zenon
  <2>3. S \in SUBSET Nat
    BY <2>1, Zenon
  <2> HIDE DEF S
  <2>4. Max(S) = e.sequence
    BY <2>1, <2>2, <2>3, MaxIs, Zenon
  <2> QED
    BY <2>4, Zenon DEF S, LastSequence
<1>5. ASSUME NEW s \in Streams, s # e.stream
      PROVE  LastSequence(new, s) = LastSequence(table, s)
  <2>1. {j \in DOMAIN new : new[j].stream = s} = {j \in DOMAIN table : table[j].stream = s}
    BY <1>1, <1>5
  <2>2. \A j \in {j \in DOMAIN table : table[j].stream = s} : new[j] = table[j]
    BY <1>1, Zenon
  <2>3. Seqs(new, s) = Seqs(table, s)
    BY <2>1, <2>2, Zenon
  <2> QED
    BY <2>3, Zenon DEF LastSequence
<1> QED
  BY <1>4, <1>5, Zenon

(* A row with the next sequence of its stream, caused by an earlier row of *)
(* that stream, keeps the table well kept.                                 *)
LEMMA AppendKeeps ==
  ASSUME NEW table, WellKept(table), NEW e \in Event,
         e.sequence = LastSequence(table, e.stream) + 1,
         e.cause # NoEvent => \E j \in DOMAIN table :
           table[j].id = e.cause /\ table[j].stream = e.stream
  PROVE  WellKept(Append(table, e))
<1> DEFINE n == Len(table)
           new == Append(table, e)
<1>1. /\ table \in Seq(Event) /\ n \in Nat /\ DOMAIN table = 1..n
      /\ new \in Seq(Event) /\ DOMAIN new = 1..(n + 1) /\ Len(new) = n + 1
      /\ new[n + 1] = e /\ \A i \in 1..n : new[i] = table[i]
  BY DEF WellKept
<1>2. e.stream \in Streams /\ e.sequence \in Nat /\ e.sequence # 0
  BY Zenon DEF Event
<1>3. /\ LastSequence(new, e.stream) = e.sequence
      /\ \A s \in Streams : s # e.stream => LastSequence(new, s) = LastSequence(table, s)
  BY LastAfterAppend, Zenon
<1>4. \A s \in Streams : LastSequence(table, s) \in Nat
  BY LastIsNat, Zenon
<1>5. \A s \in Streams : LastSequence(table, s) = Cardinality(RowsUpTo(table, n, s))
  BY Zenon DEF WellKept
<1> HIDE DEF n, new
<1>6. ASSUME NEW s \in Streams
      PROVE  LastSequence(new, s) = Cardinality(RowsUpTo(new, n + 1, s))
  <2>1. CASE s # e.stream
    <3>1. RowsUpTo(new, n + 1, s) = RowsUpTo(table, n, s)
      BY <1>1, <2>1 DEF RowsUpTo
    <3> QED
      BY <1>3, <1>5, <2>1, <3>1, Zenon
  <2>2. CASE s = e.stream
    <3>1. /\ RowsUpTo(new, n + 1, s) = RowsUpTo(table, n, s) \cup {n + 1}
          /\ n + 1 \notin RowsUpTo(table, n, s)
      BY <1>1, <2>2 DEF RowsUpTo
    <3>2. IsFiniteSet(RowsUpTo(table, n, s))
      BY <1>1, RowsAreFinite, Zenon
    <3>3. Cardinality(RowsUpTo(new, n + 1, s)) = Cardinality(RowsUpTo(table, n, s)) + 1
      BY <3>1, <3>2, FS_AddElement, Zenon
    <3> QED
      BY <1>3, <1>5, <2>2, <3>3, Zenon
  <2> QED
    BY <2>1, <2>2, Zenon
<1>7. ASSUME NEW i \in DOMAIN new
      PROVE  /\ new[i].sequence = Cardinality(RowsUpTo(new, i, new[i].stream))
             /\ new[i].sequence <= LastSequence(new, new[i].stream)
             /\ new[i].cause # NoEvent =>
                  \E j \in 1..(i - 1) :
                    new[j].id = new[i].cause /\ new[j].stream = new[i].stream
  <2>1. CASE i = n + 1
    <3>1. new[i] = e /\ 1..(i - 1) = DOMAIN table
      BY <1>1, <2>1
    <3>2. new[i].sequence = Cardinality(RowsUpTo(new, i, new[i].stream))
      BY <1>2, <1>3, <1>6, <2>1, <3>1, Zenon
    <3>3. new[i].sequence <= LastSequence(new, new[i].stream)
      BY <1>2, <1>3, <3>1
    <3>4. new[i].cause # NoEvent =>
            \E j \in 1..(i - 1) :
              new[j].id = new[i].cause /\ new[j].stream = new[i].stream
      BY <1>1, <3>1, Zenon
    <3> QED
      BY <3>2, <3>3, <3>4, Zenon
  <2>2. CASE i \in 1..n
    <3>1. new[i] = table[i] /\ table[i] \in Event
      BY <1>1, <2>2
    <3>2. table[i].stream \in Streams /\ table[i].sequence \in Nat
      BY <3>1, Zenon DEF Event
    <3>3. /\ table[i].sequence = Cardinality(RowsUpTo(table, i, table[i].stream))
          /\ table[i].sequence <= LastSequence(table, table[i].stream)
          /\ table[i].cause # NoEvent =>
               \E j \in 1..(i - 1) :
                 table[j].id = table[i].cause /\ table[j].stream = table[i].stream
      BY <1>1, <2>2, Zenon DEF WellKept
    <3>4. RowsUpTo(new, i, table[i].stream) = RowsUpTo(table, i, table[i].stream)
      BY <1>1, <2>2 DEF RowsUpTo
    <3>5. table[i].sequence <= LastSequence(new, table[i].stream)
      BY <1>2, <1>3, <1>4, <3>2, <3>3
    <3>6. \A j \in 1..(i - 1) : new[j] = table[j]
      BY <1>1, <2>2
    <3> QED
      BY <3>1, <3>3, <3>4, <3>5, <3>6, Zenon
  <2> QED
    BY <1>1, <1>7, <2>1, <2>2
<1> QED
  BY <1>1, <1>6, <1>7, Zenon DEF WellKept, new

-----------------------------------------------------------------------------
(* An empty store satisfies the invariant.                                 *)
LEMMA StoreInitInv == StoreInit => StoreInv
<1> SUFFICES ASSUME StoreInit PROVE StoreInv
  BY Zenon
<1>1. rows = <<>> /\ staged = <<>> /\ Visible = <<>> /\ DOMAIN rows = {}
  BY DEF StoreInit, Visible
<1>2. StoreTypeOK
  BY DEF StoreInit, StoreTypeOK
<1>3. TableInv
  BY <1>1, EmptyTable, Zenon DEF TableInv, UniqueIds
<1>4. PlanInv
  BY DEF StoreInit, PlanInv, PlanFollows
<1>5. TransactionInv
  BY Zenon DEF StoreInit, TransactionInv
<1>6. PairsAreWhole /\ AnswerInv
  BY <1>1, Zenon DEF StoreInit, PairsAreWhole, AnswerInv, Conflicts
<1> QED
  BY <1>2, <1>3, <1>4, <1>5, <1>6, Zenon DEF StoreInv

(* A new plan for a writer outside the transaction, with nothing answered  *)
(* yet, keeps the invariant when it continues the committed rows.          *)
LEMMA NewPlanInv ==
  ASSUME StoreInv, NEW w \in Writers, answer[w] # "pending",
         NEW p, PlanFollows(rows, p),
         plan' = [plan EXCEPT ![w] = p],
         answer' = [answer EXCEPT ![w] = "pending"],
         UNCHANGED <<rows, holder, staged>>
  PROVE  StoreInv'
<1>1. /\ rows' = rows /\ staged' = staged /\ holder' = holder /\ Visible' = Visible
      /\ plan'[w] = p /\ answer'[w] = "pending"
      /\ \A v \in Writers : v # w => plan'[v] = plan[v] /\ answer'[v] = answer[v]
  BY Zenon DEF StoreInv, StoreTypeOK, Visible
<1>2. StoreTypeOK'
  BY Zenon DEF StoreInv, StoreTypeOK, PlanFollows
<1>3. TableInv'
  BY <1>1, Zenon DEF StoreInv, TableInv, UniqueIds
<1>4. PlanInv'
  BY <1>1, Zenon DEF StoreInv, PlanInv
<1>5. TransactionInv'
  <2>1. holder # w
    BY StoreAssumption, Zenon DEF StoreInv, TransactionInv
  <2>2. holder # NoWriter => plan'[holder] = plan[holder] /\ answer'[holder] = answer[holder]
    BY <1>1, <2>1, Zenon DEF StoreInv, StoreTypeOK
  <2> QED
    BY <1>1, <2>2 DEF StoreInv, TransactionInv, IdTaken
<1>6. PairsAreWhole'
  BY <1>1 DEF StoreInv, PairsAreWhole
<1>7. AnswerInv'
  BY <1>1 DEF StoreInv, AnswerInv, Conflicts, Stored
<1> QED
  BY <1>2, <1>3, <1>4, <1>5, <1>6, <1>7, Zenon DEF StoreInv

(* PreparedEvent for a single append: the next sequence, and a cause among *)
(* the committed rows.                                                     *)
LEMMA PlanAppendInv ==
  ASSUME StoreInv, NEW w \in Writers, NEW id \in EventIds, NEW s \in Streams,
         PlanAppend(w, id, s)
  PROVE  StoreInv'
<1>1. PICK cause \in {NoEvent} \cup Newest(rows) :
        plan' = [plan EXCEPT ![w] = <<Planned(rows, id, s, cause, NoEvent)>>]
  BY Zenon DEF PlanAppend
<1> DEFINE e == Planned(rows, id, s, cause, NoEvent)
<1>2. LastSequence(rows, s) \in Nat /\ rows \in Seq(Event)
  BY LastIsNat, Zenon DEF StoreInv, TableInv, WellKept
<1>3. cause = NoEvent \/ \E j \in DOMAIN rows : rows[j].id = cause
  BY <1>1, Zenon DEF Newest
<1>4. cause \in EventIds \cup {NoEvent}
  <2>1. \A j \in DOMAIN rows : rows[j].id \in EventIds
    BY <1>2, RowFields, Zenon
  <2> QED
    BY <1>3, <2>1, Zenon
<1>5. /\ e \in Event /\ e.partner = NoEvent /\ e.cause = cause
      /\ e.sequence = LastSequence(rows, e.stream) + 1
  BY <1>2, <1>4 DEF Planned, Event
<1> HIDE DEF e
<1>6. PlanFollows(rows, <<e>>)
  BY <1>2, <1>3, <1>5 DEF PlanFollows, SecondInStream, Event
<1> QED
  BY <1>1, <1>6, NewPlanInv, Zenon DEF PlanAppend, e

(* PreparedEvents for append_atomic_pair: partners of each other, the      *)
(* second one continuing the first when they go to the same stream.        *)
LEMMA PlanPairInv ==
  ASSUME StoreInv, NEW w \in Writers, NEW id1 \in EventIds, NEW s1 \in Streams,
         NEW id2 \in EventIds, NEW s2 \in Streams, PlanPair(w, id1, s1, id2, s2)
  PROVE  StoreInv'
<1> DEFINE first == Planned(rows, id1, s1, NoEvent, id2)
           second == Planned(Append(rows, first), id2, s2,
                             IF s1 = s2 THEN id1 ELSE NoEvent, id1)
<1>1. LastSequence(rows, s1) \in Nat /\ LastSequence(rows, s2) \in Nat /\ WellKept(rows)
  BY LastIsNat, Zenon DEF StoreInv, TableInv
<1>2. /\ first \in Event /\ first.stream = s1 /\ first.cause = NoEvent
      /\ first.sequence = LastSequence(rows, s1) + 1
      /\ first.id = id1 /\ first.partner = id2
  BY <1>1 DEF Planned, Event
<1> HIDE DEF first
<1>3. LastSequence(Append(rows, first), s2) =
        IF s1 = s2 THEN first.sequence ELSE LastSequence(rows, s2)
  BY <1>1, <1>2, LastAfterAppend, Zenon
<1>4. /\ second \in Event /\ second.stream = s2
      /\ second.cause = IF s1 = s2 THEN id1 ELSE NoEvent
      /\ second.sequence =
           IF s1 = s2 THEN first.sequence + 1 ELSE LastSequence(rows, s2) + 1
      /\ second.id = id2 /\ second.partner = id1
  BY <1>1, <1>2, <1>3 DEF Planned, Event
<1> HIDE DEF second
<1>5. PlanFollows(rows, <<first, second>>)
  <2> DEFINE p == <<first, second>>
  <2>1. p \in Seq(Event) /\ Len(p) = 2 /\ p[1] = first /\ p[2] = second /\ DOMAIN p = {1, 2}
    BY <1>2, <1>4
  <2>2. id1 # id2
    BY Zenon DEF PlanPair
  <2> HIDE DEF p
  <2>3. \A i \in DOMAIN p :
          IF SecondInStream(p, i)
            THEN p[i].sequence = p[1].sequence + 1 /\ p[i].cause = p[1].id
            ELSE /\ p[i].sequence <= LastSequence(rows, p[i].stream) + 1
                 /\ p[i].cause = NoEvent
    BY <1>1, <1>2, <1>4, <2>1, SMTT(60) DEF SecondInStream
  <2>4. p[1].id # p[2].id /\ p[1].partner = p[2].id /\ p[2].partner = p[1].id
    BY <1>2, <1>4, <2>1, <2>2, Zenon
  <2>5. PlanFollows(rows, p)
    BY <2>1, <2>3, <2>4 DEF PlanFollows
  <2> QED
    BY <2>5, Zenon DEF p
<1>6. /\ answer[w] # "pending" /\ plan' = [plan EXCEPT ![w] = <<first, second>>]
      /\ answer' = [answer EXCEPT ![w] = "pending"] /\ UNCHANGED <<rows, holder, staged>>
  BY Zenon DEF PlanPair, first, second
<1> QED
  BY <1>5, <1>6, NewPlanInv, Zenon

-----------------------------------------------------------------------------
(* A refused or acknowledged attempt changes no row: the invariant needs   *)
(* only what the answer says.                                              *)
LEMMA AnsweredInv ==
  ASSUME StoreInv, NEW w \in Writers, NEW a,
         a = "pending" \/ a = "AlreadyCommitted" \/ a \in Conflicts,
         answer[w] = "pending",
         answer' = [answer EXCEPT ![w] = a],
         UNCHANGED <<rows, plan>>, staged' = <<>>, holder' = NoWriter,
         a = "AlreadyCommitted" => \A i \in DOMAIN plan[w] : Stored(plan[w][i]),
         a \in Conflicts => \E i \in DOMAIN plan[w] : Refuted(rows, plan[w][i])
  PROVE  StoreInv'
<1>1. /\ rows' = rows /\ plan' = plan /\ staged' = <<>> /\ holder' = NoWriter
      /\ rows \in Seq(Event) /\ rows \o <<>> = rows /\ Visible' = rows
      /\ answer'[w] = a /\ \A v \in Writers : v # w => answer'[v] = answer[v]
  BY DEF StoreInv, StoreTypeOK, TableInv, WellKept, Visible
<1>2. StoreTypeOK'
  BY <1>1, SMTT(60) DEF StoreInv, StoreTypeOK
<1>3. TableInv'
  BY <1>1, Zenon DEF StoreInv, TableInv, UniqueIds
<1>4. PlanInv'
  BY <1>1, Zenon DEF StoreInv, PlanInv
<1>5. TransactionInv'
  BY <1>1, Zenon DEF TransactionInv
<1>6. PairsAreWhole'
  BY <1>1 DEF StoreInv, PairsAreWhole, Conflicts
<1>7. AnswerInv'
  BY <1>1 DEF StoreInv, AnswerInv, Conflicts, Stored
<1> QED
  BY <1>2, <1>3, <1>4, <1>5, <1>6, <1>7, Zenon DEF StoreInv

(* check_prepared_idempotency never reports DatabaseCorrupt, and its other *)
(* answers mean what they say: if one event of a pair is stored, then its  *)
(* partner's identifier is taken too.                                      *)
LEMMA IdempotencyAnswers ==
  ASSUME StoreInv, NEW w \in Writers
  PROVE  LET a == Idempotency(plan[w]) IN
         /\ a \in {"IdempotencyConflict", "AlreadyCommitted", "absent"}
         /\ a = "AlreadyCommitted" => \A i \in DOMAIN plan[w] : Stored(plan[w][i])
         /\ a = "IdempotencyConflict" => \E i \in DOMAIN plan[w] : Refuted(rows, plan[w][i])
         /\ a = "absent" => \A i \in DOMAIN plan[w] : ~IdTaken(plan[w][i])
<1> DEFINE p == plan[w]
           Clash == \E i \in DOMAIN p : IdTaken(p[i]) /\ ~Stored(p[i])
           All == \A i \in DOMAIN p : Stored(p[i])
           Some == \E i \in DOMAIN p : Stored(p[i])
<1>1. \A e : Stored(e) => IdTaken(e)
  BY Zenon DEF Stored, IdTaken
<1>2. Clash => \E i \in DOMAIN p : Refuted(rows, p[i])
  BY Zenon DEF Refuted, IdTaken, Stored
<1>3. ~Clash /\ Some => All
  <2> SUFFICES ASSUME ~Clash, NEW i \in DOMAIN p, Stored(p[i]), NEW k \in DOMAIN p, k # i
               PROVE  IdTaken(p[k])
    BY Zenon
  <2>1. PlanFollows(rows, p)
    BY Zenon DEF StoreInv, PlanInv
  <2>2. p[i].partner = p[k].id
    <3>1. Len(p) \in Nat /\ Len(p) <= 2 /\ DOMAIN p = 1..Len(p)
      BY <2>1 DEF PlanFollows
    <3> HIDE DEF p
    <3>2. Len(p) = 2 /\ ((i = 1 /\ k = 2) \/ (i = 2 /\ k = 1))
      BY <3>1, SMTT(60)
    <3> QED
      BY <2>1, <3>2, Zenon DEF PlanFollows
  <2>3. p[k].id # NoEvent
    BY <2>1, RowFields, StoreAssumption, Zenon DEF PlanFollows
  <2>4. PICK j \in DOMAIN rows : rows[j] = p[i]
    BY Zenon DEF Stored
  <2>5. \E l \in DOMAIN rows : rows[l].id = rows[j].partner
    BY <2>2, <2>3, <2>4, Zenon DEF StoreInv, PairsAreWhole
  <2> QED
    BY <2>2, <2>4, <2>5, Zenon DEF IdTaken
<1>4. Idempotency(p) = IF Clash THEN "IdempotencyConflict"
                       ELSE IF All THEN "AlreadyCommitted"
                       ELSE IF Some THEN "DatabaseCorrupt" ELSE "absent"
  BY Zenon DEF Idempotency
<1>5. ~Clash /\ ~All /\ ~Some => \A i \in DOMAIN p : ~IdTaken(p[i])
  BY Zenon
<1>6. (All => \A i \in DOMAIN p : Stored(p[i]))
  BY Zenon
<1> HIDE DEF Clash, All, Some
<1> QED
  BY <1>2, <1>3, <1>4, <1>5, <1>6, Zenon

(* BEGIN IMMEDIATE: a retry is answered, anything new takes the lock.      *)
LEMMA BeginInv ==
  ASSUME StoreInv, NEW w \in Writers, NEW delivered \in BOOLEAN, Begin(w, delivered)
  PROVE  StoreInv'
<1>1. /\ answer[w] = "pending" /\ holder = NoWriter /\ staged = <<>>
      /\ UNCHANGED <<rows, plan, staged>>
  BY Zenon DEF Begin, StoreInv, TransactionInv
<1>2. CASE Idempotency(plan[w]) = "absent"
  <2>1. holder' = w /\ answer' = answer
    BY <1>2, Zenon DEF Begin
  <2>2. \A i \in DOMAIN plan[w] : ~IdTaken(plan[w][i])
    BY <1>2, IdempotencyAnswers, Zenon
  <2>3. rows' = rows /\ plan' = plan /\ staged' = staged /\ Visible' = Visible
    BY <1>1, Zenon DEF Visible
  <2>4. StoreTypeOK'
    BY <2>1, <2>3, Zenon DEF StoreInv, StoreTypeOK
  <2>5. TableInv'
    BY <2>3, Zenon DEF StoreInv, TableInv, UniqueIds
  <2>6. PlanInv'
    BY <2>3, Zenon DEF StoreInv, PlanInv
  <2>7. TransactionInv'
    <3>1. w # NoWriter
      BY StoreAssumption, Zenon
    <3>2. plan[w] \in Seq(Event)
      BY Zenon DEF StoreInv, StoreTypeOK
    <3> QED
      BY <1>1, <2>1, <2>2, <2>3, <3>1, <3>2 DEF TransactionInv, IdTaken
  <2>8. PairsAreWhole'
    BY <2>1, <2>3, Zenon DEF StoreInv, PairsAreWhole
  <2>9. AnswerInv'
    BY <2>1, <2>3 DEF StoreInv, AnswerInv, Stored
  <2> QED
    BY <2>4, <2>5, <2>6, <2>7, <2>8, <2>9, Zenon DEF StoreInv
<1>3. CASE Idempotency(plan[w]) # "absent"
  <2> DEFINE a == IF delivered THEN Idempotency(plan[w]) ELSE "pending"
  <2>1. holder' = NoWriter /\ staged' = <<>> /\ answer' = [answer EXCEPT ![w] = a]
    BY <1>1, <1>3, Zenon DEF Begin, Deliver
  <2>2. /\ a = "pending" \/ a = "AlreadyCommitted" \/ a \in Conflicts
        /\ a = "AlreadyCommitted" => \A i \in DOMAIN plan[w] : Stored(plan[w][i])
        /\ a \in Conflicts => \E i \in DOMAIN plan[w] : Refuted(rows, plan[w][i])
    BY <1>3, IdempotencyAnswers, Zenon DEF Conflicts
  <2> HIDE DEF a
  <2> QED
    BY <1>1, <2>1, <2>2, AnsweredInv, Zenon
<1> QED
  BY <1>2, <1>3, Zenon

(* ROLLBACK, an I/O error or the death of the writer: the rows inserted    *)
(* are gone and the writer has no answer.                                  *)
LEMMA RollBackInv ==
  ASSUME StoreInv, NEW w \in Writers, RollBack(w)
  PROVE  StoreInv'
<1>1. answer[w] = "pending" /\ answer' = [answer EXCEPT ![w] = "pending"]
  BY StoreAssumption, Zenon DEF RollBack, StoreInv, TransactionInv, StoreTypeOK
<1> QED
  BY <1>1, AnsweredInv, Zenon DEF RollBack, Conflicts

(* The reads leave the table, the plans and the answers alone.             *)
LEMMA ReadInv ==
  ASSUME StoreInv, UNCHANGED <<rows, plan, answer, holder, staged>>
  PROVE  StoreInv'
<1>1. /\ rows' = rows /\ plan' = plan /\ answer' = answer /\ holder' = holder
      /\ staged' = staged /\ Visible' = Visible
  BY Zenon DEF Visible
<1>2. StoreTypeOK'
  BY <1>1, Zenon DEF StoreInv, StoreTypeOK
<1>3. TableInv'
  BY <1>1, Zenon DEF StoreInv, TableInv, UniqueIds
<1>4. PlanInv'
  BY <1>1, Zenon DEF StoreInv, PlanInv
<1>5. TransactionInv'
  BY <1>1, Zenon DEF StoreInv, TransactionInv, IdTaken
<1>6. PairsAreWhole'
  BY <1>1 DEF StoreInv, PairsAreWhole
<1>7. AnswerInv'
  BY <1>1 DEF StoreInv, AnswerInv, Stored
<1> QED
  BY <1>2, <1>3, <1>4, <1>5, <1>6, <1>7, Zenon DEF StoreInv

-----------------------------------------------------------------------------
(***************************************************************************)
(* What the transaction sees: the committed rows, then its own.            *)
(***************************************************************************)
LEMMA VisibleRows ==
  ASSUME StoreInv
  PROVE  /\ rows \in Seq(Event) /\ staged \in Seq(Event) /\ Visible \in Seq(Event)
         /\ Len(rows) \in Nat /\ Len(staged) \in Nat
         /\ Len(Visible) = Len(rows) + Len(staged)
         /\ DOMAIN rows = 1..Len(rows) /\ DOMAIN staged = 1..Len(staged)
         /\ DOMAIN Visible = 1..(Len(rows) + Len(staged))
         /\ \A i \in 1..Len(rows) : Visible[i] = rows[i]
         /\ \A i \in 1..Len(staged) : Visible[Len(rows) + i] = staged[i]
         /\ \A i \in 1..(Len(rows) + Len(staged)) :
              i \in 1..Len(rows) \/ \E k \in 1..Len(staged) : i = Len(rows) + k
<1>1. rows \in Seq(Event) /\ staged \in Seq(Event)
  BY Zenon DEF StoreInv, StoreTypeOK, TableInv, WellKept
<1>2. /\ Visible \in Seq(Event) /\ Len(Visible) = Len(rows) + Len(staged)
      /\ \A i \in 1..Len(rows) + Len(staged) :
           Visible[i] = IF i <= Len(rows) THEN rows[i] ELSE staged[i - Len(rows)]
  BY <1>1 DEF Visible
<1>3. Len(rows) \in Nat /\ Len(staged) \in Nat
  BY <1>1
<1>4. \A i \in 1..(Len(rows) + Len(staged)) :
        i \in 1..Len(rows) \/ \E k \in 1..Len(staged) : i = Len(rows) + k
  <2> SUFFICES ASSUME NEW i \in 1..(Len(rows) + Len(staged)), i \notin 1..Len(rows)
               PROVE  i - Len(rows) \in 1..Len(staged) /\ i = Len(rows) + (i - Len(rows))
    BY Zenon
  <2> QED
    BY <1>3
<1>5. /\ \A i \in 1..Len(rows) : Visible[i] = rows[i]
      /\ \A i \in 1..Len(staged) : Visible[Len(rows) + i] = staged[i]
  BY <1>2, <1>3, SMTT(60)
<1> QED
  BY <1>1, <1>2, <1>3, <1>4, <1>5, SMTT(60)

(* Inserting does not lower MAX(sequence_i64) of any stream.               *)
LEMMA LastGrows ==
  ASSUME StoreInv, NEW s \in Streams
  PROVE  /\ LastSequence(rows, s) \in Nat /\ LastSequence(Visible, s) \in Nat
         /\ LastSequence(rows, s) <= LastSequence(Visible, s)
<1>1. WellKept(rows) /\ WellKept(Visible)
  BY Zenon DEF StoreInv, TableInv
<1> DEFINE A == RowsUpTo(rows, Len(rows), s)
           B == RowsUpTo(Visible, Len(Visible), s)
<1>2. A \in SUBSET B
  BY VisibleRows DEF RowsUpTo
<1>3. IsFiniteSet(B)
  BY VisibleRows, RowsAreFinite, SMTT(60)
<1>4. LastSequence(rows, s) = Cardinality(A) /\ LastSequence(Visible, s) = Cardinality(B)
  BY <1>1, Zenon DEF WellKept
<1> HIDE DEF A, B
<1>5. Cardinality(A) <= Cardinality(B)
  BY <1>2, <1>3, FS_Subset, Zenon
<1> QED
  BY <1>1, <1>4, <1>5, LastIsNat, Zenon

-----------------------------------------------------------------------------
(* The transaction's own rows, of which there are at most two: the plan's  *)
(* first event follows the committed rows of its stream.                   *)
LEMMA FirstInserted ==
  ASSUME StoreInv, holder # NoWriter, Len(staged) = 1
  PROVE  LET e == plan[holder][1] IN
         /\ e \in Event /\ staged = <<e>> /\ Visible = Append(rows, e)
         /\ e.sequence = LastSequence(rows, e.stream) + 1
<1> DEFINE e == plan[holder][1]
<1>1. staged \in Seq(Event) /\ rows \in Seq(Event) /\ DOMAIN staged = {1}
  BY VisibleRows
<1>2. staged[1] = e /\ e.sequence > LastSequence(rows, e.stream)
  BY <1>1, Zenon DEF StoreInv, TransactionInv
<1>3. staged = <<e>> /\ e \in Event
  <2>1. e \in Event
    BY <1>1, <1>2, RowFields, Zenon
  <2> HIDE DEF e
  <2>2. <<e>> \in Seq(Event) /\ Len(<<e>>) = 1 /\ <<e>>[1] = e
    BY <2>1
  <2>3. staged = <<e>>
    BY <1>1, <1>2, <2>2, SMTT(60)
  <2> QED
    BY <2>1, <2>3, Zenon
<1>4. Visible = Append(rows, e)
  BY <1>1, <1>3 DEF Visible
<1>5. PlanFollows(rows, plan[holder])
  BY Zenon DEF StoreInv, PlanInv, StoreTypeOK
<1>6. 1 \in DOMAIN plan[holder]
  BY <1>5, SMTT(60) DEF StoreInv, TransactionInv, PlanFollows
<1>7. e.sequence <= LastSequence(rows, e.stream) + 1
  BY <1>5, <1>6 DEF PlanFollows, SecondInStream
<1>8. e.stream \in Streams /\ e.sequence \in Nat
  BY <1>3, Zenon DEF Event
<1>9. LastSequence(rows, e.stream) \in Nat
  BY <1>8, LastGrows, Zenon
<1> HIDE DEF e
<1>10. e.sequence = LastSequence(rows, e.stream) + 1
  BY <1>2, <1>7, <1>8, <1>9, SMTT(60)
<1> QED
  BY <1>3, <1>4, <1>10, Zenon DEF e

(* insert_prepared refuses an event only for a reason that lasts: another  *)
(* writer has taken its place, or its cause is in another stream.  The     *)
(* second event of a pair in one stream is never refused.                  *)
LEMMA InsertRefusal ==
  ASSUME StoreInv, holder # NoWriter, Len(staged) < Len(plan[holder]),
         NEW e, e = plan[holder][Len(staged) + 1], InsertCheck(e) # "ok"
  PROVE  /\ InsertCheck(e) \in Conflicts
         /\ Len(staged) + 1 \in DOMAIN plan[holder]
         /\ Refuted(rows, e)
<1> DEFINE p == plan[holder]
           k == Len(staged) + 1
           s == e.stream
<1>1. /\ PlanFollows(rows, p) /\ p \in Seq(Event)
      /\ Len(p) \in Nat /\ Len(p) <= 2 /\ DOMAIN p = 1..Len(p)
  BY SMTT(60) DEF StoreInv, PlanInv, StoreTypeOK, PlanFollows
<1>2. k \in DOMAIN p /\ (k = 1 \/ k = 2) /\ p[k] = e
  BY <1>1, VisibleRows, SMTT(60)
<1>3. e \in Event /\ s \in Streams /\ e.sequence \in Nat
  BY <1>1, <1>2, RowFields, Zenon
<1>4. ~IdTaken(e)
  BY <1>2, Zenon DEF StoreInv, TransactionInv
<1>5. LastSequence(rows, s) \in Nat /\ LastSequence(Visible, s) \in Nat
  BY <1>3, LastGrows, Zenon
<1>6. k = 1 => Visible = rows
  <2>1. k = 1 => staged = <<>>
    BY VisibleRows, SMTT(60)
  <2>2. rows \o <<>> = rows
    BY VisibleRows, SMTT(60)
  <2> QED
    BY <2>1, <2>2, Zenon DEF Visible
<1>7. k = 2 => /\ p[1] \in Event /\ Visible = Append(rows, p[1])
               /\ p[1].sequence = LastSequence(rows, p[1].stream) + 1
  BY VisibleRows, FirstInserted
<1>8. WellKept(rows)
  BY Zenon DEF StoreInv, TableInv
<1>9. CASE SecondInStream(p, k)
  <2>1. /\ k = 2 /\ s = p[1].stream
        /\ e.sequence = p[1].sequence + 1 /\ e.cause = p[1].id
    BY <1>1, <1>2, <1>9, Zenon DEF PlanFollows, SecondInStream
  <2>2. LastSequence(Visible, s) = p[1].sequence
    BY <1>7, <1>8, <2>1, LastAfterAppend, ZenonT(60)
  <2>3. \E i \in DOMAIN Visible : Visible[i].id = e.cause /\ Visible[i].stream = s
    <3>1. Len(rows) + 1 \in DOMAIN Visible /\ Visible[Len(rows) + 1] = p[1]
      BY <1>7, <2>1, VisibleRows
    <3> QED
      BY <2>1, <3>1, Zenon
  <2>4. InsertCheck(e) = "ok"
    BY <2>1, <2>2, <2>3, Zenon DEF InsertCheck
  <2> QED
    BY <2>4, Zenon
<1>10. CASE ~SecondInStream(p, k)
  <2>1. /\ e.sequence <= LastSequence(rows, s) + 1
        /\ e.cause # NoEvent => \E j \in DOMAIN rows : rows[j].id = e.cause
    BY <1>1, <1>2, <1>10, Zenon DEF PlanFollows
  <2>2. LastSequence(Visible, s) = LastSequence(rows, s)
    <3>1. CASE k = 1
      BY <1>6, <3>1, Zenon
    <3>2. CASE k = 2
      <4>1. s # p[1].stream
        BY <1>2, <1>10, <3>2, Zenon DEF SecondInStream
      <4>2. PICK q : q = p[1]
        BY Zenon
      <4>3. q \in Event /\ q.sequence = LastSequence(rows, q.stream) + 1 /\ s # q.stream
        BY <1>7, <3>2, <4>1, <4>2, Zenon
      <4>4. LastSequence(Append(rows, q), s) = LastSequence(rows, s)
        BY <1>3, <1>8, <4>3, LastAfterAppend, Zenon
      <4> QED
        BY <1>7, <3>2, <4>2, <4>4, Zenon
    <3> QED
      BY <1>2, <3>1, <3>2, Zenon
  <2>3. CASE e.sequence # LastSequence(Visible, s) + 1
    <3>1. InsertCheck(e) = "SequenceConflict"
      BY <2>3, Zenon DEF InsertCheck
    <3>2. e.sequence <= LastSequence(rows, s)
      BY <1>3, <1>5, <2>1, <2>2, <2>3, SMTT(60)
    <3>3. \A i \in DOMAIN rows : rows[i] # e
      BY <1>4, Zenon DEF IdTaken
    <3> QED
      BY <1>2, <3>1, <3>2, <3>3, Zenon DEF Refuted, Conflicts
  <2>4. CASE e.sequence = LastSequence(Visible, s) + 1
    <3>1. /\ InsertCheck(e) = "CausationConflict" /\ e.cause # NoEvent
          /\ ~\E i \in DOMAIN Visible : Visible[i].id = e.cause /\ Visible[i].stream = s
      BY <2>4, Zenon DEF InsertCheck
    <3>2. PICK j \in DOMAIN rows : rows[j].id = e.cause
      BY <2>1, <3>1, Zenon
    <3>3. rows[j].stream # s
      <4>1. j \in DOMAIN Visible /\ Visible[j] = rows[j]
        <5>1. /\ Len(rows) \in Nat /\ Len(staged) \in Nat /\ j \in 1..Len(rows)
              /\ DOMAIN Visible = 1..(Len(rows) + Len(staged)) /\ Visible[j] = rows[j]
          BY <3>2, VisibleRows, Zenon
        <5> QED BY <5>1
      <4> QED BY <3>1, <3>2, <4>1, Zenon
    <3> QED
      BY <1>2, <3>1, <3>2, <3>3, Zenon DEF Refuted, Conflicts
  <2> QED
    BY <2>3, <2>4, Zenon
<1> QED
  BY <1>9, <1>10, Zenon

(* insert_prepared: the row goes to the end of what the transaction sees,  *)
(* or the transaction ends and the writer learns a lasting reason.         *)
LEMMA InsertInv ==
  ASSUME StoreInv, NEW w \in Writers, NEW delivered \in BOOLEAN, Insert(w, delivered)
  PROVE  StoreInv'
<1> DEFINE k == Len(staged) + 1
<1>1. holder = w /\ holder # NoWriter /\ answer[w] = "pending" /\ UNCHANGED <<rows, plan>>
  BY StoreAssumption, Zenon DEF Insert, StoreInv, TransactionInv
<1>2. PICK e : e = plan[w][k]
  BY Zenon
<1>3. CASE InsertCheck(e) # "ok"
  <2> DEFINE a == IF delivered THEN InsertCheck(e) ELSE "pending"
  <2>1. staged' = <<>> /\ holder' = NoWriter /\ answer' = [answer EXCEPT ![w] = a]
    BY <1>1, <1>2, <1>3, Zenon DEF Insert, Deliver
  <2>2. InsertCheck(e) \in Conflicts /\ k \in DOMAIN plan[w] /\ Refuted(rows, e)
    BY <1>1, <1>2, <1>3, InsertRefusal, Zenon DEF Insert
  <2>3. /\ a = "pending" \/ a \in Conflicts
        /\ a # "AlreadyCommitted" /\ \E i \in DOMAIN plan[w] : Refuted(rows, plan[w][i])
    BY <1>2, <2>2, Zenon DEF Conflicts
  <2> HIDE DEF a
  <2> QED
    BY <1>1, <2>1, <2>3, AnsweredInv, Zenon
<1>4. CASE InsertCheck(e) = "ok"
  <2>1. /\ rows' = rows /\ plan' = plan /\ answer' = answer /\ holder' = holder
        /\ staged' = Append(staged, e) /\ Len(staged) < Len(plan[w])
    BY <1>1, <1>2, <1>4, Zenon DEF Insert
  <2>2. /\ plan[w] \in Seq(Event) /\ k \in DOMAIN plan[w] /\ e \in Event
        /\ e.stream \in Streams /\ e.sequence \in Nat
    <3>1. plan[w] \in Seq(Event)
      BY Zenon DEF StoreInv, StoreTypeOK
    <3>2. k \in DOMAIN plan[w]
      BY <2>1, <3>1, VisibleRows
    <3> QED
      BY <1>2, <3>1, <3>2, RowFields, Zenon
  <2>3. /\ e.sequence = LastSequence(Visible, e.stream) + 1
        /\ e.cause # NoEvent => \E i \in DOMAIN Visible :
             Visible[i].id = e.cause /\ Visible[i].stream = e.stream
    BY <1>4, Zenon DEF InsertCheck
  <2>4. Visible' = Append(Visible, e)
    <3>1. rows \in Seq(Event) /\ staged \in Seq(Event)
      BY VisibleRows, Zenon
    <3>2. rows \o Append(staged, e) = Append(rows \o staged, e)
      BY <2>2, <3>1, SMTT(60)
    <3> QED
      BY <2>1, <3>2, Zenon DEF Visible
  <2>5. WellKept(Append(Visible, e))
    BY <2>2, <2>3, AppendKeeps, Zenon DEF StoreInv, TableInv
  <2>6. StoreTypeOK'
    BY <2>1, <2>2 DEF StoreInv, StoreTypeOK
  <2>7. TableInv'
    BY <2>1, <2>4, <2>5, Zenon DEF StoreInv, TableInv, UniqueIds
  <2>8. PlanInv'
    BY <2>1, Zenon DEF StoreInv, PlanInv
  <2>9. TransactionInv'
    <3>1. e.sequence > LastSequence(rows, e.stream)
      BY <2>2, <2>3, LastGrows, SMTT(60)
    <3>2. /\ DOMAIN staged' = 1..k /\ Len(staged') = k /\ k <= Len(plan[w])
          /\ staged'[k] = e /\ \A i \in DOMAIN staged : staged'[i] = staged[i]
          /\ \A i \in 1..k : i = k \/ i \in DOMAIN staged
      BY <2>1, <2>2, VisibleRows, SMTT(60)
    <3>3. \A i \in DOMAIN staged' :
            /\ staged'[i] = plan[w][i]
            /\ staged'[i].sequence > LastSequence(rows, staged'[i].stream)
      BY <1>1, <1>2, <3>1, <3>2, Zenon DEF StoreInv, TransactionInv
    <3>4. \A i \in DOMAIN plan[w] : ~IdTaken(plan[w][i])
      BY <1>1, Zenon DEF StoreInv, TransactionInv
    <3> QED
      BY <1>1, <2>1, <3>2, <3>3, <3>4, SMTT(60) DEF TransactionInv, IdTaken
  <2>10. PairsAreWhole'
    BY <2>1, Zenon DEF StoreInv, PairsAreWhole
  <2>11. AnswerInv'
    BY <2>1, SMTT(60) DEF StoreInv, AnswerInv, Stored
  <2> QED
    BY <2>6, <2>7, <2>8, <2>9, <2>10, <2>11, Zenon DEF StoreInv
<1> QED
  BY <1>3, <1>4, Zenon

-----------------------------------------------------------------------------
(* What other writers planned and were told stays true when rows are       *)
(* added: a plan falls behind, a refused event stays refused.              *)
LEMMA PlanStillFollows ==
  ASSUME StoreInv, NEW p, PlanFollows(rows, p)
  PROVE  PlanFollows(Visible, p)
<1>1. p \in Seq(Event)
  BY Zenon DEF PlanFollows
<1>2. ASSUME NEW i \in DOMAIN p, ~SecondInStream(p, i)
      PROVE  /\ p[i].sequence <= LastSequence(Visible, p[i].stream) + 1
             /\ p[i].cause # NoEvent =>
                  \E j \in DOMAIN Visible : Visible[j].id = p[i].cause
  <2>1. p[i].sequence \in Nat /\ p[i].stream \in Streams
    BY <1>1, RowFields, Zenon
  <2>2. /\ p[i].sequence <= LastSequence(rows, p[i].stream) + 1
        /\ p[i].cause # NoEvent => \E j \in DOMAIN rows : rows[j].id = p[i].cause
    BY <1>2, Zenon DEF PlanFollows
  <2>3. p[i].sequence <= LastSequence(Visible, p[i].stream) + 1
    BY <2>1, <2>2, LastGrows
  <2>4. \A j \in DOMAIN rows : j \in DOMAIN Visible /\ Visible[j] = rows[j]
    BY VisibleRows, SMTT(60)
  <2> QED
    BY <2>2, <2>3, <2>4, Zenon
<1> QED
  BY <1>2, Zenon DEF PlanFollows

(* An event the committed rows refute is refuted inside a transaction too, *)
(* which sees those rows and its own.                                      *)
LEMMA StillRefuted ==
  ASSUME StoreInv, NEW e \in Event, Refuted(rows, e)
  PROVE  Refuted(Visible, e)
<1>1. \A j \in DOMAIN rows : j \in DOMAIN Visible /\ Visible[j] = rows[j]
  BY VisibleRows
<1>2. CASE \E i \in DOMAIN rows : rows[i].id = e.id /\ rows[i] # e
  BY <1>1, <1>2, Zenon DEF Refuted
<1>3. CASE \E i \in DOMAIN rows : rows[i].id = e.cause /\ rows[i].stream # e.stream
  BY <1>1, <1>3, Zenon DEF Refuted
<1>4. CASE /\ e.sequence <= LastSequence(rows, e.stream)
           /\ \A i \in DOMAIN rows : rows[i] # e
  <2>1. e.stream \in Streams /\ e.sequence \in Nat
    BY Zenon DEF Event
  <2>2. e.sequence <= LastSequence(Visible, e.stream)
    BY <1>4, <2>1, LastGrows, SMTT(60)
  <2>3. \A i \in DOMAIN staged : staged[i].sequence > LastSequence(rows, staged[i].stream)
    BY VisibleRows, SMTT(60) DEF StoreInv, TransactionInv
  <2>4. \A i \in DOMAIN staged : staged[i] # e
    BY <1>4, <2>1, <2>3, LastGrows
  <2>5. ASSUME NEW i \in DOMAIN Visible
        PROVE  Visible[i] # e
    <3>1. i \in DOMAIN rows \/ \E k \in DOMAIN staged : i = Len(rows) + k
      BY VisibleRows, Zenon
    <3>2. CASE i \in DOMAIN rows
      BY <1>1, <1>4, <3>2, Zenon
    <3>3. CASE \E k \in DOMAIN staged : i = Len(rows) + k
      BY <2>4, <3>3, VisibleRows, Zenon
    <3> QED
      BY <3>1, <3>2, <3>3, Zenon
  <2> QED
    BY <2>2, <2>5, Zenon DEF Refuted
<1> QED
  BY <1>2, <1>3, <1>4, Zenon DEF Refuted

(* COMMIT: the rows of the transaction become the committed table at once. *)
LEMMA CommitInv ==
  ASSUME StoreInv, NEW w \in Writers, NEW delivered \in BOOLEAN, Commit(w, delivered)
  PROVE  StoreInv'
<1> DEFINE p == plan[w]
           n == Len(rows)
           a == IF delivered THEN "Appended" ELSE "pending"
<1>1. /\ rows' = Visible /\ staged' = <<>> /\ holder' = NoWriter /\ plan' = plan
      /\ holder = w /\ holder # NoWriter /\ answer[w] = "pending"
      /\ answer' = [answer EXCEPT ![w] = a] /\ Len(staged) = Len(p)
  BY StoreAssumption, Zenon DEF Commit, Deliver, StoreInv, TransactionInv
<1>2. answer'[w] = a /\ \A v \in Writers : v # w => answer'[v] = answer[v]
  BY <1>1, Zenon DEF StoreInv, StoreTypeOK
<1>3. /\ PlanFollows(rows, p) /\ p \in Seq(Event)
      /\ DOMAIN p = DOMAIN staged
      /\ \A i \in DOMAIN p : staged[i] = p[i] /\ ~IdTaken(p[i])
  <2>1. PlanFollows(rows, p) /\ p \in Seq(Event)
    BY ZenonT(60) DEF StoreInv, PlanInv, PlanFollows
  <2>2. DOMAIN p = DOMAIN staged
    BY <1>1, <2>1, VisibleRows, SMTT(60)
  <2> QED
    BY <1>1, <2>1, <2>2, Zenon DEF StoreInv, TransactionInv
<1>4. \A j \in DOMAIN rows : j \in DOMAIN Visible /\ Visible[j] = rows[j]
  BY VisibleRows, SMTT(60)
<1>5. \A i \in DOMAIN p : n + i \in DOMAIN Visible /\ Visible[n + i] = p[i]
  BY <1>3, VisibleRows
<1>6. \A i \in DOMAIN Visible : i \in DOMAIN rows \/ \E k \in DOMAIN p : i = n + k
  BY <1>3, VisibleRows, Zenon
<1>7. WellKept(Visible) /\ Visible \in Seq(Event) /\ Visible \o <<>> = Visible
  BY VisibleRows DEF StoreInv, TableInv
<1> HIDE DEF a, n
<1>8. StoreTypeOK'
  BY <1>1, SMTT(60) DEF StoreInv, StoreTypeOK, a
<1>9. UniqueIds'
  <2> SUFFICES ASSUME NEW i \in DOMAIN Visible, NEW j \in DOMAIN Visible,
                      Visible[i].id = Visible[j].id
               PROVE  i = j
    BY <1>1, Zenon DEF UniqueIds
  <2>1. CASE i \in DOMAIN rows /\ j \in DOMAIN rows
    BY <1>4, <2>1, Zenon DEF StoreInv, TableInv, UniqueIds
  <2>2. \A l \in DOMAIN rows, k \in DOMAIN p : rows[l].id # p[k].id
    BY <1>3, Zenon DEF IdTaken
  <2>3. \A k, l \in DOMAIN p : p[k].id = p[l].id => k = l
    <3>1. Len(p) \in Nat /\ Len(p) <= 2 /\ DOMAIN p = 1..Len(p)
          /\ (Len(p) = 2 => p[1].id # p[2].id)
      BY <1>3 DEF PlanFollows
    <3> HIDE DEF p
    <3>2. \A k, l \in DOMAIN p : k = l \/ (Len(p) = 2 /\ k = 1 /\ l = 2)
                                       \/ (Len(p) = 2 /\ k = 2 /\ l = 1)
      BY <3>1
    <3> QED
      BY <3>1, <3>2, Zenon
  <2> QED
    BY <1>4, <1>5, <1>6, <2>1, <2>2, <2>3, SMTT(60)
<1>10. TableInv'
  BY <1>1, <1>7, <1>9, Zenon DEF TableInv, Visible
<1>11. PlanInv'
  BY <1>1, PlanStillFollows, Zenon DEF StoreInv, PlanInv
<1>12. TransactionInv'
  BY <1>1, Zenon DEF TransactionInv
<1>13. PairsAreWhole'
  <2>1. ASSUME NEW i \in DOMAIN Visible, Visible[i].partner # NoEvent
        PROVE  \E j \in DOMAIN Visible :
                 Visible[j].id = Visible[i].partner /\ Visible[j].partner = Visible[i].id
    <3>1. CASE i \in DOMAIN rows
      BY <1>4, <2>1, <3>1, SMTT(60) DEF StoreInv, PairsAreWhole
    <3>2. CASE \E k \in DOMAIN p : i = n + k
      <4>1. PICK k \in DOMAIN p : i = n + k
        BY <3>2, Zenon
      <4>2. Visible[i] = p[k]
        BY <1>5, <4>1, Zenon
      <4>3. /\ Len(p) \in Nat /\ Len(p) <= 2 /\ DOMAIN p = 1..Len(p)
            /\ Len(p) = 1 => p[1].partner = NoEvent
            /\ Len(p) = 2 => p[1].partner = p[2].id /\ p[2].partner = p[1].id
        BY <1>3, SMTT(60) DEF PlanFollows
      <4> HIDE DEF p
      <4>4. Len(p) = 2 /\ k \in {1, 2} /\ 1 \in DOMAIN p /\ 2 \in DOMAIN p
        BY <2>1, <4>1, <4>2, <4>3, SMTT(30)
      <4>5. \E l \in DOMAIN p : p[l].id = p[k].partner /\ p[l].partner = p[k].id
        BY <4>3, <4>4, Zenon
      <4> QED
        BY <1>5, <4>2, <4>5, Zenon
    <3> QED
      BY <1>6, <3>1, <3>2, Zenon
  <2>2. \A v \in Writers : answer'[v] # "DatabaseCorrupt"
    BY <1>2, Zenon DEF StoreInv, PairsAreWhole, a
  <2> QED
    BY <1>1, <2>1, <2>2, Zenon DEF PairsAreWhole
<1>14. AnswerInv'
  <2> SUFFICES ASSUME NEW v \in Writers
               PROVE  /\ answer'[v] \in {"Appended", "AlreadyCommitted"} =>
                           \A i \in DOMAIN plan[v] : \E j \in DOMAIN Visible : Visible[j] = plan[v][i]
                      /\ answer'[v] \in Conflicts =>
                           \E i \in DOMAIN plan[v] : Refuted(Visible, plan[v][i])
    BY <1>1 DEF AnswerInv, Stored
  <2>1. CASE v = w
    BY <1>2, <1>5, <2>1, Zenon DEF Conflicts, a
  <2>2. CASE v # w
    <3>1. answer'[v] = answer[v]
      BY <1>2, <2>2, Zenon
    <3>2. answer[v] \in {"Appended", "AlreadyCommitted"} =>
            \A i \in DOMAIN plan[v] : \E j \in DOMAIN Visible : Visible[j] = plan[v][i]
      BY <1>4, SMTT(30) DEF StoreInv, AnswerInv, Stored
    <3>3. \A i \in DOMAIN plan[v] : plan[v][i] \in Event
      BY RowFields, Zenon DEF StoreInv, StoreTypeOK
    <3>4. answer[v] \in Conflicts => \E i \in DOMAIN plan[v] : Refuted(Visible, plan[v][i])
      BY <3>3, StillRefuted, Zenon DEF StoreInv, AnswerInv
    <3> QED
      BY <3>1, <3>2, <3>4, Zenon
  <2> QED
    BY <2>1, <2>2, Zenon
<1> QED
  BY <1>8, <1>10, <1>11, <1>12, <1>13, <1>14, Zenon DEF StoreInv

-----------------------------------------------------------------------------
(* Every step of a writer or a reader keeps the invariant.                 *)
LEMMA StoreStep ==
  ASSUME StoreInv, [StoreNext]_storeVars
  PROVE  StoreInv'
<1>1. \A id \in Plannable : id \in EventIds
  BY StoreAssumption, Zenon DEF Plannable
<1>2. ASSUME NEW w \in Writers, NEW id \in Plannable, NEW s \in Streams, PlanAppend(w, id, s)
      PROVE  StoreInv'
  BY <1>1, <1>2, PlanAppendInv, Zenon
<1>3. ASSUME NEW w \in Writers, NEW id1 \in Plannable, NEW id2 \in Plannable,
             NEW s1 \in Streams, NEW s2 \in Streams, PlanPair(w, id1, s1, id2, s2)
      PROVE  StoreInv'
  BY <1>1, <1>3, PlanPairInv, Zenon
<1>4. ASSUME NEW w \in Writers, NEW delivered \in BOOLEAN,
             Begin(w, delivered) \/ Insert(w, delivered) \/ Commit(w, delivered)
      PROVE  StoreInv'
  BY <1>4, BeginInv, InsertInv, CommitInv, Zenon
<1>5. ASSUME NEW w \in Writers, RollBack(w)
      PROVE  StoreInv'
  BY <1>5, RollBackInv, Zenon
<1>6. ASSUME NEW r \in Readers, NEW target, StartRead(r, target)
      PROVE  StoreInv'
  BY <1>6, ReadInv, Zenon DEF StartRead
<1>7. ASSUME NEW r \in Readers, ContinueRead(r)
      PROVE  StoreInv'
  BY <1>7, ReadInv, Zenon DEF ContinueRead
<1>8. CASE UNCHANGED storeVars
  BY <1>8, ReadInv, Zenon DEF storeVars
<1> QED
  BY <1>2, <1>3, <1>4, <1>5, <1>6, <1>7, <1>8, Zenon DEF StoreNext

(* The four promises of the store follow from the invariant.               *)
LEMMA StoreInvImplies ==
  StoreInv => StreamsAreGapless /\ PairsAreWhole /\ CausesPrecede /\ AnswersAreFinal
<1> SUFFICES ASSUME StoreInv
             PROVE  StreamsAreGapless /\ PairsAreWhole /\ CausesPrecede /\ AnswersAreFinal
  BY Zenon
<1>1. WellKept(rows)
  BY Zenon DEF StoreInv, TableInv
<1>2. StreamsAreGapless
  BY <1>1, Zenon DEF WellKept, RowsUpTo, StreamsAreGapless
<1>3. CausesPrecede
  BY <1>1, Zenon DEF WellKept, CausesPrecede
<1>4. ASSUME NEW e \in Event, Refuted(rows, e)
      PROVE  ~Stored(e)
  <2> SUFFICES ASSUME NEW i \in DOMAIN rows, rows[i] = e
               PROVE  FALSE
    BY Zenon DEF Stored
  <2>1. \A j \in DOMAIN rows : rows[j].id = e.id => rows[j] = e
    BY Zenon DEF StoreInv, TableInv, UniqueIds
  <2>2. PICK j \in DOMAIN rows : rows[j].id = e.cause /\ rows[j].stream # e.stream
    BY <1>4, <2>1, Zenon DEF Refuted
  <2>3. rows[j].id # NoEvent
    BY <1>1, RowFields, StoreAssumption, Zenon DEF WellKept
  <2>4. PICK k \in 1..(i - 1) : rows[k].id = e.cause /\ rows[k].stream = e.stream
    BY <1>3, <2>2, <2>3, Zenon DEF CausesPrecede
  <2>5. k \in DOMAIN rows
    BY <1>1 DEF WellKept
  <2> QED
    BY <2>2, <2>4, <2>5, Zenon DEF StoreInv, TableInv, UniqueIds
<1>5. \A w \in Writers : \A i \in DOMAIN plan[w] : plan[w][i] \in Event
  BY RowFields, Zenon DEF StoreInv, StoreTypeOK
<1>6. AnswersAreFinal
  BY <1>4, <1>5, Zenon DEF StoreInv, AnswerInv, AnswersAreFinal
<1> QED
  BY <1>2, <1>3, <1>6, Zenon DEF StoreInv

(* The invariant holds for every set of writers, readers and streams.      *)
THEOREM StoreCorrect == StoreSpec => []StoreInv
<1>1. StoreInv /\ [StoreNext]_storeVars => StoreInv'
  BY StoreStep, Zenon
<1> QED
  BY <1>1, StoreInitInv, PTL DEF StoreSpec

(* append under contention: whatever writers plan, retry or lose, the n-th *)
(* committed row of a stream carries sequence n.                           *)
THEOREM StoreIsGapless == StoreSpec => []StreamsAreGapless
  BY StoreCorrect, StoreInvImplies, PTL

(* append_atomic_pair: both events of a pair are stored or none, and no    *)
(* writer is ever told DatabaseCorrupt.                                    *)
THEOREM StorePairsAreWhole == StoreSpec => []PairsAreWhole
  BY StoreCorrect, StoreInvImplies, PTL

(* insert_prepared admits a cause only from the same stream's past.        *)
THEOREM StoreCausesPrecede == StoreSpec => []CausesPrecede
  BY StoreCorrect, StoreInvImplies, PTL

(* What a writer was told stays true: acknowledged events are stored, and  *)
(* the events of a refused plan never are all stored.                      *)
THEOREM StoreAnswersAreFinal == StoreSpec => []AnswersAreFinal
  BY StoreCorrect, StoreInvImplies, PTL

-----------------------------------------------------------------------------
(***************************************************************************)
(* Paged reads.  ORDER BY needs an order: of two rows of a table one is    *)
(* ahead of the other.                                                     *)
(***************************************************************************)
Ahead(table, i, j) == Before(Place(table, i), Place(table, j))

Ordered(table, S) ==
  /\ IsFiniteSet(S)
  /\ \A i \in S : ~Ahead(table, i, i)
  /\ \A i, j \in S : i # j => Ahead(table, i, j) \/ Ahead(table, j, i)
  /\ \A i, j, k \in S : Ahead(table, i, j) /\ Ahead(table, j, k) => Ahead(table, i, k)

RowsAhead(table, i, S) == {j \in S : Ahead(table, j, i)}

(* The rank of a row counts the rows ahead of it.                          *)
LEMMA RankCounts ==
  ASSUME NEW table, NEW S, Ordered(table, S), NEW i \in S
  PROVE  /\ IsFiniteSet(RowsAhead(table, i, S))
         /\ Rank(table, i, S) = Cardinality(RowsAhead(table, i, S))
         /\ Rank(table, i, S) \in Nat /\ Cardinality(S) \in Nat
         /\ Rank(table, i, S) < Cardinality(S)
<1> DEFINE A == RowsAhead(table, i, S)
<1>1. Rank(table, i, S) = Cardinality(A)
  BY Zenon DEF Rank, RowsAhead, Ahead
<1>2. A \in SUBSET (S \ {i}) /\ IsFiniteSet(S)
  BY Zenon DEF Ordered, RowsAhead
<1>3. /\ IsFiniteSet(S \ {i}) /\ Cardinality(S \ {i}) = Cardinality(S) - 1
      /\ Cardinality(S) \in Nat
  <2>1. Cardinality(S \ {i}) = IF i \in S THEN Cardinality(S) - 1 ELSE Cardinality(S)
    BY <1>2, FS_RemoveElement, Zenon
  <2> QED BY <1>2, <2>1, FS_RemoveElement, FS_CardinalityType, Zenon
<1> HIDE DEF A
<1>4. IsFiniteSet(A) /\ Cardinality(A) <= Cardinality(S \ {i})
  BY <1>2, <1>3, FS_Subset, Zenon
<1>5. Cardinality(A) \in Nat
  BY <1>4, FS_CardinalityType, Zenon
<1>6. Cardinality(A) < Cardinality(S)
  BY <1>3, <1>4, <1>5
<1> QED BY <1>1, <1>3, <1>4, <1>5, <1>6, Zenon DEF A

(* Of two rows the one ahead has the lower rank.                           *)
LEMMA RankRises ==
  ASSUME NEW table, NEW S, Ordered(table, S), NEW i \in S, NEW j \in S, Ahead(table, i, j)
  PROVE  Rank(table, i, S) < Rank(table, j, S)
<1> DEFINE A == RowsAhead(table, i, S)
           B == RowsAhead(table, j, S)
<1>1. /\ IsFiniteSet(A) /\ Rank(table, i, S) = Cardinality(A) /\ Rank(table, i, S) \in Nat
      /\ IsFiniteSet(B) /\ Rank(table, j, S) = Cardinality(B) /\ Rank(table, j, S) \in Nat
  BY RankCounts, Zenon
<1>2. i \notin A /\ A \cup {i} \in SUBSET B
  BY Zenon DEF Ordered, RowsAhead
<1> HIDE DEF A, B
<1>3. Cardinality(A \cup {i}) = Cardinality(A) + 1
  BY <1>1, <1>2, FS_AddElement, Zenon
<1>4. Cardinality(A \cup {i}) <= Cardinality(B)
  BY <1>1, <1>2, FS_Subset, Zenon
<1> QED BY <1>1, <1>3, <1>4

(* No two rows have the same rank.                                         *)
LEMMA RankIsUnique ==
  ASSUME NEW table, NEW S, Ordered(table, S), NEW i \in S, NEW j \in S,
         Rank(table, i, S) = Rank(table, j, S)
  PROVE  i = j
<1> SUFFICES ASSUME i # j PROVE FALSE
  BY Zenon
<1>1. Ahead(table, i, j) \/ Ahead(table, j, i)
  BY Zenon DEF Ordered
<1>2. Rank(table, i, S) < Rank(table, j, S) \/ Rank(table, j, S) < Rank(table, i, S)
  BY <1>1, RankRises, Zenon
<1>3. Rank(table, i, S) \in Nat
  BY RankCounts, Zenon
<1> QED BY <1>2, <1>3

(* Every rank below the number of rows is the rank of a row.               *)
LEMMA RankIsTaken ==
  ASSUME NEW table, NEW S, Ordered(table, S), NEW k \in 1..Cardinality(S)
  PROVE  \E i \in S : Rank(table, i, S) = k - 1
<1> DEFINE n == Cardinality(S)
           T == 0..(n - 1)
           f == [i \in S |-> Rank(table, i, S)]
<1>1. n \in Nat
  BY FS_CardinalityType, Zenon DEF Ordered
<1>2. ASSUME NEW i \in S PROVE f[i] \in T
  <2>1. Rank(table, i, S) \in Nat /\ Rank(table, i, S) < n
    BY RankCounts, Zenon
  <2> QED BY <1>1, <2>1
<1>3. f \in [S -> T]
  BY <1>2, Zenon
<1>4. \A i, j \in S : f[i] = f[j] => i = j
  BY RankIsUnique, Zenon
<1>5. IsFiniteSet(T) /\ Cardinality(T) = n
  <2>1. 0 \in Int /\ n - 1 \in Int
    BY <1>1
  <2>2. IsFiniteSet(T) /\ Cardinality(T) = IF 0 > n - 1 THEN 0 ELSE n - 1 - 0 + 1
    BY <2>1, FS_Interval, Zenon
  <2> QED BY <1>1, <2>2
<1>6. k - 1 \in T
  BY <1>1
<1> HIDE DEF T, f
<1>7. f \in Injection(S, T)
  BY <1>3, <1>4, Zenon DEF Injection, IsInjective
<1>8. f \in Surjection(S, T)
  BY <1>5, <1>7, FS_Injection, Zenon
<1>9. PICK i \in S : f[i] = k - 1
  BY <1>6, <1>8, Zenon DEF Surjection
<1> QED BY <1>9, Zenon DEF f

Listing(table, S) ==
  /\ InOrder(table, S) \in Seq(S) /\ Len(InOrder(table, S)) = Cardinality(S)
  /\ Cardinality(S) \in Nat
  /\ \A k \in 1..Cardinality(S) :
       InOrder(table, S)[k] \in S /\ Rank(table, InOrder(table, S)[k], S) = k - 1
  /\ \A k \in 1..Cardinality(S), i \in S :
       Rank(table, i, S) = k - 1 => InOrder(table, S)[k] = i

(* ORDER BY lists each row once, at its rank.                              *)
LEMMA OrderLists ==
  ASSUME NEW table, NEW S, Ordered(table, S)
  PROVE  Listing(table, S)
<1> DEFINE n == Cardinality(S)
           f == InOrder(table, S)
<1>1. n \in Nat
  BY FS_CardinalityType, Zenon DEF Ordered
<1>2. ASSUME NEW k \in 1..n
      PROVE  f[k] \in S /\ Rank(table, f[k], S) = k - 1
  <2>1. \E i \in S : Rank(table, i, S) = k - 1
    BY <1>2, RankIsTaken, Zenon
  <2>2. f[k] = CHOOSE i \in S : Rank(table, i, S) = k - 1
    BY <1>2, Zenon DEF InOrder
  <2> QED BY <2>1, <2>2, Zenon
<1>3. ASSUME NEW k \in 1..n, NEW i \in S, Rank(table, i, S) = k - 1
      PROVE  f[k] = i
  <2>1. f[k] \in S /\ Rank(table, f[k], S) = Rank(table, i, S)
    BY <1>2, <1>3, Zenon
  <2> QED BY <2>1, RankIsUnique, Zenon
<1>4. f \in [1..n -> S]
  <2>1. f = [k \in 1..n |-> CHOOSE i \in S : Rank(table, i, S) = k - 1]
    BY Zenon DEF InOrder
  <2>2. f = [k \in 1..n |-> f[k]]
    BY <2>1, Zenon
  <2> HIDE DEF f
  <2> QED BY <1>2, <2>2, Zenon
<1> HIDE DEF f, n
<1>5. f \in Seq(S) /\ Len(f) = n
  BY <1>1, <1>4
<1> QED BY <1>1, <1>2, <1>3, <1>5, Zenon DEF Listing, f, n

(* The size of two parts.                                                  *)
LEMMA PartsAddUp ==
  ASSUME NEW A, NEW B, IsFiniteSet(A), IsFiniteSet(B), A \cap B = {}
  PROVE  Cardinality(A \cup B) = Cardinality(A) + Cardinality(B)
<1>1. Cardinality(A) \in Nat /\ Cardinality(B) \in Nat /\ Cardinality(A \cap B) = 0
  BY FS_CardinalityType, FS_EmptySet, Zenon
<1>2. Cardinality(A \cup B) = Cardinality(A) + Cardinality(B) - Cardinality(A \cap B)
  BY FS_Union, Zenon
<1> QED BY <1>1, <1>2

(* A part of an ordered set of rows is ordered.                            *)
LEMMA PartIsOrdered ==
  ASSUME NEW table, NEW S, Ordered(table, S), NEW R \in SUBSET S
  PROVE  Ordered(table, R)
<1>1. IsFiniteSet(R)
  BY FS_Subset, Zenon DEF Ordered
<1>2. \A i \in R : i \in S
  BY Zenon
<1> QED BY <1>1, <1>2, Zenon DEF Ordered

SelectedAfter(table, R, S, n) == R = {i \in S : Ahead(table, InOrder(table, S)[n], i)}

ListedAfter(table, R, S, n) ==
  /\ Cardinality(R) = Cardinality(S) - n
  /\ \A k \in 1..Cardinality(R) : InOrder(table, R)[k] = InOrder(table, S)[n + k]

(* WHERE (stream_id, sequence_i64) > the last place of a page selects the  *)
(* rows after it, and ORDER BY lists them in the order of the whole list.  *)
LEMMA RestOfList ==
  ASSUME NEW table, NEW S, Ordered(table, S), NEW n \in 1..Cardinality(S),
         NEW R, SelectedAfter(table, R, S, n)
  PROVE  ListedAfter(table, R, S, n)
<1>0. R = {i \in S : Ahead(table, InOrder(table, S)[n], i)}
  BY Zenon DEF SelectedAfter
<1> DEFINE b == InOrder(table, S)[n]
           Low == RowsAhead(table, b, S) \cup {b}
<1>1. Listing(table, S)
  BY OrderLists, Zenon
<1>2. b \in S /\ Rank(table, b, S) = n - 1 /\ Cardinality(S) \in Nat
  BY <1>1, Zenon DEF Listing
<1>3. R \in SUBSET S /\ R = {i \in S : Ahead(table, b, i)}
  BY <1>0, Zenon
<1> HIDE DEF b
<1>4. Ordered(table, R)
  BY <1>3, PartIsOrdered, Zenon
<1>5. IsFiniteSet(Low) /\ Cardinality(Low) = n
  <2>1. /\ IsFiniteSet(RowsAhead(table, b, S))
        /\ Cardinality(RowsAhead(table, b, S)) = n - 1
    BY <1>2, RankCounts, Zenon
  <2>2. b \notin RowsAhead(table, b, S)
    BY <1>2, Zenon DEF RowsAhead, Ordered
  <2>3. IsFiniteSet(Low) /\ Cardinality(Low) = n - 1 + 1
    BY <2>1, <2>2, FS_AddElement, Zenon
  <2> QED BY <1>2, <2>3
<1>6. Low \cap R = {} /\ Low \cup R = S
  <2>1. ASSUME NEW j \in S PROVE j \in Low <=> ~Ahead(table, b, j)
    <3>1. j \in Low <=> Ahead(table, j, b) \/ j = b
      BY Zenon DEF RowsAhead
    <3>2. /\ ~Ahead(table, b, b) /\ (j # b => Ahead(table, j, b) \/ Ahead(table, b, j))
          /\ (Ahead(table, j, b) /\ Ahead(table, b, j) => Ahead(table, j, j))
          /\ ~Ahead(table, j, j)
      BY <1>2, Zenon DEF Ordered
    <3> QED BY <3>1, <3>2, Zenon
  <2>2. \A j \in Low : j \in S
    BY <1>2, Zenon DEF RowsAhead
  <2> HIDE DEF Low
  <2> QED BY <1>3, <2>1, <2>2, Zenon
<1>7. IsFiniteSet(R) /\ Cardinality(R) \in Nat
  BY <1>4, FS_CardinalityType, Zenon DEF Ordered
<1>8. Cardinality(R) = Cardinality(S) - n
  <2>1. Cardinality(S) = n + Cardinality(R)
    BY <1>5, <1>6, <1>7, PartsAddUp, Zenon
  <2> QED BY <1>2, <1>7, <2>1
<1>9. ASSUME NEW i \in R
      PROVE  Rank(table, i, S) = n + Rank(table, i, R)
  <2>1. i \in S /\ Ahead(table, b, i)
    BY <1>3, Zenon
  <2>2. /\ Rank(table, i, S) = Cardinality(RowsAhead(table, i, S))
        /\ Rank(table, i, R) = Cardinality(RowsAhead(table, i, R))
        /\ IsFiniteSet(RowsAhead(table, i, R))
    BY <1>4, <2>1, RankCounts, Zenon
  <2>3. Low \cap RowsAhead(table, i, R) = {}
    BY <1>6, Zenon DEF RowsAhead
  <2>4. \A j \in Low : j \in S /\ Ahead(table, j, i)
    BY <1>2, <2>1, Zenon DEF Ordered, RowsAhead
  <2> HIDE DEF Low
  <2>5. RowsAhead(table, i, S) = Low \cup RowsAhead(table, i, R)
    BY <1>3, <1>6, <2>4, Zenon DEF RowsAhead
  <2>6. Cardinality(Low \cup RowsAhead(table, i, R))
          = Cardinality(Low) + Cardinality(RowsAhead(table, i, R))
    BY <1>5, <2>2, <2>3, PartsAddUp, Zenon
  <2> QED BY <1>5, <2>2, <2>5, <2>6, Zenon
<1>10. ASSUME NEW k \in 1..Cardinality(R)
       PROVE  InOrder(table, R)[k] = InOrder(table, S)[n + k]
  <2>1. Listing(table, R)
    BY <1>4, OrderLists, Zenon
  <2>2. PICK i \in R : i = InOrder(table, R)[k] /\ Rank(table, i, R) = k - 1
    BY <2>1, Zenon DEF Listing
  <2>3. i \in S /\ Rank(table, i, S) = n + (k - 1)
    BY <1>3, <1>9, <2>2, Zenon
  <2>4. PICK m \in 1..Cardinality(S) : m = n + k /\ m - 1 = n + (k - 1)
    BY <1>2, <1>7, <1>8
  <2>5. InOrder(table, S)[m] = i
    BY <1>1, <2>3, <2>4, Zenon DEF Listing
  <2> QED BY <2>2, <2>4, <2>5, Zenon
<1> QED BY <1>8, <1>10, Zenon DEF ListedAfter

(* The rows of a table that has grown are listed as before.                *)
LEMMA ListStays ==
  ASSUME NEW table, NEW more, NEW S, Ordered(table, S),
         \A i \in S : Place(more, i) = Place(table, i)
  PROVE  Ordered(more, S) /\ InOrder(more, S) = InOrder(table, S)
<1>1. \A i, j \in S : Ahead(more, i, j) <=> Ahead(table, i, j)
  BY Zenon DEF Ahead
<1>2. Ordered(more, S)
  BY <1>1, Zenon DEF Ordered
<1>3. ASSUME NEW i \in S PROVE Rank(more, i, S) = Rank(table, i, S)
  <2>1. RowsAhead(more, i, S) = RowsAhead(table, i, S)
    BY <1>1, Zenon DEF RowsAhead
  <2> QED BY <1>2, <2>1, RankCounts, Zenon
<1> DEFINE f == InOrder(table, S)
           g == InOrder(more, S)
<1>4. Listing(table, S) /\ Listing(more, S)
  BY <1>2, OrderLists, Zenon
<1>5. \A k \in 1..Cardinality(S) : g[k] = f[k]
  <2> SUFFICES ASSUME NEW k \in 1..Cardinality(S) PROVE g[k] = f[k]
    BY Zenon
  <2>1. f[k] \in S /\ Rank(more, f[k], S) = k - 1
    BY <1>3, <1>4, Zenon DEF Listing
  <2> QED BY <1>4, <2>1, Zenon DEF Listing
<1>6. /\ f \in Seq(S) /\ g \in Seq(S) /\ Len(f) = Cardinality(S) /\ Len(g) = Cardinality(S)
  BY <1>4, Zenon DEF Listing
<1> HIDE DEF f, g
<1>7. f = g
  BY <1>5, <1>6
<1> QED BY <1>2, <1>7, Zenon DEF f, g

(* Of two rows of one stream the later has the higher sequence.            *)
LEMMA LaterIsHigher ==
  ASSUME NEW table, WellKept(table), NEW i \in DOMAIN table, NEW j \in DOMAIN table,
         table[i].stream = table[j].stream, i < j
  PROVE  table[i].sequence < table[j].sequence
<1> DEFINE s == table[i].stream
           A == RowsUpTo(table, i, s)
           B == RowsUpTo(table, j, s)
<1>1. Len(table) \in Nat /\ DOMAIN table = 1..Len(table)
  BY DEF WellKept
<1>2. i \in Nat /\ j \in Nat /\ j \notin 1..i /\ j \in 1..j /\ \A x \in 1..i : x \in 1..j
  BY <1>1
<1>3. j \notin A /\ A \cup {j} \in SUBSET B
  BY <1>2, Zenon DEF RowsUpTo
<1>4. IsFiniteSet(A) /\ Cardinality(A) \in Nat /\ IsFiniteSet(B) /\ Cardinality(B) \in Nat
  BY <1>2, RowsAreFinite, Zenon
<1>5. table[i].sequence = Cardinality(A) /\ table[j].sequence = Cardinality(B)
  BY Zenon DEF WellKept
<1> HIDE DEF A, B
<1>6. Cardinality(A \cup {j}) = Cardinality(A) + 1
  BY <1>3, <1>4, FS_AddElement, Zenon
<1>7. Cardinality(A \cup {j}) <= Cardinality(B)
  BY <1>3, <1>4, FS_Subset, Zenon
<1> QED BY <1>4, <1>5, <1>6, <1>7

(* Places are pairs of numbers, and the order of pairs is an order.        *)
LEMMA BeforeIsOrder ==
  ASSUME NEW a \in Nat, NEW b \in Nat, NEW c \in Nat, NEW d \in Nat, NEW e \in Nat, NEW f \in Nat
  PROVE  /\ ~Before(<<a, b>>, <<a, b>>)
         /\ <<a, b>> # <<c, d>> => Before(<<a, b>>, <<c, d>>) \/ Before(<<c, d>>, <<a, b>>)
         /\ Before(<<a, b>>, <<c, d>>) /\ Before(<<c, d>>, <<e, f>>) => Before(<<a, b>>, <<e, f>>)
BY DEF Before

(* No two rows of a table share a place, so the places order the rows.     *)
LEMMA PlacesOrdered ==
  ASSUME NEW table, WellKept(table), NEW S \in SUBSET DOMAIN table
  PROVE  Ordered(table, S)
<1>1. table \in Seq(Event) /\ Len(table) \in Nat /\ DOMAIN table = 1..Len(table)
  BY DEF WellKept
<1>2. IsFiniteSet(S)
  <2>1. IsFiniteSet(1..Len(table))
    BY <1>1, FS_Interval
  <2>2. S \in SUBSET (1..Len(table))
    BY <1>1, Zenon
  <2> QED BY <2>1, <2>2, FS_Subset, Zenon
<1>3. \A i \in S : table[i].stream \in Nat /\ table[i].sequence \in Nat
  <2>1. \A i \in S : table[i].stream \in Streams /\ table[i].sequence \in Nat
    BY <1>1, RowFields, Zenon
  <2>2. \A s \in Streams : s \in Nat
    BY StoreAssumption, Zenon
  <2> QED BY <2>1, <2>2, Zenon
<1>4. ASSUME NEW i \in S PROVE ~Ahead(table, i, i)
  BY <1>3, BeforeIsOrder, Zenon DEF Ahead, Place
<1>5. ASSUME NEW i \in S, NEW j \in S, i # j
      PROVE  Ahead(table, i, j) \/ Ahead(table, j, i)
  <2>1. i < j \/ j < i
    BY <1>1, <1>5
  <2>2. table[i].stream = table[j].stream =>
          table[i].sequence < table[j].sequence \/ table[j].sequence < table[i].sequence
    BY <2>1, LaterIsHigher, Zenon
  <2>3. table[i].stream # table[j].stream =>
          table[i].stream < table[j].stream \/ table[j].stream < table[i].stream
    BY <1>3
  <2> QED BY <2>2, <2>3 DEF Ahead, Place, Before
<1>6. ASSUME NEW i \in S, NEW j \in S, NEW k \in S, Ahead(table, i, j), Ahead(table, j, k)
      PROVE  Ahead(table, i, k)
  <2>1. PICK a, b, c, d, e, f \in Nat : /\ Place(table, i) = <<a, b>> /\ Place(table, j) = <<c, d>>
                                        /\ Place(table, k) = <<e, f>>
    BY <1>3, Zenon DEF Place
  <2> QED BY <1>6, <2>1, BeforeIsOrder DEF Ahead
<1> QED BY <1>2, <1>4, <1>5, <1>6, Zenon DEF Ordered

(* The rows up to the horizon of a read, of the streams it wants.          *)
Wanted(table, target, horizon) ==
  {i \in DOMAIN table : table[i].stream \in target /\ i <= horizon}

(* The first page selects from all of them: streams are numbered from 1,   *)
(* so every place comes after <<0, 0>>.                                    *)
LEMMA AllIsSelected ==
  ASSUME NEW table, WellKept(table), NEW target, NEW horizon
  PROVE  Selected(table, target, horizon, <<0, 0>>) = Wanted(table, target, horizon)
<1>1. ASSUME NEW i \in DOMAIN table PROVE Before(<<0, 0>>, Place(table, i))
  <2>1. table[i].stream \in Streams
    BY RowFields, Zenon DEF WellKept
  <2>2. \A s \in Streams : 0 < s
    BY StoreAssumption
  <2>3. 0 < table[i].stream
    BY <2>1, <2>2, Zenon
  <2>4. <<0, 0>>[1] < Place(table, i)[1]
    BY <2>3 DEF Place
  <2> QED BY <2>4, Zenon DEF Before
<1> QED BY <1>1, Zenon DEF Selected, Wanted

AfterRow(table, target, horizon, n, last) ==
  /\ n \in 0..Len(InOrder(table, Selected(table, target, horizon, <<0, 0>>)))
  /\ last = IF n = 0 THEN <<0, 0>>
            ELSE Place(table, InOrder(table, Selected(table, target, horizon, <<0, 0>>))[n])

SplitsAt(snap, rest, n, T) ==
  /\ snap \in Seq(T) /\ rest \in Seq(T) /\ Len(rest) = Len(snap) - n
  /\ \A k \in 1..Len(rest) : rest[k] = snap[n + k]

BringsOn(snap, rest, n, m) ==
  /\ SubSeq(snap, 1, n) \o SubSeq(rest, 1, m) = SubSeq(snap, 1, n + m)
  /\ Len(SubSeq(rest, 1, m)) = m
  /\ m # 0 => SubSeq(rest, 1, m)[m] = snap[n + m]
  /\ n + m \in 0..Len(snap)
  /\ SubSeq(rest, 1, m) = <<>> <=> m = 0

(* What follows another sequence is found further on.                      *)
LEMMA OneAfterTheOther ==
  ASSUME NEW T, NEW a \in Seq(T), NEW b \in Seq(T)
  PROVE  /\ a \o b \in Seq(T) /\ Len(a \o b) = Len(a) + Len(b)
         /\ \A k \in 1..(Len(a) + Len(b)) :
              (a \o b)[k] = IF k <= Len(a) THEN a[k] ELSE b[k - Len(a)]
OBVIOUS

(* The first m rows of the rest, put behind the first n of the snapshot,   *)
(* make the first n + m.                                                   *)
LEMMA PageGrows ==
  ASSUME NEW snap, NEW rest, NEW n \in 0..Len(snap), NEW m \in 0..Len(rest), NEW T,
         SplitsAt(snap, rest, n, T)
  PROVE  BringsOn(snap, rest, n, m)
<1>1. /\ snap \in Seq(T) /\ rest \in Seq(T) /\ Len(rest) = Len(snap) - n
      /\ \A k \in 1..Len(rest) : rest[k] = snap[n + k]
  BY Zenon DEF SplitsAt
<1>2. /\ SubSeq(snap, 1, n) \o SubSeq(rest, 1, m) = SubSeq(snap, 1, n + m)
      /\ Len(SubSeq(rest, 1, m)) = m
      /\ m # 0 => SubSeq(rest, 1, m)[m] = snap[n + m]
      /\ n + m \in 0..Len(snap)
  <2>1. Len(snap) \in Nat /\ Len(rest) \in Nat
    BY <1>1
  <2>2. n + m \in 0..Len(snap)
    BY <1>1, <2>1
  <2>3. Len(SubSeq(rest, 1, m)) = m
    BY <1>1, <2>1
  <2>4. m # 0 => SubSeq(rest, 1, m)[m] = snap[n + m]
    BY <1>1, <2>1
  <2>5. SubSeq(snap, 1, n) \o SubSeq(rest, 1, m) = SubSeq(snap, 1, n + m)
    <3> DEFINE a == SubSeq(snap, 1, n)
               b == SubSeq(rest, 1, m)
               c == SubSeq(snap, 1, n + m)
    <3>1. /\ a \in Seq(T) /\ Len(a) = n
          /\ c \in Seq(T) /\ Len(c) = n + m
      BY <1>1, <2>1, <2>2
    <3>2. b \in Seq(T) /\ Len(b) = m
      BY <1>1, <2>1
    <3>3. \A k \in 1..n : a[k] = snap[k]
      BY <1>1, <2>1
    <3>4. \A k \in 1..m : b[k] = snap[n + k]
      BY <1>1, <2>1
    <3>5. \A k \in 1..(n + m) : c[k] = snap[k]
      BY <1>1, <2>1, <2>2
    <3> HIDE DEF a, b, c
    <3> DEFINE d == a \o b
    <3>6. /\ d \in Seq(T) /\ Len(d) = n + m /\ n \in Nat /\ m \in Nat
          /\ \A k \in 1..(n + m) : d[k] = IF k <= n THEN a[k] ELSE b[k - n]
      <4>1. n \in Nat /\ m \in Nat
        BY <2>1
      <4>2. /\ d \in Seq(T) /\ Len(d) = Len(a) + Len(b)
            /\ \A k \in 1..(Len(a) + Len(b)) : d[k] = IF k <= Len(a) THEN a[k] ELSE b[k - Len(a)]
        BY <3>1, <3>2, OneAfterTheOther, Zenon
      <4> QED BY <3>1, <3>2, <4>1, <4>2, Zenon
    <3> HIDE DEF d
    <3>7. \A k \in 1..(n + m) : d[k] = snap[k]
      <4> SUFFICES ASSUME NEW k \in 1..(n + m) PROVE d[k] = snap[k]
        BY Zenon
      <4>1. CASE k <= n
        BY <3>3, <3>6, <4>1
      <4>2. CASE ~(k <= n)
        <5>1. PICK x \in 1..m : x = k - n /\ n + x = k
          BY <3>6, <4>2
        <5> QED BY <3>4, <3>6, <4>2, <5>1, Zenon
      <4> QED BY <4>1, <4>2, Zenon
    <3>8. d = c
      BY <3>1, <3>5, <3>6, <3>7
    <3> QED BY <3>8, Zenon DEF a, b, c, d
  <2> QED BY <2>2, <2>3, <2>4, <2>5, Zenon
<1>3. SubSeq(rest, 1, m) \in Seq(T)
  BY <1>1
<1>4. \A p \in Seq(T) : p = <<>> <=> Len(p) = 0
  OBVIOUS
<1>5. SubSeq(rest, 1, m) = <<>> <=> m = 0
  BY <1>2, <1>3, <1>4, Zenon
<1> QED BY <1>2, <1>5, Zenon DEF BringsOn

(* What is selected after the place of the n-th row is the snapshot from   *)
(* there on.                                                               *)
LEMMA RestIsSelected ==
  ASSUME NEW table, WellKept(table), NEW target \in SUBSET Streams, NEW horizon, NEW n, NEW last,
         AfterRow(table, target, horizon, n, last)
  PROVE  SplitsAt(InOrder(table, Selected(table, target, horizon, <<0, 0>>)),
                  InOrder(table, Selected(table, target, horizon, last)), n, DOMAIN table)
<1>0. PICK snap, rest :
        /\ snap = InOrder(table, Selected(table, target, horizon, <<0, 0>>))
        /\ rest = InOrder(table, Selected(table, target, horizon, last))
        /\ n \in 0..Len(snap)
        /\ last = IF n = 0 THEN <<0, 0>> ELSE Place(table, snap[n])
  BY Zenon DEF AfterRow
<1> SUFFICES SplitsAt(snap, rest, n, DOMAIN table)
  BY <1>0, Zenon
<1> DEFINE S == Selected(table, target, horizon, <<0, 0>>)
           R == Selected(table, target, horizon, last)
<1>1. S \in SUBSET DOMAIN table /\ R \in SUBSET DOMAIN table
  BY Zenon DEF Selected
<1>2. S = Wanted(table, target, horizon)
  BY AllIsSelected, Zenon
<1>3. R = {i \in S : Before(last, Place(table, i))}
  BY <1>2, Zenon DEF Selected, Wanted
<1> HIDE DEF S, R
<1>4. Ordered(table, S) /\ Ordered(table, R)
  BY <1>1, PlacesOrdered, Zenon
<1>5. Listing(table, S) /\ Listing(table, R)
  BY <1>4, OrderLists, Zenon
<1>6. snap = InOrder(table, S) /\ rest = InOrder(table, R)
  BY <1>0, Zenon DEF S, R
<1>7. /\ snap \in Seq(S) /\ Len(snap) = Cardinality(S) /\ Cardinality(S) \in Nat
      /\ rest \in Seq(R) /\ Len(rest) = Cardinality(R) /\ Cardinality(R) \in Nat
  BY <1>5, <1>6, Zenon DEF Listing
<1>8. snap \in Seq(DOMAIN table) /\ rest \in Seq(DOMAIN table)
  BY <1>1, <1>7
<1>9. CASE n = 0
  <2>1. R = S
    BY <1>0, <1>9, Zenon DEF R, S
  <2>2. rest = snap /\ Len(snap) \in Nat
    BY <1>6, <1>7, <2>1, Zenon
  <2>3. Len(rest) = Len(snap) - n /\ \A k \in 1..Len(rest) : n + k = k
    BY <1>9, <2>2
  <2> QED BY <1>8, <2>2, <2>3, Zenon DEF SplitsAt
<1>10. CASE n # 0
  <2>1. n \in 1..Cardinality(S)
    BY <1>0, <1>7, <1>10
  <2>2. R = {i \in S : Ahead(table, InOrder(table, S)[n], i)}
    BY <1>0, <1>3, <1>6, <1>10, Zenon DEF Ahead
  <2>3. SelectedAfter(table, R, S, n)
    BY <2>2, Zenon DEF SelectedAfter
  <2>4. ListedAfter(table, R, S, n)
    BY <1>4, <2>1, <2>3, RestOfList, Zenon
  <2> QED BY <1>6, <1>7, <1>8, <2>4, Zenon DEF ListedAfter, SplitsAt
<1> QED BY <1>9, <1>10, Zenon

(* The horizon of a read is the end of a transaction.                      *)
NoHalfPair(table, horizon) ==
  \A i \in 1..horizon : table[i].partner # NoEvent =>
    \E j \in 1..horizon : table[j].id = table[i].partner

(* A page brings a read on by as many rows.                                *)
LEMMA PageInv ==
  ASSUME WellKept(rows), DOMAIN cursor = Readers, NEW r \in Readers,
         NEW target \in SUBSET Streams, NEW horizon \in 0..Len(rows), NoHalfPair(rows, horizon),
         NEW n, NEW last, AfterRow(rows, target, horizon, n, last),
         ReadPage(r, target, horizon, last,
                  SubSeq(InOrder(rows, Selected(rows, target, horizon, <<0, 0>>)), 1, n))
  PROVE  /\ DOMAIN cursor' = Readers /\ \A x \in Readers : x # r => cursor'[x] = cursor[x]
         /\ ReaderInv(rows, cursor'[r])
<1> DEFINE snap == InOrder(rows, Selected(rows, target, horizon, <<0, 0>>))
           rest == InOrder(rows, Selected(rows, target, horizon, last))
           cut(limit) == IF Len(rest) > limit THEN limit ELSE Len(rest)
           page(k) == SubSeq(rest, 1, k)
           place(p) == IF p = <<>> THEN last ELSE Place(rows, p[Len(p)])
<1>1. /\ SplitsAt(snap, rest, n, DOMAIN rows) /\ n \in 0..Len(snap)
      /\ last = IF n = 0 THEN <<0, 0>> ELSE Place(rows, snap[n])
  BY RestIsSelected, Zenon DEF AfterRow
<1>2. PICK limit \in Limits :
        cursor' = [cursor EXCEPT ![r] =
          [state |-> IF Len(rest) > limit THEN "reading" ELSE "done", target |-> target,
           horizon |-> horizon, got |-> SubSeq(snap, 1, n) \o page(cut(limit)),
           last |-> place(page(cut(limit)))]]
  BY Zenon DEF ReadPage
<1> HIDE DEF snap, rest
<1>3. /\ Len(snap) \in Nat /\ Len(rest) \in Nat /\ Len(rest) = Len(snap) - n
      /\ snap \in Seq(DOMAIN rows) /\ rest \in Seq(DOMAIN rows)
      /\ \A k \in 1..Len(rest) : rest[k] = snap[n + k]
  BY <1>1 DEF SplitsAt
<1>4. PICK m \in 0..Len(rest) : /\ m = cut(limit)
                                /\ Len(rest) > limit <=> Len(rest) > m
  <2>1. limit \in Nat
    BY StoreAssumption, Zenon
  <2>2. CASE Len(rest) > limit
    BY <1>3, <2>1, <2>2
  <2>3. CASE ~(Len(rest) > limit)
    BY <1>3, <2>1, <2>3
  <2> QED BY <2>2, <2>3, Zenon
<1>5. /\ SubSeq(snap, 1, n) \o page(m) = SubSeq(snap, 1, n + m)
      /\ Len(page(m)) = m
      /\ m # 0 => page(m)[m] = snap[n + m]
      /\ n + m \in 0..Len(snap)
      /\ page(m) = <<>> <=> m = 0
  <2>1. BringsOn(snap, rest, n, m)
    BY <1>1, PageGrows, Zenon
  <2> QED BY <2>1, Zenon DEF BringsOn
<1>6. PICK state, got, l :
        /\ state = (IF Len(rest) > m THEN "reading" ELSE "done")
        /\ got = SubSeq(snap, 1, n) \o page(m)
        /\ l = place(page(m))
        /\ cursor' = [cursor EXCEPT ![r] = [state |-> state, target |-> target, horizon |-> horizon,
                                            got |-> got, last |-> l]]
  BY <1>2, <1>4, Zenon
<1>7. /\ DOMAIN cursor' = Readers /\ \A x \in Readers : x # r => cursor'[x] = cursor[x]
      /\ cursor'[r].target = target /\ cursor'[r].horizon = horizon
      /\ cursor'[r].state = state /\ cursor'[r].got = got /\ cursor'[r].last = l
  BY <1>6, Zenon
<1>8. Snapshot(rows, cursor'[r]) = snap
  BY <1>7, Zenon DEF Snapshot, snap
<1>9. l = IF n + m = 0 THEN <<0, 0>> ELSE Place(rows, snap[n + m])
  <2>1. CASE m = 0
    <3>1. n + m = n
      BY <1>1, <1>3, <2>1
    <3>2. l = last
      BY <1>5, <1>6, <2>1, Zenon
    <3> QED BY <1>1, <3>1, <3>2, Zenon
  <2>2. CASE m # 0
    <3>1. n + m # 0
      BY <1>1, <1>3, <1>4, <2>2
    <3>2. l = Place(rows, page(m)[m])
      BY <1>5, <1>6, <2>2, Zenon
    <3> QED BY <1>5, <2>2, <3>1, <3>2, Zenon
  <2> QED BY <2>1, <2>2, Zenon
<1>10. state = "done" => n + m = Len(snap)
  <2>1. state = "done" => ~(Len(rest) > m)
    BY <1>6, Zenon
  <2>2. ~(Len(rest) > m) => n + m = Len(snap)
    BY <1>1, <1>3, <1>4
  <2> QED BY <2>1, <2>2, Zenon
<1>11. got = SubSeq(snap, 1, n + m)
  BY <1>5, <1>6, Zenon
<1>12. Follows(rows, cursor'[r], n + m)
  BY <1>7, <1>8, <1>9, <1>10, <1>11, Zenon DEF Follows
<1>13. n + m \in 0..Len(Snapshot(rows, cursor'[r]))
  BY <1>5, <1>8, Zenon
<1> QED BY <1>7, <1>12, <1>13, Zenon DEF ReaderInv, NoHalfPair

(* What is committed after the first page changes nothing for a read.      *)
LEMMA ReaderStays ==
  ASSUME NEW table, NEW more, WellKept(table), WellKept(more), Len(table) <= Len(more),
         \A i \in 1..Len(table) : more[i] = table[i], NEW c, ReaderInv(table, c)
  PROVE  ReaderInv(more, c)
<1> DEFINE S == Wanted(table, c.target, c.horizon)
<1>1. /\ Len(table) \in Nat /\ DOMAIN table = 1..Len(table)
      /\ Len(more) \in Nat /\ DOMAIN more = 1..Len(more)
  BY DEF WellKept
<1>2. c.target \subseteq Streams /\ c.horizon \in 0..Len(table) /\ NoHalfPair(table, c.horizon)
  BY Zenon DEF ReaderInv, NoHalfPair
<1>3. c.horizon \in 0..Len(more) /\ \A i \in 1..c.horizon : i \in 1..Len(table)
  BY <1>1, <1>2
<1>4. NoHalfPair(more, c.horizon)
  BY <1>2, <1>3, Zenon DEF NoHalfPair
<1>5. Wanted(more, c.target, c.horizon) = S
  <2>1. \A i \in 1..Len(more) : i <= c.horizon => i \in 1..Len(table)
    BY <1>1, <1>2
  <2>2. \A i \in 1..Len(table) : i \in 1..Len(more)
    BY <1>1
  <2>3. ASSUME NEW i
        PROVE  i \in Wanted(more, c.target, c.horizon) <=> i \in S
    <3>1. i \in Wanted(more, c.target, c.horizon)
            <=> i \in 1..Len(more) /\ more[i].stream \in c.target /\ i <= c.horizon
      BY <1>1, Zenon DEF Wanted
    <3>2. i \in S
            <=> i \in 1..Len(table) /\ table[i].stream \in c.target /\ i <= c.horizon
      BY <1>1, Zenon DEF Wanted
    <3>3. i \in 1..Len(table) => more[i].stream = table[i].stream
      BY Zenon
    <3> QED BY <2>1, <2>2, <3>1, <3>2, <3>3, Zenon
  <2> QED BY <2>3, Zenon
<1>6. S \in SUBSET DOMAIN table /\ \A i \in S : Place(more, i) = Place(table, i)
  BY <1>1, Zenon DEF Wanted, Place
<1>7. Snapshot(table, c) = InOrder(table, S) /\ Snapshot(more, c) = InOrder(more, S)
  <2>1. /\ Selected(table, c.target, c.horizon, <<0, 0>>) = S
        /\ Selected(more, c.target, c.horizon, <<0, 0>>) = S
    BY <1>5, AllIsSelected, Zenon
  <2> QED BY <2>1, Zenon DEF Snapshot
<1> HIDE DEF S
<1>8. Ordered(table, S)
  BY <1>6, PlacesOrdered, Zenon
<1>9. InOrder(more, S) = InOrder(table, S)
  BY <1>6, <1>8, ListStays, Zenon
<1>10. PICK n \in 0..Len(Snapshot(table, c)) : Follows(table, c, n)
  BY Zenon DEF ReaderInv
<1>11. n \in 0..Len(InOrder(table, S)) /\ Snapshot(more, c) = Snapshot(table, c)
  BY <1>7, <1>9, <1>10, Zenon
<1>12. n # 0 => Place(more, Snapshot(table, c)[n]) = Place(table, Snapshot(table, c)[n])
  <2>1. /\ Cardinality(S) \in Nat /\ Len(InOrder(table, S)) = Cardinality(S)
        /\ \A k \in 1..Cardinality(S) : InOrder(table, S)[k] \in S
    BY <1>8, OrderLists, Zenon DEF Listing
  <2>2. n # 0 => n \in 1..Cardinality(S)
    BY <1>11, <2>1
  <2> QED BY <1>6, <1>7, <2>1, <2>2, Zenon
<1>13. Follows(more, c, n)
  BY <1>10, <1>11, <1>12, Zenon DEF Follows
<1>14. n \in 0..Len(Snapshot(more, c))
  BY <1>10, <1>11, Zenon
<1> QED BY <1>2, <1>3, <1>4, <1>13, <1>14, Zenon DEF ReaderInv, NoHalfPair

(* The first page of a read, at a horizon that no transaction crosses.     *)
LEMMA StartReadInv ==
  ASSUME StoreInv, ReadsInv, NEW r \in Readers, NEW target \in SUBSET Streams, StartRead(r, target)
  PROVE  ReadsInv'
<1> DEFINE snap == InOrder(rows, Selected(rows, target, Len(rows), <<0, 0>>))
<1>1. WellKept(rows) /\ PairsAreWhole /\ DOMAIN cursor = Readers /\ rows' = rows
  BY Zenon DEF StoreInv, TableInv, ReadsInv, StartRead
<1>2. Len(rows) \in Nat /\ DOMAIN rows = 1..Len(rows)
  BY <1>1 DEF WellKept
<1>3. NoHalfPair(rows, Len(rows)) /\ Len(rows) \in 0..Len(rows)
  <2>1. Len(rows) \in 0..Len(rows)
    BY <1>2
  <2> QED BY <1>1, <1>2, <2>1, Zenon DEF NoHalfPair, PairsAreWhole
<1>4. snap \in Seq(Selected(rows, target, Len(rows), <<0, 0>>))
  <2>1. Selected(rows, target, Len(rows), <<0, 0>>) \in SUBSET DOMAIN rows
    BY Zenon DEF Selected
  <2>2. Ordered(rows, Selected(rows, target, Len(rows), <<0, 0>>))
    BY <1>1, <2>1, PlacesOrdered, Zenon
  <2>3. Listing(rows, Selected(rows, target, Len(rows), <<0, 0>>))
    BY <2>2, OrderLists, Zenon
  <2> QED BY <2>3, Zenon DEF Listing
<1> HIDE DEF snap
<1>5. SubSeq(snap, 1, 0) = <<>> /\ 0 \in 0..Len(snap)
  BY <1>4
<1>6. AfterRow(rows, target, Len(rows), 0, <<0, 0>>)
  BY <1>5, Zenon DEF AfterRow, snap
<1>7. ReadPage(r, target, Len(rows), <<0, 0>>,
               SubSeq(InOrder(rows, Selected(rows, target, Len(rows), <<0, 0>>)), 1, 0))
  BY <1>5, Zenon DEF StartRead, snap
<1>8. /\ DOMAIN cursor' = Readers /\ \A x \in Readers : x # r => cursor'[x] = cursor[x]
      /\ ReaderInv(rows, cursor'[r])
  BY <1>1, <1>3, <1>6, <1>7, PageInv, Zenon
<1> QED BY <1>1, <1>8, Zenon DEF ReadsInv

(* A later page, at the horizon of the first.                              *)
LEMMA ContinueReadInv ==
  ASSUME StoreInv, ReadsInv, NEW r \in Readers, ContinueRead(r)
  PROVE  ReadsInv'
<1> DEFINE c == cursor[r]
           snap == InOrder(rows, Selected(rows, c.target, c.horizon, <<0, 0>>))
<1>1. /\ WellKept(rows) /\ DOMAIN cursor = Readers /\ rows' = rows
      /\ c.state = "reading" /\ ReadPage(r, c.target, c.horizon, c.last, c.got)
  BY Zenon DEF StoreInv, TableInv, ReadsInv, ContinueRead
<1>2. ReaderInv(rows, c)
  BY <1>1, Zenon DEF ReadsInv
<1>3. PICK n \in 0..Len(snap) : Follows(rows, c, n)
  BY <1>2, Zenon DEF ReaderInv, Snapshot
<1>4. /\ c.target \in SUBSET Streams /\ c.horizon \in 0..Len(rows)
      /\ NoHalfPair(rows, c.horizon)
  BY <1>2, Zenon DEF ReaderInv, NoHalfPair
<1>5. AfterRow(rows, c.target, c.horizon, n, c.last) /\ c.got = SubSeq(snap, 1, n)
  BY <1>3, Zenon DEF AfterRow, Follows, Snapshot
<1>6. ReadPage(r, c.target, c.horizon, c.last, SubSeq(snap, 1, n))
  BY <1>1, <1>5, Zenon
<1>7. /\ DOMAIN cursor' = Readers /\ \A x \in Readers : x # r => cursor'[x] = cursor[x]
      /\ ReaderInv(rows, cursor'[r])
  BY <1>1, <1>4, <1>5, <1>6, PageInv, Zenon
<1> QED BY <1>1, <1>7, Zenon DEF ReadsInv

(* COMMIT appends behind the horizon of every read.                        *)
LEMMA CommitReadsInv ==
  ASSUME StoreInv, ReadsInv, rows' = Visible, cursor' = cursor
  PROVE  ReadsInv'
<1>1. WellKept(rows) /\ WellKept(rows')
  BY Zenon DEF StoreInv, TableInv
<1>2. Len(rows) <= Len(rows') /\ \A i \in 1..Len(rows) : rows'[i] = rows[i]
  <2>1. rows \in Seq(Event) /\ staged \in Seq(Event)
    BY Zenon DEF StoreInv, StoreTypeOK, TableInv, WellKept
  <2>2. rows' = rows \o staged
    BY Zenon DEF Visible
  <2> QED BY <2>1, <2>2
<1>3. \A r \in Readers : cursor[r].state # "idle" => ReaderInv(rows', cursor[r])
  BY <1>1, <1>2, ReaderStays, Zenon DEF ReadsInv
<1> QED BY <1>3, Zenon DEF ReadsInv

(* Every step keeps the reads on their snapshots.                          *)
LEMMA ReadsStep ==
  ASSUME StoreInv, ReadsInv, [StoreNext]_storeVars
  PROVE  ReadsInv'
<1>1. CASE UNCHANGED <<rows, cursor>>
  BY <1>1, Zenon DEF ReadsInv
<1>2. ASSUME NEW w \in Writers, NEW id, NEW s, PlanAppend(w, id, s)
      PROVE  UNCHANGED <<rows, cursor>>
  BY <1>2, Zenon DEF PlanAppend
<1>3. ASSUME NEW w \in Writers, NEW id1, NEW s1, NEW id2, NEW s2, PlanPair(w, id1, s1, id2, s2)
      PROVE  UNCHANGED <<rows, cursor>>
  BY <1>3, Zenon DEF PlanPair
<1>4. ASSUME NEW w \in Writers, NEW delivered, Begin(w, delivered) \/ Insert(w, delivered)
      PROVE  UNCHANGED <<rows, cursor>>
  BY <1>4, Zenon DEF Begin, Insert
<1>5. ASSUME NEW w \in Writers, NEW delivered, Commit(w, delivered)
      PROVE  ReadsInv'
  BY <1>5, CommitReadsInv, Zenon DEF Commit
<1>6. ASSUME NEW w \in Writers, RollBack(w)
      PROVE  UNCHANGED <<rows, cursor>>
  BY <1>6, Zenon DEF RollBack
<1>7. ASSUME NEW r \in Readers, NEW target \in {{s} : s \in Streams} \cup {Streams},
             StartRead(r, target)
      PROVE  ReadsInv'
  <2>1. target \in SUBSET Streams
    BY <1>7, Zenon
  <2> QED BY <1>7, <2>1, StartReadInv, Zenon
<1>8. ASSUME NEW r \in Readers, ContinueRead(r)
      PROVE  ReadsInv'
  BY <1>8, ContinueReadInv, Zenon
<1>9. CASE UNCHANGED storeVars
  BY <1>1, <1>9, Zenon DEF storeVars
<1> QED BY <1>1, <1>2, <1>3, <1>4, <1>5, <1>6, <1>7, <1>8, <1>9, Zenon DEF StoreNext

(* Reads keep their invariant: for every number of readers, streams, page  *)
(* sizes and commits between two pages, a read has got the first rows of   *)
(* the snapshot at its horizon.                                            *)
THEOREM ReadsCorrect == StoreSpec => []ReadsInv
<1>1. StoreInit => ReadsInv
  <2> SUFFICES ASSUME StoreInit
               PROVE  ReadsInv
    OBVIOUS
  <2>1. DOMAIN cursor = Readers /\ \A r \in Readers : cursor[r] = [state |-> "idle"]
    BY Zenon DEF StoreInit
  <2>2. \A r \in Readers : cursor[r].state = "idle"
    BY <2>1
  <2> QED BY <2>1, <2>2, Zenon DEF ReadsInv
<1>2. StoreInv /\ ReadsInv /\ [StoreNext]_storeVars => ReadsInv'
  BY ReadsStep, Zenon
<1> QED BY <1>1, <1>2, StoreCorrect, PTL DEF StoreSpec

(* What a read has got, and that a finished one has got everything.        *)
LEMMA FinishedRead ==
  ASSUME StoreInv, ReadsInv, NEW r \in Readers, cursor[r].state # "idle"
  PROVE  /\ Snapshot(rows, cursor[r]) \in Seq(Wanted(rows, cursor[r].target, cursor[r].horizon))
         /\ Listing(rows, Wanted(rows, cursor[r].target, cursor[r].horizon))
         /\ Snapshot(rows, cursor[r])
              = InOrder(rows, Wanted(rows, cursor[r].target, cursor[r].horizon))
         /\ Len(cursor[r].got) <= Len(Snapshot(rows, cursor[r]))
         /\ cursor[r].got = SubSeq(Snapshot(rows, cursor[r]), 1, Len(cursor[r].got))
         /\ cursor[r].state = "done" => cursor[r].got = Snapshot(rows, cursor[r])
<1> DEFINE c == cursor[r]
           S == Wanted(rows, c.target, c.horizon)
           snap == Snapshot(rows, c)
<1>1. WellKept(rows) /\ ReaderInv(rows, c)
  BY Zenon DEF StoreInv, TableInv, ReadsInv
<1>2. snap = InOrder(rows, S)
  BY <1>1, AllIsSelected, Zenon DEF Snapshot
<1>3. Listing(rows, S)
  <2>1. S \in SUBSET DOMAIN rows
    BY Zenon DEF Wanted
  <2>2. Ordered(rows, S)
    BY <1>1, <2>1, PlacesOrdered, Zenon
  <2> QED BY <2>2, OrderLists, Zenon
<1>4. PICK n \in 0..Len(snap) : Follows(rows, c, n)
  BY <1>1, Zenon DEF ReaderInv
<1>5. c.got = SubSeq(snap, 1, n) /\ (c.state = "done" => n = Len(snap))
  BY <1>4, Zenon DEF Follows
<1> HIDE DEF S, snap, c
<1>6. snap \in Seq(S)
  BY <1>2, <1>3, Zenon DEF Listing
<1>7. Len(SubSeq(snap, 1, n)) = n /\ n <= Len(snap) /\ SubSeq(snap, 1, Len(snap)) = snap
  BY <1>4, <1>6
<1>8. Len(c.got) = n
  BY <1>5, <1>7, Zenon
<1>9. /\ Len(c.got) <= Len(snap) /\ c.got = SubSeq(snap, 1, Len(c.got))
      /\ c.state = "done" => c.got = snap
  BY <1>5, <1>7, <1>8, Zenon
<1> QED BY <1>2, <1>3, <1>6, <1>9, Zenon DEF S, snap, c

(* The pages of a read put together are the snapshot at its horizon, in    *)
(* order: no row is skipped, repeated or from a later commit.              *)
THEOREM PagesAlwaysFormSnapshot == StoreSpec => []PagesFormSnapshot
<1>1. StoreInv /\ ReadsInv => PagesFormSnapshot
  BY FinishedRead, Zenon DEF PagesFormSnapshot, Snapshot
<1> QED BY <1>1, StoreCorrect, ReadsCorrect, PTL

(* A finished read of the whole run has both events of a pair or none.     *)
THEOREM ReadsNeverSplitPairs == StoreSpec => []ReadsSeeWholePairs
<1>1. StoreInv /\ ReadsInv => ReadsSeeWholePairs
  <2> SUFFICES ASSUME StoreInv, ReadsInv, NEW r \in Readers,
                      cursor[r].state = "done", cursor[r].target = Streams,
                      NEW k \in DOMAIN cursor[r].got, rows[cursor[r].got[k]].partner # NoEvent
               PROVE  \E f \in {rows[cursor[r].got[x]] : x \in DOMAIN cursor[r].got} :
                        f.id = rows[cursor[r].got[k]].partner
    BY Zenon DEF ReadsSeeWholePairs
  <2> DEFINE h == cursor[r].horizon
             S == Wanted(rows, Streams, h)
             got == cursor[r].got
  <2>1. WellKept(rows) /\ ReaderInv(rows, cursor[r])
    BY Zenon DEF StoreInv, TableInv, ReadsInv
  <2>2. got = InOrder(rows, S) /\ Listing(rows, S)
    BY FinishedRead, Zenon
  <2>3. h \in 0..Len(rows) /\ NoHalfPair(rows, h)
    BY <2>1, Zenon DEF ReaderInv, NoHalfPair
  <2>4. S = 1..h
    <3>1. rows \in Seq(Event) /\ Len(rows) \in Nat /\ DOMAIN rows = 1..Len(rows)
      BY <2>1 DEF WellKept
    <3>2. \A i \in DOMAIN rows : rows[i].stream \in Streams
      BY <3>1, RowFields, Zenon
    <3>3. \A i : i \in 1..h <=> i \in 1..Len(rows) /\ i <= h
      BY <2>3, <3>1
    <3> QED BY <3>1, <3>2, <3>3, Zenon DEF Wanted
  <2> HIDE DEF S, got, h
  <2>5. DOMAIN got = 1..Cardinality(S)
    <3>1. got \in Seq(S) /\ Len(got) = Cardinality(S)
      BY <2>2, Zenon DEF Listing
    <3> QED BY <3>1
  <2>6. k \in 1..Cardinality(S) /\ got[k] \in S
    BY <2>2, <2>5, Zenon DEF Listing, got
  <2>7. PICK j \in S : rows[j].id = rows[got[k]].partner
    BY <2>3, <2>4, <2>6, Zenon DEF NoHalfPair, got
  <2>8. PICK x \in 1..Cardinality(S) : got[x] = j
    <3>1. S \in SUBSET DOMAIN rows
      BY Zenon DEF S, Wanted
    <3>2. Ordered(rows, S)
      BY <2>1, <3>1, PlacesOrdered, Zenon
    <3>3. /\ Rank(rows, j, S) \in Nat /\ Cardinality(S) \in Nat
          /\ Rank(rows, j, S) < Cardinality(S)
      BY <3>2, RankCounts, Zenon
    <3>4. PICK x \in 1..Cardinality(S) : Rank(rows, j, S) = x - 1
      <4> DEFINE x == Rank(rows, j, S) + 1
      <4>1. x \in 1..Cardinality(S) /\ Rank(rows, j, S) = x - 1
        BY <3>3
      <4> HIDE DEF x
      <4> QED BY <4>1, Zenon
    <3> QED BY <2>2, <3>4, Zenon DEF Listing
  <2>9. x \in DOMAIN got /\ rows[got[x]].id = rows[got[k]].partner
    BY <2>5, <2>7, <2>8, Zenon
  <2> QED BY <2>9, Zenon DEF got
<1> QED BY <1>1, StoreCorrect, ReadsCorrect, PTL
=============================================================================
