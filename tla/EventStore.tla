----------------------------- MODULE EventStore -----------------------------
(***************************************************************************)
(* The append-only event table of one run scope and its three operations:  *)
(* append, append_atomic_pair and the paged read.                          *)
(*                                                                         *)
(* Writers plan on what they read before (the sequence in the prepared     *)
(* event), then run a BEGIN IMMEDIATE transaction whose inserts become     *)
(* visible together at COMMIT; a failure or a crash between two inserts    *)
(* rolls all of them back, and a lost answer makes the writer try again    *)
(* with the same events.  Readers take pages in transactions of their own, *)
(* between which writers commit.                                           *)
(***************************************************************************)
EXTENDS Integers, Sequences, FiniteSetsExt, TLC

CONSTANTS
  Streams,     \* stream identifiers, ordered: a set of naturals above 0
  EventIds,    \* event identifiers, unique over the whole table
  NoEvent,     \* causation_id = None; partner of an event written alone
  Writers,
  Readers,
  NoWriter,    \* nobody holds the write lock
  Limits,      \* page sizes a reader may ask for
  Reused       \* identifiers that writers may plan with when they are taken

ASSUME StoreAssumption ==
  /\ Streams \subseteq Nat \ {0}
  /\ NoEvent \notin EventIds /\ NoWriter \notin Writers
  /\ Limits \subseteq Nat \ {0}
  /\ Reused \subseteq EventIds

VARIABLES
  rows,      \* committed rows in append_ordinal order
  plan,      \* plan[w]: the one or two prepared events w wants to append
  answer,    \* answer[w]: what w was told about plan[w]
  holder,    \* the writer inside BEGIN IMMEDIATE, or NoWriter
  staged,    \* rows inserted by the holder and not yet committed
  cursor     \* cursor[r]: a paged read, see StartRead

storeVars == <<rows, plan, answer, holder, staged, cursor>>

(* SELECT MAX(sequence_i64) ... WHERE stream_id = s                        *)
LastSequence(table, s) ==
  Max({0} \cup {table[i].sequence : i \in {j \in DOMAIN table : table[j].stream = s}})

StoreInit ==
  /\ rows = <<>> /\ staged = <<>>
  /\ plan = [w \in Writers |-> <<>>]
  /\ answer = [w \in Writers |-> "none"]
  /\ holder = NoWriter
  /\ cursor = [r \in Readers |-> [state |-> "idle"]]

(***************************************************************************)
(* A writer prepares its events (PreparedEvent): the sequences continue    *)
(* what it reads now, and the cause, if any, is the newest event it has    *)
(* seen in some stream, not necessarily its own.  The two events of a pair *)
(* go to one stream or to two.                                             *)
(***************************************************************************)
Planned(table, id, s, cause, partner) ==
  [id |-> id, stream |-> s, sequence |-> LastSequence(table, s) + 1,
   cause |-> cause, partner |-> partner]

Newest(table) ==
  {table[i].id : i \in {j \in DOMAIN table :
                        table[j].sequence = LastSequence(table, table[j].stream)}}

Plannable == Reused \cup {id \in EventIds : \A i \in DOMAIN rows : rows[i].id # id}

PlanAppend(w, id, s) ==
  /\ answer[w] # "pending"
  /\ \E cause \in {NoEvent} \cup Newest(rows) :
       plan' = [plan EXCEPT ![w] = <<Planned(rows, id, s, cause, NoEvent)>>]
  /\ answer' = [answer EXCEPT ![w] = "pending"]
  /\ UNCHANGED <<rows, holder, staged, cursor>>

PlanPair(w, id1, s1, id2, s2) ==
  /\ answer[w] # "pending"
  /\ id1 # id2 /\ s1 <= s2
  /\ LET first == Planned(rows, id1, s1, NoEvent, id2)
         second == Planned(Append(rows, first), id2, s2,
                           IF s1 = s2 THEN id1 ELSE NoEvent, id1)
     IN plan' = [plan EXCEPT ![w] = <<first, second>>]
  /\ answer' = [answer EXCEPT ![w] = "pending"]
  /\ UNCHANGED <<rows, holder, staged, cursor>>

-----------------------------------------------------------------------------
(***************************************************************************)
(* check_prepared_idempotency, for every event of the plan.                *)
(***************************************************************************)
Stored(e) == \E i \in DOMAIN rows : rows[i] = e

IdTaken(e) == \E i \in DOMAIN rows : rows[i].id = e.id

(* Variant: an event is taken for stored when its identifier is.           *)
IdempotencyById(p) ==
  IF \A i \in DOMAIN p : IdTaken(p[i]) THEN "AlreadyCommitted" ELSE "absent"

Idempotency(p) ==
  IF \E i \in DOMAIN p : IdTaken(p[i]) /\ ~Stored(p[i]) THEN "IdempotencyConflict"
  ELSE IF \A i \in DOMAIN p : Stored(p[i]) THEN "AlreadyCommitted"
  ELSE IF \E i \in DOMAIN p : Stored(p[i]) THEN "DatabaseCorrupt"
  ELSE "absent"

Deliver(w, a, delivered) ==
  answer' = [answer EXCEPT ![w] = IF delivered THEN a ELSE @]

(* BEGIN IMMEDIATE and the idempotency checks.  A retry ends here.         *)
Begin(w, delivered) ==
  /\ answer[w] = "pending"
  /\ holder = NoWriter
  /\ IF Idempotency(plan[w]) = "absent"
       THEN holder' = w /\ UNCHANGED answer
       ELSE Deliver(w, Idempotency(plan[w]), delivered) /\ UNCHANGED holder
  /\ UNCHANGED <<rows, plan, staged, cursor>>

(***************************************************************************)
(* insert_prepared for the next event of the plan.  It sees the rows the   *)
(* transaction has inserted itself; a failing check ends the transaction   *)
(* and with it every row it inserted.                                      *)
(***************************************************************************)
Visible == rows \o staged

(* Variants: the sequence is not checked again inside the transaction; the *)
(* cause may be an event of any stream.                                    *)
UncheckedSequence(e) ==
  IF /\ e.cause # NoEvent
     /\ ~\E i \in DOMAIN Visible :
          Visible[i].id = e.cause /\ Visible[i].stream = e.stream
    THEN "CausationConflict" ELSE "ok"

CauseInAnyStream(e) ==
  IF e.sequence # LastSequence(Visible, e.stream) + 1 THEN "SequenceConflict"
  ELSE IF e.cause # NoEvent /\ ~\E i \in DOMAIN Visible : Visible[i].id = e.cause
    THEN "CausationConflict"
  ELSE "ok"

InsertCheck(e) ==
  IF e.sequence # LastSequence(Visible, e.stream) + 1 THEN "SequenceConflict"
  ELSE IF /\ e.cause # NoEvent
          /\ ~\E i \in DOMAIN Visible :
               Visible[i].id = e.cause /\ Visible[i].stream = e.stream
    THEN "CausationConflict"
  ELSE "ok"

Insert(w, delivered) ==
  /\ holder = w
  /\ Len(staged) < Len(plan[w])
  /\ LET e == plan[w][Len(staged) + 1] IN
       IF InsertCheck(e) = "ok"
         THEN staged' = Append(staged, e) /\ UNCHANGED <<answer, holder>>
         ELSE /\ staged' = <<>> /\ holder' = NoWriter
              /\ Deliver(w, InsertCheck(e), delivered)
  /\ UNCHANGED <<rows, plan, cursor>>

Commit(w, delivered) ==
  /\ holder = w
  /\ Len(staged) = Len(plan[w])
  /\ rows' = Visible
  /\ staged' = <<>> /\ holder' = NoWriter
  /\ Deliver(w, "Appended", delivered)
  /\ UNCHANGED <<plan, cursor>>

(* Variant: what was inserted stays, as without a transaction.             *)
RollBackKeeps(w) ==
  /\ holder = w
  /\ rows' = Visible
  /\ staged' = <<>> /\ holder' = NoWriter
  /\ UNCHANGED <<plan, answer, cursor>>

(* An I/O error, an injected fault (AtomicPairFault) or the death of the   *)
(* process inside the transaction: nothing of it remains, and the writer   *)
(* does not learn whether it was committed.                                *)
RollBack(w) ==
  /\ holder = w
  /\ staged' = <<>> /\ holder' = NoWriter
  /\ UNCHANGED <<rows, plan, answer, cursor>>

-----------------------------------------------------------------------------
(***************************************************************************)
(* Paged reads, of one stream or (target = Streams) of the whole run.  The *)
(* first page fixes the horizon, the largest append_ordinal at that time;  *)
(* the cursor then carries it with the place of the last row returned.     *)
(***************************************************************************)
Before(p, q) == p[1] < q[1] \/ (p[1] = q[1] /\ p[2] < q[2])

Place(table, i) == <<table[i].stream, table[i].sequence>>

Selected(table, target, horizon, last) ==
  {i \in DOMAIN table : /\ table[i].stream \in target
                        /\ i <= horizon
                        /\ Before(last, Place(table, i))}

(* ORDER BY stream_id, sequence_i64: the k-th row has k - 1 before it.     *)
Rank(table, i, selected) ==
  Cardinality({j \in selected : Before(Place(table, j), Place(table, i))})

InOrder(table, selected) ==
  [k \in 1..Cardinality(selected) |->
     CHOOSE i \in selected : Rank(table, i, selected) = k - 1]

ReadPage(r, target, horizon, last, got) ==
  \E limit \in Limits :
    LET all == InOrder(rows, Selected(rows, target, horizon, last))
        more == Len(all) > limit
        page == SubSeq(all, 1, IF more THEN limit ELSE Len(all))
    IN cursor' = [cursor EXCEPT ![r] =
         [state |-> IF more THEN "reading" ELSE "done", target |-> target,
          horizon |-> horizon, got |-> got \o page,
          last |-> IF page = <<>> THEN last ELSE Place(rows, page[Len(page)])]]

StartRead(r, target) ==
  /\ cursor[r].state = "idle"
  /\ ReadPage(r, target, Len(rows), <<0, 0>>, <<>>)
  /\ UNCHANGED <<rows, plan, answer, holder, staged>>

(* Variant: every page takes the horizon of its own time.                  *)
ContinueAtNewHorizon(r) ==
  /\ cursor[r].state = "reading"
  /\ ReadPage(r, cursor[r].target, Len(rows), cursor[r].last, cursor[r].got)
  /\ UNCHANGED <<rows, plan, answer, holder, staged>>

ContinueRead(r) ==
  /\ cursor[r].state = "reading"
  /\ ReadPage(r, cursor[r].target, cursor[r].horizon, cursor[r].last, cursor[r].got)
  /\ UNCHANGED <<rows, plan, answer, holder, staged>>

-----------------------------------------------------------------------------
StoreNext ==
  \/ \E w \in Writers, id \in Plannable, s \in Streams : PlanAppend(w, id, s)
  \/ \E w \in Writers, id1, id2 \in Plannable, s1, s2 \in Streams :
       PlanPair(w, id1, s1, id2, s2)
  \/ \E w \in Writers, delivered \in BOOLEAN :
       Begin(w, delivered) \/ Insert(w, delivered) \/ Commit(w, delivered)
  \/ \E w \in Writers : RollBack(w)
  \/ \E r \in Readers, target \in {{s} : s \in Streams} \cup {Streams} :
       StartRead(r, target)
  \/ \E r \in Readers : ContinueRead(r)

StoreSpec == StoreInit /\ [][StoreNext]_storeVars

-----------------------------------------------------------------------------
Conflicts == {"IdempotencyConflict", "SequenceConflict", "CausationConflict"}

(* Every stream is gapless and in commit order, although writers prepare   *)
(* their sequence numbers before they hold the lock: the n-th row of a     *)
(* stream to be committed carries sequence n.                              *)
StreamsAreGapless ==
  \A i \in DOMAIN rows :
    rows[i].sequence =
      Cardinality({j \in 1..i : rows[j].stream = rows[i].stream})

(* append_atomic_pair writes both events or none, whatever fails between   *)
(* its inserts; so no retry ever finds half of a pair and reports          *)
(* DatabaseCorrupt.                                                        *)
PairsAreWhole ==
  /\ \A i \in DOMAIN rows : rows[i].partner # NoEvent =>
       \E j \in DOMAIN rows :
         rows[j].id = rows[i].partner /\ rows[j].partner = rows[i].id
  /\ \A w \in Writers : answer[w] # "DatabaseCorrupt"

(* The cause of an event is an earlier event of its own stream.            *)
CausesPrecede ==
  \A i \in DOMAIN rows : rows[i].cause # NoEvent =>
    \E j \in 1..(i - 1) :
      rows[j].id = rows[i].cause /\ rows[j].stream = rows[i].stream

(* Answers can be relied on, also after rollbacks and retries: an          *)
(* acknowledged append is stored, and one that was refused is not stored   *)
(* and never will be by anybody.                                           *)
AnswersAreFinal ==
  \A w \in Writers :
    /\ answer[w] \in {"Appended", "AlreadyCommitted"} =>
         \A i \in DOMAIN plan[w] : Stored(plan[w][i])
    /\ answer[w] \in Conflicts =>
         ~(\A i \in DOMAIN plan[w] : Stored(plan[w][i]))

(* The pages of one read put together are the snapshot at its horizon: no  *)
(* row is skipped, repeated or taken from a later commit, whatever is      *)
(* appended between two pages.                                             *)
PagesFormSnapshot ==
  \A r \in Readers : cursor[r].state # "idle" =>
    LET snapshot == InOrder(rows, Selected(rows, cursor[r].target, cursor[r].horizon, <<0, 0>>))
    IN /\ Len(cursor[r].got) <= Len(snapshot)
       /\ cursor[r].got = SubSeq(snapshot, 1, Len(cursor[r].got))
       /\ cursor[r].state = "done" => cursor[r].got = snapshot

(* A finished read of the whole run never separates the two events of a    *)
(* pair, because its horizon lies between two transactions.                *)
ReadsSeeWholePairs ==
  \A r \in Readers : cursor[r].state = "done" /\ cursor[r].target = Streams =>
    LET seen == {rows[cursor[r].got[k]] : k \in DOMAIN cursor[r].got} IN
    \A e \in seen : e.partner # NoEvent => \E f \in seen : f.id = e.partner

-----------------------------------------------------------------------------
(***************************************************************************)
(* Strengthening for the proof.  The table is looked at twice: as it is    *)
(* committed, and as the transaction in progress sees it.                  *)
(***************************************************************************)
Event ==
  [id : EventIds, stream : Streams, sequence : Nat \ {0},
   cause : EventIds \cup {NoEvent}, partner : EventIds \cup {NoEvent}]

RowsUpTo(table, n, s) == {j \in 1..n : table[j].stream = s}

(* The rows of each stream are numbered from 1 on, LastSequence counts     *)
(* them, and a cause precedes its event in the same stream.                *)
WellKept(table) ==
  /\ table \in Seq(Event)
  /\ \A i \in DOMAIN table :
       /\ table[i].sequence = Cardinality(RowsUpTo(table, i, table[i].stream))
       /\ table[i].sequence <= LastSequence(table, table[i].stream)
       /\ table[i].cause # NoEvent =>
            \E j \in 1..(i - 1) :
              table[j].id = table[i].cause /\ table[j].stream = table[i].stream
  /\ \A s \in Streams :
       LastSequence(table, s) = Cardinality(RowsUpTo(table, Len(table), s))

UniqueIds == \A i, j \in DOMAIN rows : rows[i].id = rows[j].id => i = j

SecondInStream(p, i) == i = 2 /\ p[2].stream = p[1].stream

(* A plan of two events is a pair; what a plan continues was there when it *)
(* was made, so it is at most one ahead of its stream.                     *)
PlanFollows(table, p) ==
  /\ p \in Seq(Event) /\ Len(p) <= 2
  /\ Len(p) = 1 => p[1].partner = NoEvent
  /\ Len(p) = 2 => /\ p[1].id # p[2].id
                   /\ p[1].partner = p[2].id /\ p[2].partner = p[1].id
  /\ \A i \in DOMAIN p :
       IF SecondInStream(p, i)
         THEN p[i].sequence = p[1].sequence + 1 /\ p[i].cause = p[1].id
         ELSE /\ p[i].sequence <= LastSequence(table, p[i].stream) + 1
              /\ p[i].cause # NoEvent => \E j \in DOMAIN table : table[j].id = p[i].cause

(* Inside the transaction: the plan is fixed and new to the table, and     *)
(* what was inserted so far is its beginning, above the committed rows.    *)
TransactionInv ==
  /\ holder = NoWriter => staged = <<>>
  /\ holder # NoWriter =>
       /\ answer[holder] = "pending"
       /\ Len(staged) <= Len(plan[holder])
       /\ \A i \in DOMAIN staged :
            /\ staged[i] = plan[holder][i]
            /\ staged[i].sequence > LastSequence(rows, staged[i].stream)
       /\ \A i \in DOMAIN plan[holder] : ~IdTaken(plan[holder][i])

(* Why an event can never be stored any more: its identifier is used by    *)
(* another event, its place is taken, or its cause is in another stream.   *)
Refuted(table, e) ==
  \/ \E i \in DOMAIN table : table[i].id = e.id /\ table[i] # e
  \/ /\ e.sequence <= LastSequence(table, e.stream)
     /\ \A i \in DOMAIN table : table[i] # e
  \/ \E i \in DOMAIN table : table[i].id = e.cause /\ table[i].stream # e.stream

StoreTypeOK ==
  /\ plan \in [Writers -> Seq(Event)]
  /\ answer \in [Writers -> {"none", "pending", "Appended", "AlreadyCommitted"} \cup Conflicts]
  /\ holder \in Writers \cup {NoWriter}
  /\ staged \in Seq(Event)

TableInv == WellKept(rows) /\ WellKept(Visible) /\ UniqueIds

PlanInv == \A w \in Writers : PlanFollows(rows, plan[w])

AnswerInv ==
  \A w \in Writers :
    /\ answer[w] \in {"Appended", "AlreadyCommitted"} =>
         \A i \in DOMAIN plan[w] : Stored(plan[w][i])
    /\ answer[w] \in Conflicts => \E i \in DOMAIN plan[w] : Refuted(rows, plan[w][i])

(* The inductive invariant of the store.                                   *)
StoreInv ==
  StoreTypeOK /\ TableInv /\ PlanInv /\ TransactionInv /\ PairsAreWhole /\ AnswerInv

(* What a read is going to return in the end, at its horizon.              *)
Snapshot(table, c) ==
  InOrder(table, Selected(table, c.target, c.horizon, <<0, 0>>))

(* A read has got the first n rows of its snapshot and remembers the place *)
(* of the n-th; at its horizon there was no half of a pair.                *)
Follows(table, c, n) ==
  /\ c.got = SubSeq(Snapshot(table, c), 1, n)
  /\ c.last = IF n = 0 THEN <<0, 0>> ELSE Place(table, Snapshot(table, c)[n])
  /\ c.state = "done" => n = Len(Snapshot(table, c))

ReaderInv(table, c) ==
  /\ c.target \subseteq Streams /\ c.horizon \in 0..Len(table)
  /\ \A i \in 1..c.horizon : table[i].partner # NoEvent =>
       \E j \in 1..c.horizon : table[j].id = table[i].partner
  /\ \E n \in 0..Len(Snapshot(table, c)) : Follows(table, c, n)

(* The inductive invariant of the paged reads, on top of StoreInv.         *)
ReadsInv ==
  /\ DOMAIN cursor = Readers
  /\ \A r \in Readers : cursor[r].state # "idle" => ReaderInv(rows, cursor[r])
=============================================================================
