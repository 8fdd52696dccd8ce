------------------------------ MODULE Projection ------------------------------
(***************************************************************************)
(* Projections of the lifecycle stream and the snapshots that speed them   *)
(* up.  A snapshot is written once, in a transaction that folds the whole  *)
(* stream; later reads start from the newest one instead of the first      *)
(* event, while the history grows, processes with other reducers write     *)
(* theirs, and rows decay on disk.                                         *)
(*                                                                         *)
(* A digest is identified with what it is computed of.                     *)
(***************************************************************************)
EXTENDS Migration

CONSTANTS
  ReducerOf,     \* the reducer that each process has registered
  NoProjection,  \* nothing has been loaded yet
  MaxSnapshots,  \* bound on the snapshot rows
  MaxDecayed     \* bound on the rows that decay

ASSUME ProjectionAssumption ==
  /\ DOMAIN ReducerOf = Openers
  /\ MaxSnapshots \in Nat /\ MaxDecayed \in Nat

VARIABLES
  snapshots,  \* rows of projection_snapshots in snapshot_ordinal order
  held        \* a projection that some caller has loaded and kept

projectionVars == <<migrationVars, snapshots, held>>

Reducers == {ReducerOf[p] : p \in Openers}

(***************************************************************************)
(* history_seed, history_step and history_chain                            *)
(***************************************************************************)
HistorySeed(r) == [reducer |-> r, events |-> <<>>]

HistoryStep(h, e) == [reducer |-> h.reducer, events |-> Append(h.events, e)]

HistoryFrom(h, l) ==
  LET chain[n \in 0..Len(l)] == IF n = 0 THEN h ELSE HistoryStep(chain[n - 1], l[n])
  IN  chain[Len(l)]

HistoryChain(r, l) == HistoryFrom(HistorySeed(r), l)

(***************************************************************************)
(* build_projection and full_projection; a stream that does not fold gives *)
(* an error.                                                               *)
(***************************************************************************)
BuildProjection(r, state, chain) ==
  IF state.ok THEN [cursor |-> Len(events), reducer |-> r, chain |-> chain, state |-> state]
              ELSE [failed |-> "AggregateCorrupt"]

FullProjection(r) == BuildProjection(r, FoldLifecycle(events), HistoryChain(r, events))

(***************************************************************************)
(* select_snapshot: the largest cursor_sequence, among those the newest    *)
(* row, of whatever reducer.                                               *)
(***************************************************************************)
Candidates(horizon) == {i \in DOMAIN snapshots : snapshots[i].at <= horizon}

SelectSnapshot(horizon) ==
  CHOOSE i \in Candidates(horizon) : \A j \in Candidates(horizon) :
    \/ snapshots[j].at < snapshots[i].at
    \/ snapshots[j].at = snapshots[i].at /\ j <= i

(***************************************************************************)
(* validate_snapshot_candidate, in the order of the code: the bytes of the *)
(* row, the reducer, the cursor, the history up to the cursor.             *)
(***************************************************************************)
(* Variant: the history up to the cursor is not compared.                  *)
ValidateWithoutHistory(row, r) ==
  IF ~row.intact THEN "Integrity"
  ELSE IF row.reducer # r THEN "Incompatible"
  ELSE IF row.at # row.cursor \/ row.cursor \notin DOMAIN events THEN "Cursor"
  ELSE "Used"

ValidateSnapshotCandidate(row, r) ==
  IF ~row.intact THEN "Integrity"
  ELSE IF row.reducer # r THEN "Incompatible"
  ELSE IF row.at # row.cursor \/ row.cursor \notin DOMAIN events THEN "Cursor"
  ELSE IF HistoryChain(r, SubSeq(events, 1, row.cursor)) # row.chain THEN "HistoryMismatch"
  ELSE "Used"

(***************************************************************************)
(* apply_snapshot_suffix                                                   *)
(***************************************************************************)
Suffix(row) == SubSeq(events, row.cursor + 1, Len(events))

ApplySnapshotSuffix(row, r) ==
  BuildProjection(r, FoldFrom(row.state, Suffix(row)),
                  HistoryFrom(row.chain, Suffix(row)))

AssistedProjection(r) ==
  LET row == snapshots[SelectSnapshot(Len(events))]
      disposition == ValidateSnapshotCandidate(row, r)
  IN  IF Candidates(Len(events)) = {} THEN FullProjection(r) ELSE
        CASE disposition = "Used" -> ApplySnapshotSuffix(row, r)
          [] disposition = "HistoryMismatch" -> [failed |-> "HistoryMismatch"]
          [] OTHER -> FullProjection(r)

(***************************************************************************)
(* compare_projections, for callers of one run                             *)
(***************************************************************************)
(* Variant: two projections of one run can always be compared.             *)
ComparableByReducer(left, right) == left.reducer = right.reducer

Comparable(left, right) ==
  left.cursor = right.cursor /\ left.chain = right.chain /\ left.reducer = right.reducer

CompareProjections(left, right) ==
  IF ~Comparable(left, right) THEN "NotComparable"
  ELSE IF left = right THEN "Equal" ELSE "Divergent"

-----------------------------------------------------------------------------
ProjectionInit ==
  /\ MigrationInit
  /\ snapshots = <<>>
  /\ held = NoProjection

(***************************************************************************)
(* create_projection_snapshot.  A row for the same cursor and reducer is   *)
(* left as it is: the call succeeds when it is identical and is refused    *)
(* otherwise.                                                              *)
(***************************************************************************)
SnapshotRow(projection) ==
  [at |-> projection.cursor, intact |-> TRUE, cursor |-> projection.cursor,
   reducer |-> projection.reducer, chain |-> projection.chain, state |-> projection.state]

InsertSnapshot(row) ==
  /\ \A i \in DOMAIN snapshots : snapshots[i].at # row.at \/ snapshots[i].reducer # row.reducer
  /\ snapshots' = Append(snapshots, row)

CreateProjectionSnapshot(p) ==
  LET projection == FullProjection(ReducerOf[p])
  IN  /\ p \in handles
      /\ upgrade = NoUpgrade
      /\ events # <<>>
      /\ "failed" \notin DOMAIN projection
      /\ Len(snapshots) < MaxSnapshots
      /\ InsertSnapshot(SnapshotRow(projection))
      /\ UNCHANGED <<migrationVars, held>>

(***************************************************************************)
(* project_full (and recorded_replay), project_snapshot_assisted; a read   *)
(* that fails gives its caller nothing to keep.                            *)
(***************************************************************************)
Load(p, projection) ==
  /\ p \in handles
  /\ events # <<>>
  /\ "failed" \notin DOMAIN projection
  /\ held' = projection
  /\ UNCHANGED <<migrationVars, snapshots>>

ProjectFull(p) == Load(p, FullProjection(ReducerOf[p]))

ProjectSnapshotAssisted(p) == Load(p, AssistedProjection(ReducerOf[p]))

(***************************************************************************)
(* What becomes of a row behind the kernel's back: its bytes no longer     *)
(* match their fingerprints; the column that it is selected by no longer   *)
(* matches the record; or it is replaced by the record of another history, *)
(* here of the first n events, under the same cursor and with all its      *)
(* fingerprints and digests in order.                                      *)
(***************************************************************************)
Resealed(i) ==
  snapshots[i].chain # HistoryChain(snapshots[i].reducer, SubSeq(events, 1, snapshots[i].cursor))

Decayed ==
  {i \in DOMAIN snapshots :
     ~snapshots[i].intact \/ snapshots[i].at # snapshots[i].cursor \/ Resealed(i)}

Neighbours(n) == {n - 1, n + 1} \ {0}

DecayBytes(i) ==
  /\ Cardinality(Decayed) < MaxDecayed
  /\ snapshots' = [snapshots EXCEPT ![i].intact = FALSE]
  /\ UNCHANGED <<migrationVars, held>>

DecayColumn(i, at) ==
  /\ Cardinality(Decayed) < MaxDecayed
  /\ \A j \in DOMAIN snapshots : snapshots[j].at # at \/ snapshots[j].reducer # snapshots[i].reducer
  /\ snapshots' = [snapshots EXCEPT ![i].at = at]
  /\ UNCHANGED <<migrationVars, held>>

SealedAnew(row, n) ==
  [at |-> row.at, intact |-> row.intact, cursor |-> row.cursor, reducer |-> row.reducer,
   chain |-> HistoryChain(row.reducer, SubSeq(events, 1, n)),
   state |-> FoldLifecycle(SubSeq(events, 1, n))]

Reseal(i, n) ==
  /\ Cardinality(Decayed) < MaxDecayed
  /\ n # snapshots[i].cursor
  /\ snapshots' = [snapshots EXCEPT ![i] = SealedAnew(@, n)]
  /\ UNCHANGED <<migrationVars, held>>

ProjectionNext ==
  \/ MigrationStep /\ UNCHANGED <<snapshots, held>>
  \/ \E p \in Openers :
       \/ CreateProjectionSnapshot(p)
       \/ ProjectFull(p)
       \/ ProjectSnapshotAssisted(p)
  \/ \E i \in DOMAIN snapshots :
       \/ DecayBytes(i)
       \/ \E at \in Neighbours(snapshots[i].cursor) : DecayColumn(i, at)
       \/ \E n \in 1..Len(events) : Reseal(i, n)

ProjectionSpec == ProjectionInit /\ [][ProjectionNext]_projectionVars

-----------------------------------------------------------------------------
(* A snapshot never changes what is read: however old it is, whoever wrote *)
(* it with whatever reducer and however its row is damaged, a read that    *)
(* starts from it gives the same projection as the fold of the whole       *)
(* stream.  It fails where that one succeeds only with HistoryMismatch,    *)
(* and only when a row is the sealed record of another history; such a row *)
(* is never read from.                                                     *)
AssistedEqualsFull ==
  events # <<>> => \A r \in Reducers :
    \/ AssistedProjection(r) = FullProjection(r)
    \/ /\ AssistedProjection(r) = [failed |-> "HistoryMismatch"]
       /\ \E i \in DOMAIN snapshots : Resealed(i)

(* Comparisons tell the truth: a projection kept from an earlier read and  *)
(* one of now are Equal exactly when nothing was appended in between and   *)
(* the reducer is the same; otherwise they are NotComparable, and no two   *)
(* reads that succeed, by whatever path and process, are ever Divergent.   *)
ComparisonsAgree ==
  held # NoProjection => \A r \in Reducers :
    "failed" \notin DOMAIN AssistedProjection(r) =>
      CompareProjections(held, AssistedProjection(r)) =
        IF held.cursor = Len(events) /\ held.reducer = r THEN "Equal" ELSE "NotComparable"

-----------------------------------------------------------------------------
(* Strengthening for the proof: the projection that the first c events of  *)
(* a stream determine.  Kept projections are such projections, of a prefix *)
(* of the stream as it is now; a snapshot for the cursor c holds what the  *)
(* first n events determine, and n is c unless the row was resealed.       *)
ProjectionAt(l, c, r) ==
  [cursor |-> c, reducer |-> r, chain |-> HistoryChain(r, SubSeq(l, 1, c)),
   state |-> FoldLifecycle(SubSeq(l, 1, c))]

RowAt(l, c, n, r, at, intact) ==
  [at |-> at, intact |-> intact, cursor |-> c, reducer |-> r,
   chain |-> HistoryChain(r, SubSeq(l, 1, n)), state |-> FoldLifecycle(SubSeq(l, 1, n))]

TakenFrom(l, row) ==
  \E at \in Nat, intact \in BOOLEAN, c, n \in 1..Len(l), r \in Reducers :
    row = RowAt(l, c, n, r, at, intact)

LoadedFrom(l, projection) ==
  \E c \in 0..Len(l), r \in Reducers : projection = ProjectionAt(l, c, r)

(* The inductive invariant of the projections.                             *)
ProjectionInv ==
  /\ MigrationInv
  /\ snapshots \in Seq({snapshots[i] : i \in DOMAIN snapshots})
  /\ \A i \in DOMAIN snapshots : TakenFrom(events, snapshots[i])
  /\ held # NoProjection => LoadedFrom(events, held)
=============================================================================
