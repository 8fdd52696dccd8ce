------------------------------ MODULE Migration ------------------------------
(***************************************************************************)
(* Opening a database file: the upgrade of its schema to version 2 inside  *)
(* one exclusive transaction, by processes that may fail or die at every   *)
(* step, while processes of the previous version still have the file open  *)
(* and go on appending events.                                             *)
(*                                                                         *)
(* An event is the body of a lifecycle event and the writer epoch of its   *)
(* row; its sequence is its position.                                      *)
(***************************************************************************)
EXTENDS LifecycleFold

CONSTANTS
  Openers,    \* processes of this version
  NoOpener,   \* nobody holds the exclusive transaction
  MaxEvents   \* bound on the length of the history

ASSUME MigrationAssumption == NoOpener \notin Openers /\ MaxEvents \in Nat

DbVersion == 2

VARIABLES
  version,   \* committed user_version
  objects,   \* committed schema objects of version 2
  events,    \* committed rows of the lifecycle stream
  upgrade,   \* the exclusive transaction: who is in it and what it has done
  handles    \* the processes that have opened the store

fileVars == <<version, objects, events>>

migrationVars == <<fileVars, upgrade, handles>>

NoUpgrade == [by |-> NoOpener]

(* The statements that take version 1 to version 2, in their order.        *)
(* Variant: the old writers are not fenced.                                *)
StepsWithoutFence ==
  <<"writer_epoch", "projection_snapshots", "projection_snapshots_lookup",
    "projection_snapshots_no_update", "projection_snapshots_no_delete">>

V2Steps ==
  <<"writer_epoch", "projection_snapshots", "projection_snapshots_lookup",
    "events_writer_epoch_v2", "projection_snapshots_no_update",
    "projection_snapshots_no_delete">>

-----------------------------------------------------------------------------
(* A new file, or one that version 1 has created.                          *)
MigrationInit ==
  /\ version \in 0..1
  /\ objects = {}
  /\ events = <<>>
  /\ upgrade = NoUpgrade
  /\ handles = {}

(***************************************************************************)
(* open_inner: BEGIN EXCLUSIVE.  A file of a newer version is refused; on  *)
(* one of this version the transaction has nothing to do but its checks.   *)
(***************************************************************************)
BeginExclusive(p) ==
  /\ upgrade = NoUpgrade
  /\ p \notin handles
  /\ version < DbVersion
  /\ upgrade' = [by |-> p, version |-> version, done |-> 0]
  /\ UNCHANGED <<fileVars, handles>>

OpenCurrent(p) ==
  /\ upgrade = NoUpgrade
  /\ p \notin handles
  /\ version = DbVersion
  /\ handles' = handles \cup {p}
  /\ UNCHANGED <<fileVars, upgrade>>

(* migrate_locked: the statements of version 1 and of version 2, one by    *)
(* one, all of them invisible to others until the commit.                  *)
CreateV1(p) ==
  /\ upgrade.by = p
  /\ upgrade.version = 0
  /\ upgrade' = [upgrade EXCEPT !.version = 1]
  /\ UNCHANGED <<fileVars, handles>>

MigrateStep(p) ==
  /\ upgrade.by = p
  /\ upgrade.version = 1
  /\ upgrade' = IF upgrade.done < Len(V2Steps) THEN [upgrade EXCEPT !.done = @ + 1]
                                               ELSE [upgrade EXCEPT !.version = 2]
  /\ UNCHANGED <<fileVars, handles>>

StagedObjects == {V2Steps[i] : i \in 1..upgrade.done}

(***************************************************************************)
(* The final checks of migrate_locked and the commit.  The identity that   *)
(* open_pinned expects is compared afterwards: a process that expected     *)
(* another store gets no handle, but the file has been upgraded.           *)
(***************************************************************************)
CommitUpgrade(p, expected) ==
  /\ upgrade.by = p
  /\ upgrade.version = DbVersion
  /\ version' = DbVersion
  /\ objects' = StagedObjects
  /\ handles' = IF expected THEN handles \cup {p} ELSE handles
  /\ upgrade' = NoUpgrade
  /\ UNCHANGED events

(* Variant: every statement is committed by itself.                        *)
FailKeepsSteps(p) ==
  /\ upgrade.by = p
  /\ objects' = StagedObjects
  /\ upgrade' = NoUpgrade
  /\ UNCHANGED <<version, events, handles>>

(* A statement fails (fail_v2_migration_after) or the process dies.        *)
FailUpgrade(p) ==
  /\ upgrade.by = p
  /\ upgrade' = NoUpgrade
  /\ UNCHANGED <<fileVars, handles>>

Close(p) ==
  /\ p \in handles
  /\ handles' = handles \ {p}
  /\ UNCHANGED <<fileVars, upgrade>>

-----------------------------------------------------------------------------
(***************************************************************************)
(* Appends, which wait for the write lock.  insert_prepared names the      *)
(* writer epoch; the statement of version 1 does not know the column and   *)
(* gets its default, which the trigger of version 2 refuses.               *)
(***************************************************************************)
Appendable == LET s == FoldLifecycle(events) IN {b \in Decidable(s) : Accepts(s, b)}

AppendRow(b, epoch) ==
  /\ upgrade = NoUpgrade
  /\ Len(events) < MaxEvents
  /\ events' = Append(events, [body |-> b, epoch |-> epoch])
  /\ UNCHANGED <<version, objects, upgrade, handles>>

InsertPrepared(p, b) == p \in handles /\ AppendRow(b, 2)

LegacyInsert(b) ==
  /\ version >= 1
  /\ "events_writer_epoch_v2" \notin objects
  /\ AppendRow(b, 1)

MigrationStep ==
  \/ \E p \in Openers :
       \/ BeginExclusive(p)
       \/ OpenCurrent(p)
       \/ CreateV1(p)
       \/ MigrateStep(p)
       \/ \E expected \in BOOLEAN : CommitUpgrade(p, expected)
       \/ FailUpgrade(p)
       \/ Close(p)
       \/ \E b \in Appendable : InsertPrepared(p, b)
  \/ \E b \in Appendable : LegacyInsert(b)

-----------------------------------------------------------------------------
(* An upgrade happens completely or not at all, whatever statement fails   *)
(* and whoever tries again: the schema objects of version 2 are there      *)
(* exactly when user_version says so, and nobody has a handle on a file    *)
(* without them.                                                           *)
UpgradeIsAtomic ==
  /\ objects = IF version = 2 THEN {V2Steps[i] : i \in DOMAIN V2Steps} ELSE {}
  /\ handles # {} => version = 2

(* Upgrading keeps the history and shuts out the old writers: no step      *)
(* changes or removes an event, and a process that opened the file before  *)
(* the upgrade adds nothing after it, though nobody told it to stop.       *)
OldWritersAreFenced ==
  [][/\ DOMAIN events \subseteq DOMAIN events'
     /\ \A i \in DOMAIN events : events'[i] = events[i]
     /\ version = 2 => \A i \in DOMAIN events' \ DOMAIN events : events'[i].epoch = 2
    ]_migrationVars

-----------------------------------------------------------------------------
(* Strengthening for the proof: what a transaction has staged at each      *)
(* point, and a history that folds.                                        *)
UpgradeInv ==
  upgrade # NoUpgrade =>
    /\ version < 2
    /\ upgrade \in [by : Openers, version : 0..2, done : 0..Len(V2Steps)]
    /\ upgrade.version = 2 => upgrade.done = Len(V2Steps)

EventsFold ==
  /\ events \in Seq([body : Bodies, epoch : 1..2])
  /\ FoldLifecycle(events) \in Aggregates
  /\ FoldLifecycle(events).ok

(* The inductive invariant of the upgrade and of the appends around it.    *)
MigrationInv ==
  /\ version \in 0..2
  /\ UpgradeInv
  /\ UpgradeIsAtomic
  /\ EventsFold
=============================================================================
