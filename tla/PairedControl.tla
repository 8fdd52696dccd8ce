---------------------------- MODULE PairedControl ----------------------------
(***************************************************************************)
(* What runtime control offers to the hook and the effect runtime: plans   *)
(* for a reservation and for a settlement, made in one transaction, and    *)
(* the check of the planned event in the later transaction that appends it *)
(* together with an event of the other stream.  Between the two, anything  *)
(* may be appended; a plan is bound to the cursors it was made at.         *)
(***************************************************************************)
EXTENDS RuntimeControl

VARIABLE
  moved   \* the streams whose cursor has moved on since each process planned

(***************************************************************************)
(* Every event of the control stream changes its folded state.  A command  *)
(* keeps the cursors of both streams from the transaction it planned in:   *)
(* they are those of the streams as long as nothing is appended.           *)
(***************************************************************************)
controlStream == <<capabilityVars, controlVars>>

AtCursor(p, stream) == stream \notin moved[p]

(***************************************************************************)
(* plan_hook_reservation, for the owner of the run.  A plan that fails     *)
(* records no denial.                                                      *)
(***************************************************************************)
PlanReservation(o, task, deadline, s) ==
  /\ Loaded
  /\ o \in Paired
  /\ o \notin Operating \cup denied
  /\ EnsureReserveLifecycle(task)
  /\ ~CancellationApplies(task, o)
  /\ s.wall < deadline
  /\ Authorized(Owner, task, Invoke, s.wall)
  /\ AllocationsFit(task, Owner)

(***************************************************************************)
(* prepare_hook_reservation_event and prepare_effect_reservation_event:    *)
(* the cursor is the planned one and the event folds.  The fold looks up   *)
(* the lifecycle at the checkpoint the plan recorded, where the run and    *)
(* the task were running, not at its present state.                        *)
(***************************************************************************)
PrepareReservation(p, o, task, deadline, wall) ==
  /\ Loaded
  /\ AtCursor(p, "control")
  /\ o \notin Operating \cup denied
  /\ Authorized(Owner, task, Invoke, wall)
  /\ ~CancellationApplies(task, o)
  /\ AllocationsFit(task, Owner)
  /\ wall < deadline

(***************************************************************************)
(* plan_hook_settlement and plan_effect_conservative_settlement: by the    *)
(* holder of a lease, before the deadline.  The latter leaves the          *)
(* cancellation to the fold.  plan_hook_timeout_settlement: by the owner.  *)
(***************************************************************************)
PlanConservativeSettlement(l, s) ==
  /\ Loaded
  /\ Pending(l.op)
  /\ VerifyLease(l, s)
  /\ BeforeDeadline(l, s)

PlanSettlement(l, outcome, s) ==
  /\ PlanConservativeSettlement(l, s)
  /\ CancellationApplies(ops[l.op].task, l.op) <=> outcome = "Cancelled"

PlanTimeoutSettlement(o, s) ==
  /\ Loaded
  /\ Pending(o)
  /\ s.wall >= ops[o].deadline

(* plan_effect_recovery_settlement: no lease, no sample, any outcome.      *)
PlanRecoverySettlement(o) == Loaded /\ Pending(o)

EffectCancellationIsEffective(o) == CancellationApplies(ops[o].task, o)

(***************************************************************************)
(* prepare_hook_settlement_event and prepare_effect_settlement_event: the  *)
(* cursor is the planned one and the event folds.                          *)
(***************************************************************************)
PrepareSettlement(p, o, outcome, wall) ==
  /\ Loaded
  /\ AtCursor(p, "control")
  /\ SettlementFolds(o, outcome, wall)
=============================================================================
