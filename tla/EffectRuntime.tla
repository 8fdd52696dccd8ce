---------------------------- MODULE EffectRuntime ----------------------------
(***************************************************************************)
(* Effects on the outside world: intent, dispatch claim, execution,        *)
(* receipt, recovery and reconciliation, composed with runtime control and *)
(* the lifecycle.                                                          *)
(*                                                                         *)
(* An effect and its operation are reserved and settled by atomic pairs,   *)
(* one event for the effect stream and one for the control stream.  A      *)
(* command first reads and plans in one transaction and appends in a later *)
(* one; what a process is in the middle of is its job.  A process may stop *)
(* at any point, which leaves the streams as they are.                     *)
(***************************************************************************)
EXTENDS PairedControl

CONSTANTS
  Effects,      \* effect identifiers (kind, idempotency key and request)
  NoProcess,    \* no process has claimed the effect
  MaxLate       \* bound on late receipts

ASSUME EffectAssumption == NoProcess \notin Processes /\ MaxLate \in Nat /\ Envelope >= 1

VARIABLES
  effectOpen,    \* the effect stream has its first event
  effects,       \* EffectAggregate.effects, a partial function
  lateReceipts,  \* EffectAggregate.late_receipt_count
  world,         \* what the effect has done outside
  calls,         \* how often its executor was invoked
  job            \* what each process is doing

effectStream == <<effectOpen, effects, lateReceipts>>

outside == <<world, calls>>

effectVars == <<effectStream, outside, job>>

allVars == <<vars, effectVars, moved>>

Intended == DOMAIN effects

TaskOf(e) == ops[effects[e].op].task

Worlds == {"Untouched", "Applied", "Partial"}

Conclusions == {"Applied", "NotApplied", "Partial", "Unknown"}

Resolution(w) == CASE w = "Applied"   -> "ResolvedApplied"
                   [] w = "Untouched" -> "ResolvedNotApplied"
                   [] w = "Partial"   -> "ResolvedPartial"

Effect ==
  [op: Paired, dispatch: {"Intended", "Claimed", "Concluded"},
   claimedBy: Processes \cup {NoProcess}, conclusion: Conclusions \cup {"Pending"},
   reconciliation: {"NotRequired", "Required"} \cup {Resolution(w) : w \in Worlds}]

Idle == [at |-> "idle"]

(***************************************************************************)
(* After each step: which plans have been overtaken by an append.          *)
(***************************************************************************)
Planned(j) == j.at \in {"request", "terminal", "reconcile"}

Appended ==
  (IF controlStream' = controlStream THEN {} ELSE {"control"}) \cup
  (IF effectStream' = effectStream THEN {} ELSE {"effect"})

TrackCursors ==
  moved' = [p \in Processes |->
    IF Planned(job[p]) /\ job'[p] = job[p] THEN moved[p] \cup Appended ELSE {}]

-----------------------------------------------------------------------------
(***************************************************************************)
(* fold_effect_events: what each event asks for and changes.               *)
(***************************************************************************)
FoldIntended(e, o) ==
  /\ e \notin Intended
  /\ effects' = [x \in Intended \cup {e} |->
       IF x # e THEN effects[x] ELSE
         [op |-> o, dispatch |-> "Intended", claimedBy |-> NoProcess,
          conclusion |-> "Pending", reconciliation |-> "NotRequired"]]

FoldClaimed(e, p) ==
  /\ effects[e].dispatch = "Intended"
  /\ effects' = [effects EXCEPT ![e].dispatch = "Claimed", ![e].claimedBy = p]

FoldConcluded(e, conclusion) ==
  /\ effects[e].dispatch \in IF conclusion = "NotApplied" THEN {"Intended", "Claimed"}
                                                         ELSE {"Claimed"}
  /\ effects' = [effects EXCEPT ![e].dispatch = "Concluded", ![e].conclusion = conclusion,
       ![e].reconciliation = IF conclusion \in {"Partial", "Unknown"} THEN "Required" ELSE @]

FoldReconciled(e, resolution) ==
  /\ effects[e].reconciliation = "Required"
  /\ effects' = [effects EXCEPT ![e].reconciliation = resolution]

-----------------------------------------------------------------------------
EffectInit ==
  /\ moved = [p \in Processes |-> {}]
  /\ effectOpen = FALSE
  /\ effects = [e \in {} |-> 0]
  /\ lateReceipts = 0
  /\ world = [e \in Effects |-> "Untouched"]
  /\ calls = [e \in Effects |-> 0]
  /\ job = [p \in Processes |-> Idle]

Starts(p, next) == job[p] = Idle /\ job' = [job EXCEPT ![p] = next]

Continues(p, at, next) == job[p].at = at /\ job' = [job EXCEPT ![p] = next]

(***************************************************************************)
(* initialize_effect_stream: the first event, once the run exists.         *)
(***************************************************************************)
InitializeEffectStream ==
  /\ runState # Absent
  /\ ~effectOpen
  /\ effectOpen' = TRUE
  /\ UNCHANGED <<vars, effects, lateReceipts, outside, job>>

(***************************************************************************)
(* request_effect: the first transaction looks for the effect and plans    *)
(* the reservation; append_effect_reserve_intent_pair appends the pair at  *)
(* the cursors of the plan.  The lease reaches the caller or is lost.      *)
(***************************************************************************)
PlanRequest(p, e, o, task, deadline, s) ==
  /\ effectOpen
  /\ e \notin Intended
  /\ PlanReservation(o, task, deadline, s)
  /\ Starts(p, [at |-> "request", effect |-> e, op |-> o, task |-> task,
                deadline |-> deadline, sample |-> s])
  /\ UNCHANGED <<vars, effectStream, outside>>

(* Variant: the intent is appended without the reservation.                *)
AppendIntentAlone(p, delivered) ==
  LET j == job[p]
  IN  /\ Continues(p, "request", Idle)
      /\ AtCursor(p, "effect")
      /\ FoldIntended(j.effect, j.op)
      /\ UNCHANGED <<lifecycleVars, capabilityVars, processVars, controlVars, effectOpen, lateReceipts, outside>>

AppendReserveIntentPair(p, delivered) ==
  LET j == job[p]
  IN  /\ Continues(p, "request", Idle)
      /\ AtCursor(p, "effect")
      /\ PrepareReservation(p, j.op, j.task, j.deadline, j.sample.wall)
      /\ FoldIntended(j.effect, j.op)
      /\ RecordReservation(j.op, Owner, j.task, j.deadline, p, j.sample.wall)
      /\ leases' = leases \cup (IF delivered THEN {LeaseOf(j.op, p, j.sample)} ELSE {})
      /\ UNCHANGED <<lifecycleVars, capabilityVars, denied, cancellations, acks, corrupt,
                     clock, samples, effectOpen, lateReceipts, outside>>

(***************************************************************************)
(* claim_effect_dispatch with ensure_effect_dispatch_admissible, in one    *)
(* transaction; only the claim that is appended yields a dispatch lease.   *)
(* The command names the effect cursor it was made for; one that names     *)
(* another cursor is refused and changes nothing.                          *)
(***************************************************************************)
EnsureEffectDispatchAdmissible(o, s) ==
  /\ Loaded
  /\ EnsureReserveLifecycle(ops[o].task)
  /\ Pending(o)
  /\ ~CancellationApplies(ops[o].task, o)
  /\ s.wall < ops[o].deadline

(* Variant: a reservation is a durable permission to dispatch.             *)
ClaimReserved(p, e, s) ==
  /\ e \in Intended
  /\ Pending(effects[e].op)
  /\ FoldClaimed(e, p)
  /\ Starts(p, [at |-> "dispatch", effect |-> e])
  /\ UNCHANGED <<vars, effectOpen, lateReceipts, outside>>

ClaimEffectDispatch(p, e, s) ==
  /\ e \in Intended
  /\ EnsureEffectDispatchAdmissible(effects[e].op, s)
  /\ FoldClaimed(e, p)
  /\ Starts(p, [at |-> "dispatch", effect |-> e])
  /\ UNCHANGED <<vars, effectOpen, lateReceipts, outside>>

(***************************************************************************)
(* The executor acts on the world and reports what it did, or that it does *)
(* not know (a lost response).                                             *)
(***************************************************************************)
Reports(w) == CASE w = "Applied"   -> {"Applied", "Unknown"}
                [] w = "Untouched" -> {"RejectedBeforeApply", "Unknown"}
                [] w = "Partial"   -> {"Partial", "Unknown"}

ExecuteEffect(p, w, class) ==
  LET e == job[p].effect
  IN  /\ Continues(p, "dispatch", [at |-> "receipt", effect |-> e, class |-> class])
      /\ class \in Reports(w)
      /\ world' = [world EXCEPT ![e] = w]
      /\ calls' = [calls EXCEPT ![e] = @ + 1]
      /\ UNCHANGED <<vars, effectStream>>

(***************************************************************************)
(* admit_effect_receipt: the first transaction decides what the receipt    *)
(* settles, append_effect_terminal_pair appends it at the cursors of the   *)
(* plan.  A malformed receipt counts as Unknown (the audit event that goes *)
(* with it is part of the same transaction).  What the fold asks of the    *)
(* lease depends on the lease and the sample only.                         *)
(***************************************************************************)
Conclusion(class) == IF class = "RejectedBeforeApply" THEN "NotApplied" ELSE class

MeterOf(class) == CASE class = "Applied"             -> 1
                    [] class = "RejectedBeforeApply" -> 0
                    [] OTHER                         -> NoMeter

TerminalPlan(e, conclusion, outcome, meter, s, callbacks) ==
  [at |-> "terminal", effect |-> e, conclusion |-> conclusion, outcome |-> outcome,
   meter |-> meter, wall |-> s.wall, callbacks |-> callbacks]

PlanReceipt(p, l, k, s, valid) ==
  LET e == job[p].effect
      class == IF valid THEN job[p].class ELSE "Unknown"
      outcome == IF class = "Applied" THEN "Succeeded" ELSE "Failed"
  IN  /\ Continues(p, "receipt", TerminalPlan(e, Conclusion(class), outcome,
                                              MeterOf(class), s, {k}))
      /\ effects[e].dispatch = "Claimed"
      /\ l.process = p /\ l.op = effects[e].op
      /\ IF class = "Applied" THEN PlanSettlement(l, outcome, s)
                              ELSE PlanConservativeSettlement(l, s)
      /\ CallbackAuthorityFolds(l, s)
      /\ UNCHANGED <<vars, effectStream, outside>>

(***************************************************************************)
(* recover_effect by the kernel's recovery clock.  Process epochs are      *)
(* compared by digests that each carry the domain they were made for.  As  *)
(* for a claim, a command made for another effect cursor is refused.       *)
(***************************************************************************)
EpochDigest(domain, process) == <<domain, process>>

LostEpochDigest(e) ==
  IF effects[e].dispatch = "Claimed"
    THEN EpochDigest("effect-claim-process-epoch-v1", effects[e].claimedBy)
    ELSE EpochDigest("effect-initial-process-epoch-v1", ops[effects[e].op].epoch)

Eligible(p, e, cause, s) ==
  LET o == effects[e].op
  IN  CASE cause = "ProcessEpochLost" ->
             EpochDigest("effect-current-process-epoch-v1", p) # LostEpochDigest(e)
        [] cause = "DeadlineDue" -> s.wall >= ops[o].deadline
        [] cause = "CancellationEffective" -> EffectCancellationIsEffective(o)

Causes == {"ProcessEpochLost", "DeadlineDue", "CancellationEffective"}

RecoveryOutcome(cause) == CASE cause = "ProcessEpochLost"      -> "Failed"
                            [] cause = "DeadlineDue"           -> "TimedOut"
                            [] cause = "CancellationEffective" -> "Cancelled"

(* Variant: what was not concluded has not been applied.                   *)
RecoverAsNotApplied(p, e, cause, s) ==
  /\ e \in Intended
  /\ effects[e].dispatch # "Concluded"
  /\ PlanRecoverySettlement(effects[e].op)
  /\ Eligible(p, e, cause, s)
  /\ Starts(p, TerminalPlan(e, "NotApplied", RecoveryOutcome(cause), 0, s, {}))
  /\ UNCHANGED <<vars, effectStream, outside>>

(* Variant: only effects of a running run are recovered.                   *)
RecoverWhileRunning(p, e, cause, s) ==
  /\ e \in Intended
  /\ effects[e].dispatch # "Concluded"
  /\ EnsureReserveLifecycle(TaskOf(e))
  /\ PlanRecoverySettlement(effects[e].op)
  /\ Eligible(p, e, cause, s)
  /\ Starts(p, IF effects[e].dispatch = "Claimed"
       THEN TerminalPlan(e, "Unknown", RecoveryOutcome(cause), NoMeter, s, {})
       ELSE TerminalPlan(e, "NotApplied", RecoveryOutcome(cause), 0, s, {}))
  /\ UNCHANGED <<vars, effectStream, outside>>

PlanRecovery(p, e, cause, s) ==
  LET claimed == effects[e].dispatch = "Claimed"
  IN  /\ e \in Intended
      /\ effects[e].dispatch # "Concluded"
      /\ PlanRecoverySettlement(effects[e].op)
      /\ Eligible(p, e, cause, s)
      /\ Starts(p, IF claimed
           THEN TerminalPlan(e, "Unknown", RecoveryOutcome(cause), NoMeter, s, {})
           ELSE TerminalPlan(e, "NotApplied", RecoveryOutcome(cause), 0, s, {}))
      /\ UNCHANGED <<vars, effectStream, outside>>

(* Variant: the effect stream is not compared with the plan.               *)
AppendTerminalAnywhere(p) ==
  LET j == job[p]
      o == effects[j.effect].op
  IN  /\ Continues(p, "terminal", Idle)
      /\ PrepareSettlement(p, o, j.outcome, j.wall)
      /\ FoldConcluded(j.effect, j.conclusion)
      /\ RecordSettlement(o, j.outcome, j.meter, j.callbacks)
      /\ UNCHANGED <<lifecycleVars, capabilityVars, processVars, denied, cancellations, acks,
                     corrupt, effectOpen, lateReceipts, outside>>

AppendTerminalPair(p) ==
  LET j == job[p]
      o == effects[j.effect].op
  IN  /\ Continues(p, "terminal", Idle)
      /\ AtCursor(p, "effect")
      /\ PrepareSettlement(p, o, j.outcome, j.wall)
      /\ FoldConcluded(j.effect, j.conclusion)
      /\ RecordSettlement(o, j.outcome, j.meter, j.callbacks)
      /\ UNCHANGED <<lifecycleVars, capabilityVars, processVars, denied, cancellations, acks,
                     corrupt, effectOpen, lateReceipts, outside>>

(***************************************************************************)
(* observe_late_effect_receipt: an audit fact about a concluded effect.    *)
(***************************************************************************)
ObserveLateEffectReceipt(e) ==
  /\ e \in Intended
  /\ effects[e].dispatch = "Concluded"
  /\ effects[e].claimedBy # NoProcess
  /\ lateReceipts < MaxLate
  /\ lateReceipts' = lateReceipts + 1
  /\ UNCHANGED <<vars, effectOpen, effects, outside, job>>

(***************************************************************************)
(* The reconciliation producer looks at the world; reconcile_effect admits *)
(* its observation later, at the cursor the command was made for.          *)
(***************************************************************************)
ObserveWorld(p, e) ==
  /\ e \in Intended
  /\ effects[e].reconciliation = "Required"
  /\ Starts(p, [at |-> "reconcile", effect |-> e, resolution |-> Resolution(world[e])])
  /\ UNCHANGED <<vars, effectStream, outside>>

ReconcileEffect(p) ==
  LET j == job[p]
  IN  /\ Continues(p, "reconcile", Idle)
      /\ AtCursor(p, "effect")
      /\ FoldReconciled(j.effect, j.resolution)
      /\ UNCHANGED <<vars, effectOpen, lateReceipts, outside>>

(***************************************************************************)
(* A process stops, or its call ends with an error: what it had planned,   *)
(* its dispatch lease and what the executor told it are gone.              *)
(***************************************************************************)
EndCall(p) ==
  /\ job[p] # Idle
  /\ job' = [job EXCEPT ![p] = Idle]
  /\ UNCHANGED <<vars, effectStream, outside>>

-----------------------------------------------------------------------------
(***************************************************************************)
(* transition_run and transition_task, with ensure_effects_complete_for_   *)
(* run and ensure_effects_complete_for_task in front of a success.         *)
(***************************************************************************)
(* Variant: an open reconciliation does not hold up a success.             *)
MerelyConcluded(e) == effects[e].dispatch = "Concluded"

Complete(e) == effects[e].dispatch = "Concluded" /\ effects[e].reconciliation # "Required"

EnsureEffectsCompleteForRun(to) == to = "Succeeded" => \A e \in Intended : Complete(e)

EnsureEffectsCompleteForTask(t, to) ==
  to = "Succeeded" => \A e \in Intended : TaskOf(e) = t => Complete(e)

EffectLifecycle ==
  \/ CreateRun
  \/ \E t \in Tasks, p \in Parents : CreateTask(t, p)
  \/ \E to \in RunStates :
       /\ EnsureNoPendingForRun(to)
       /\ EnsureEffectsCompleteForRun(to)
       /\ TransitionRun(to)
  \/ \E t \in Tasks, to \in TaskStates :
       /\ EnsureNoPendingForTask(t, to)
       /\ EnsureEffectsCompleteForTask(t, to)
       /\ TransitionTask(t, to)

EffectStep ==
  \/ InitializeEffectStream
  \/ \E p \in Processes, e \in Effects, s \in samples :
       \/ \E o \in Paired, t \in Parents, d \in Deadlines : PlanRequest(p, e, o, t, d, s)
       \/ ClaimEffectDispatch(p, e, s)
       \/ \E cause \in Causes : PlanRecovery(p, e, cause, s)
  \/ \E p \in Processes :
       \/ \E delivered \in BOOLEAN : AppendReserveIntentPair(p, delivered)
       \/ \E w \in Worlds : \E class \in Reports(w) : ExecuteEffect(p, w, class)
       \/ \E l \in leases, k \in Callbacks, s \in samples, valid \in BOOLEAN :
            PlanReceipt(p, l, k, s, valid)
       \/ AppendTerminalPair(p)
       \/ ReconcileEffect(p)
       \/ EndCall(p)
  \/ \E p \in Processes, e \in Effects : ObserveWorld(p, e)
  \/ \E e \in Effects : ObserveLateEffectReceipt(e)

EffectNext ==
  /\ \/ EffectStep
     \/ ControlStep /\ UNCHANGED <<lifecycleVars, capabilityVars, effectVars>>
     \/ CapabilityStep /\ ~corrupt /\ UNCHANGED <<lifecycleVars, processVars, controlVars, effectVars>>
     \/ EffectLifecycle /\ UNCHANGED <<capabilityVars, processVars, controlVars, effectVars>>
  /\ TrackCursors

EffectSpec == Init /\ EffectInit /\ [][EffectNext]_allVars

(***************************************************************************)
(* Time passes, and the owner keeps recovering effects that are due and    *)
(* reconciling those that are uncertain (explicit commands; the kernel has *)
(* no background scanner).  Strong fairness: a plan can be dropped because *)
(* its process stops or another command is appended first, but not for     *)
(* ever.                                                                   *)
(***************************************************************************)
DuePlan(p, e) == \E s \in samples : PlanRecovery(p, e, "DeadlineDue", s)

Committing(p, e, step) == job[p].at # "idle" /\ job[p].effect = e /\ step

Tracked(step) == step /\ TrackCursors

EffectFairness ==
  /\ WF_allVars(Tracked(Tick /\ UNCHANGED <<lifecycleVars, capabilityVars, effectVars>>))
  /\ \A p \in Processes : WF_allVars(Tracked(EndCall(p)))
  /\ \A e \in Effects :
       /\ SF_allVars(Tracked(\E p \in Processes : DuePlan(p, e)))
       /\ SF_allVars(Tracked(\E p \in Processes : Committing(p, e, AppendTerminalPair(p))))
       /\ SF_allVars(Tracked(\E p \in Processes : ObserveWorld(p, e)))
       /\ SF_allVars(Tracked(\E p \in Processes : Committing(p, e, ReconcileEffect(p))))

EffectFairSpec == EffectSpec /\ EffectFairness

-----------------------------------------------------------------------------
(* Type invariant of the folded effect stream, of the world and of the     *)
(* processes.                                                              *)
EffectTypeOK ==
  /\ effectOpen \in BOOLEAN
  /\ moved \in [Processes -> SUBSET {"control", "effect"}]
  /\ Intended \subseteq Effects
  /\ \A e \in Intended : effects[e] \in Effect
  /\ lateReceipts \in 0..MaxLate
  /\ world \in [Effects -> Worlds]
  /\ calls \in [Effects -> Nat]
  /\ DOMAIN job = Processes
  /\ \A p \in Processes : job[p] # Idle => job[p].effect \in Effects

PairAgrees(effect, o) ==
  /\ o.outcome = "Pending" <=> effect.dispatch # "Concluded"
  /\ effect.conclusion = "Applied" => o.outcome = "Succeeded" /\ o.accounted = 1
  /\ effect.conclusion = "NotApplied" => o.outcome # "Succeeded" /\ o.accounted = 0
  /\ effect.conclusion \in {"Partial", "Unknown"} =>
       o.outcome # "Succeeded" /\ o.accounted = Envelope

(* The two streams tell one story, although every pair is planned in one   *)
(* transaction and appended in another: each paired operation belongs to   *)
(* exactly one effect, it is settled exactly when the effect is concluded, *)
(* and the outcome and the accounted usage are those of the conclusion     *)
(* (everything for an uncertain attempt, nothing for one not applied).     *)
PairsAgree ==
  /\ \A e \in Intended : effects[e].op \in Operating
  /\ \A o \in Operating \cap Paired : \E e \in Intended : effects[e].op = o
  /\ \A e, f \in Intended : effects[e].op = effects[f].op => e = f
  /\ \A e \in Intended : PairAgrees(effects[e], ops[effects[e].op])

(* The executor of an effect is invoked at most once, and only by the one  *)
(* process whose claim is on record: crashes, retries, recovery by another *)
(* process and lost responses never lead to a second invocation.           *)
InvokedAtMostOnce ==
  \A e \in Effects :
    /\ calls[e] <= 1
    /\ calls[e] = 1 => e \in Intended /\ effects[e].claimedBy # NoProcess

(* A definite conclusion is true, and stays true: an effect on record as   *)
(* Applied has been applied, and one on record as NotApplied has not       *)
(* touched the world and never will, even though the process that claimed  *)
(* it may still be running when another one concludes it.                  *)
ConclusionIsTrue ==
  \A e \in Intended :
    /\ effects[e].conclusion = "Applied" => world[e] = "Applied"
    /\ effects[e].conclusion = "NotApplied" => world[e] = "Untouched"

(* A claim holds the run and the task in Running: no effect is dispatched  *)
(* behind a pause or an end of the run, whichever of the claim and the     *)
(* transition commits first.                                               *)
ClaimHoldsRun ==
  \A e \in Intended : effects[e].dispatch = "Claimed" => EnsureReserveLifecycle(TaskOf(e))

(* A success hides no uncertain effect: once the run (or the task of the   *)
(* effect) has succeeded, no effect of it is claimed, and none waits for   *)
(* its reconciliation.                                                     *)
SuccessIsCertain ==
  \A e \in Intended :
    runState = "Succeeded" \/ (TaskOf(e) # NoTask /\ taskState[TaskOf(e)] = "Succeeded") =>
      effects[e].dispatch # "Claimed" /\ effects[e].reconciliation # "Required"

VerdictOf(e) ==
  IF e \notin Intended THEN "None"
  ELSE IF effects[e].conclusion = "Pending" THEN "Open"
  ELSE IF effects[e].conclusion \in {"Applied", "NotApplied"} THEN effects[e].conclusion
  ELSE IF effects[e].reconciliation = "Required" THEN "Uncertain" ELSE "Resolved"

Outcome == INSTANCE EffectOutcome WITH
  verdict <- [e \in Effects |-> VerdictOf(e)], attempts <- calls, happened <- world

(* The effect runtime keeps the promise of EffectOutcome: at most one      *)
(* attempt, none after a definite verdict, true verdicts, and verdicts     *)
(* that stand.                                                             *)
KeepsOutcomes == Outcome!OutcomeSpec

(* Every effect on record is concluded in the end, and every uncertain one *)
(* is resolved, whatever happens to the processes and leases that started  *)
(* it and although other commands overtake the plans.  Only a control      *)
(* stream that nobody can read any more leaves an effect open for good,    *)
(* and only one that was not concluded by then: reconcile_effect does not  *)
(* read that stream.                                                       *)
EveryEffectIsDecided ==
  \A e \in Effects : (e \in Intended) ~>
    (e \in Intended /\ (Complete(e) \/ (corrupt /\ effects[e].dispatch # "Concluded")))

(* No operation is reserved once the run or its task has stopped: whichever*)
(* of a pause or an end and a reservation commits first, the other one is  *)
(* refused.                                                                *)
NoReservationAfterStop ==
  [][\A o \in DOMAIN ops' \ Operating : EnsureReserveLifecycle(ops'[o].task)]_allVars

-----------------------------------------------------------------------------
(* Strengthening for the proof.  What is on record about an effect fits    *)
(* what was done about it, ...                                             *)
RecordInv ==
  /\ \A e \in Intended :
       /\ effects[e].dispatch = "Intended" => effects[e].claimedBy = NoProcess
       /\ effects[e].dispatch = "Claimed" => effects[e].claimedBy \in Processes
       /\ effects[e].dispatch = "Concluded" <=> effects[e].conclusion # "Pending"
       /\ effects[e].conclusion \in {"Partial", "Unknown"} <=>
            effects[e].reconciliation # "NotRequired"
  /\ \A e \in Effects : calls[e] = 0 => world[e] = "Untouched"

(* ... a process that still can invoke the executor holds the only claim   *)
(* and leaves room for it, ...                                             *)
DispatchInv(p) ==
  LET e == job[p].effect
  IN  /\ job[p].at \in {"dispatch", "receipt"} => e \in Intended /\ effects[e].claimedBy = p
      /\ job[p].at = "dispatch" =>
           calls[e] = 0 /\ effects[e].conclusion \notin {"Applied", "NotApplied"}
      /\ job[p].at = "receipt" => calls[e] = 1 /\ job[p].class \in Reports(world[e])

(* ... and a plan that would conclude an effect definitely is true: a plan *)
(* from before a claim because it is refused after it.                     *)
PlanInv(p) ==
  LET e == job[p].effect
  IN  /\ job[p].at = "request" => job[p].op \in Paired
      /\ job[p].at = "terminal" =>
           /\ e \in Intended /\ job[p].conclusion \in Conclusions
           /\ job[p].conclusion = "Applied" => world[e] = "Applied"
           /\ job[p].conclusion = "NotApplied" =>
                \/ world[e] = "Untouched" /\ calls[e] = 1
                \/ AtCursor(p, "effect") => effects[e].dispatch = "Intended"
      /\ job[p].at = "reconcile" =>
           e \in Intended /\ job[p].resolution \in {Resolution(w) : w \in Worlds}

(* The inductive invariant of the effect runtime: records, claims, calls   *)
(* under way and plans in the memory of processes fit together so that     *)
(* neither a claim nor a recovery that was planned too early leads to a    *)
(* second invocation of an executor or to a conclusion that is not true.   *)
EffectInv ==
  /\ EffectTypeOK
  /\ InvokedAtMostOnce
  /\ ConclusionIsTrue
  /\ RecordInv
  /\ \A p \in Processes : DispatchInv(p) /\ PlanInv(p)

(* What a plan will record in the two streams fits together before it is   *)
(* appended: the outcome and the meter of the settlement go with the       *)
(* conclusion of the effect.                                               *)
TerminalAgrees(conclusion, outcome, meter) ==
  \/ conclusion = "Applied" /\ outcome = "Succeeded" /\ meter = 1
  \/ conclusion = "NotApplied" /\ outcome \in Outcomes \ {"Succeeded"} /\ meter = 0
  \/ /\ conclusion \in {"Partial", "Unknown"}
     /\ outcome \in Outcomes \ {"Succeeded"} /\ meter = NoMeter

PlanAgrees(j) ==
  /\ j.at = "request" => j.task \in Parents /\ j.deadline \in Nat /\ j.sample \in Sample
  /\ j.at = "terminal" => /\ TerminalAgrees(j.conclusion, j.outcome, j.meter)
                          /\ j.callbacks \subseteq Callbacks

(* The inductive invariant of the pairs, on top of EffectInv: the two      *)
(* streams and the plans that are under way agree, and a claim, which only *)
(* a settlement ends, holds the lifecycle until nothing is uncertain.      *)
EffectPairsInv ==
  /\ OperationsTyped
  /\ PairsAgree
  /\ ClaimHoldsRun
  /\ SuccessIsCertain
  /\ \A p \in Processes : PlanAgrees(job[p])
=============================================================================
