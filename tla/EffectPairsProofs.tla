-------------------------- MODULE EffectPairsProofs --------------------------
(***************************************************************************)
(* The effect stream, the control stream and the lifecycle agree, for      *)
(* every number of processes, effects, operations and tasks.               *)
(* EffectPairsInv is the inductive invariant, on top of EffectInv and of   *)
(* what the lifecycle guarantees: it adds what the plans of a process will *)
(* append, because a pair is planned in one transaction and appended in    *)
(* another.                                                                *)
(***************************************************************************)
EXTENDS EffectProofs, PairProofs, RuntimeControlProofs

(* Initially nothing is on record in either stream.                        *)
LEMMA PairsInitInv == Init /\ EffectInit => EffectPairsInv
<1> SUFFICES ASSUME Init, EffectInit PROVE EffectPairsInv
  BY Zenon
<1>1. Intended = {} /\ Operating = {}
  BY Zenon DEF EffectInit, Init, ControlInit, Intended, Operating
<1>2. OperationsTyped
  <2>1. clock \in Sample /\ samples \subseteq Sample
    BY DEF Init, ControlInit, Sample
  <2> QED BY <1>1, <2>1, Zenon DEF OperationsTyped
<1>3. PairsAgree /\ ClaimHoldsRun /\ SuccessIsCertain
  BY <1>1, Zenon DEF PairsAgree, ClaimHoldsRun, SuccessIsCertain
<1>4. \A p \in Processes : PlanAgrees(job[p])
  BY Zenon DEF EffectInit, PlanAgrees, Idle
<1> QED BY <1>2, <1>3, <1>4, Zenon DEF EffectPairsInv

(* A step that appends to none of the streams keeps the pairs as they are; *)
(* it may plan.                                                            *)
LEMMA QuietPairs ==
  ASSUME EffectPairsInv, UNCHANGED <<ops, clock, samples, effects, lifecycleVars>>,
         \A p \in Processes : PlanAgrees(job'[p])
  PROVE  EffectPairsInv'
<1>1. Intended' = Intended /\ Operating' = Operating
  BY Zenon DEF Intended, Operating
<1>2. OperationsTyped'
  BY <1>1, Zenon DEF EffectPairsInv, OperationsTyped
<1>3. PairsAgree'
  BY <1>1, Zenon DEF EffectPairsInv, PairsAgree
<1>4. UNCHANGED <<runState, taskState>>
  BY Zenon DEF lifecycleVars
<1>5. ClaimHoldsRun' /\ SuccessIsCertain'
  BY <1>1, <1>4, Zenon DEF EffectPairsInv, ClaimHoldsRun, SuccessIsCertain, EnsureReserveLifecycle, TaskOf
<1> QED BY <1>2, <1>3, <1>5, Zenon DEF EffectPairsInv

(* What the plans say of the two streams fits together: a receipt reports  *)
(* success, usage and conclusion of one class, and a recovery accounts     *)
(* nothing or everything.                                                  *)
LEMMA PlansAgree ==
  ASSUME NEW p \in Processes, EffectInv, EffectPairsInv,
         \/ \E e \in Effects, o \in Paired, t \in Parents, d \in Deadlines, s \in samples :
              PlanRequest(p, e, o, t, d, s)
         \/ \E l \in leases, k \in Callbacks, s \in samples, valid \in BOOLEAN :
              PlanReceipt(p, l, k, s, valid)
         \/ \E e \in Effects, cause \in Causes, s \in samples : PlanRecovery(p, e, cause, s)
         \/ \E w \in Worlds : \E class \in Reports(w) : ExecuteEffect(p, w, class)
         \/ \E e \in Effects : ObserveWorld(p, e)
         \/ EndCall(p)
  PROVE  EffectPairsInv'
<1>1. DOMAIN job = Processes
  BY Zenon DEF EffectInv, EffectTypeOK
<1>2. ASSUME NEW next, job' = [job EXCEPT ![p] = next], PlanAgrees(next), UNCHANGED vars, UNCHANGED effects
      PROVE  EffectPairsInv'
  <2>1. UNCHANGED <<ops, clock, samples, lifecycleVars>>
    BY <1>2, Zenon DEF vars, processVars, controlVars
  <2>2. \A q \in Processes : PlanAgrees(job'[q])
    BY <1>1, <1>2, Zenon DEF EffectPairsInv
  <2> QED BY <1>2, <2>1, <2>2, QuietPairs, Zenon
<1>3. CASE \E e \in Effects, o \in Paired, t \in Parents, d \in Deadlines, s \in samples :
             PlanRequest(p, e, o, t, d, s)
  <2>1. PICK e \in Effects, o \in Paired, t \in Parents, d \in Deadlines, s \in samples :
          PlanRequest(p, e, o, t, d, s)
    BY <1>3, Zenon
  <2> DEFINE next == [at |-> "request", effect |-> e, op |-> o, task |-> t,
                      deadline |-> d, sample |-> s]
  <2>2. job' = [job EXCEPT ![p] = next] /\ UNCHANGED <<vars, effects>>
    BY <2>1, Zenon DEF PlanRequest, Starts, effectStream
  <2>3. d \in Nat /\ s \in Sample
    BY ControlAssumption, Zenon DEF EffectPairsInv, OperationsTyped
  <2>4. PlanAgrees(next)
    BY <2>3, Zenon DEF PlanAgrees
  <2> QED BY <2>2, <2>4, <1>2, ZenonT(60)
<1>4. CASE \E l \in leases, k \in Callbacks, s \in samples, valid \in BOOLEAN :
             PlanReceipt(p, l, k, s, valid)
  <2>1. PICK l \in leases, k \in Callbacks, s \in samples, valid \in BOOLEAN :
          PlanReceipt(p, l, k, s, valid)
    BY <1>4, Zenon
  <2> DEFINE e == job[p].effect
             class == IF valid THEN job[p].class ELSE "Unknown"
             outcome == IF class = "Applied" THEN "Succeeded" ELSE "Failed"
             next == TerminalPlan(e, Conclusion(class), outcome, MeterOf(class), s, {k})
  <2>2. /\ job[p].at = "receipt" /\ job' = [job EXCEPT ![p] = next] /\ UNCHANGED <<vars, effects>>
    BY <2>1, ZenonT(60) DEF PlanReceipt, Continues, effectStream
  <2>3. e \in Effects /\ job[p].class \in Reports(world[e])
    BY <2>2, ZenonT(60) DEF EffectInv, DispatchInv, EffectTypeOK, Idle
  <2>4. class \in {"Applied", "RejectedBeforeApply", "Partial", "Unknown"}
    BY <2>3, Zenon DEF EffectInv, EffectTypeOK, Reports, Worlds
  <2>5. TerminalAgrees(Conclusion(class), outcome, MeterOf(class))
    <3> HIDE DEF class
    <3> QED BY <2>4, Zenon DEF TerminalAgrees, Conclusion, MeterOf, Outcomes
  <2>6. /\ next.at = "terminal" /\ next.conclusion = Conclusion(class) /\ next.outcome = outcome
        /\ next.meter = MeterOf(class) /\ next.callbacks = {k}
    BY Zenon DEF TerminalPlan
  <2>7. PlanAgrees(next)
    <3> HIDE DEF next, outcome, class
    <3> QED BY <2>5, <2>6, Zenon DEF PlanAgrees
  <2> QED BY <2>2, <2>7, <1>2, Zenon
<1>5. CASE \E e \in Effects, cause \in Causes, s \in samples : PlanRecovery(p, e, cause, s)
  <2>1. PICK e \in Effects, cause \in Causes, s \in samples : PlanRecovery(p, e, cause, s)
    BY <1>5, Zenon
  <2> DEFINE next == IF effects[e].dispatch = "Claimed"
               THEN TerminalPlan(e, "Unknown", RecoveryOutcome(cause), NoMeter, s, {})
               ELSE TerminalPlan(e, "NotApplied", RecoveryOutcome(cause), 0, s, {})
  <2>2. job' = [job EXCEPT ![p] = next] /\ UNCHANGED <<vars, effects>>
    BY <2>1, Zenon DEF PlanRecovery, Starts, effectStream
  <2>3. RecoveryOutcome(cause) \in Outcomes \ {"Succeeded"}
    BY Zenon DEF RecoveryOutcome, Causes, Outcomes
  <2>4. /\ next.at = "terminal" /\ next.callbacks = {}
        /\ next.conclusion \in {"Unknown", "NotApplied"}
        /\ next.outcome = RecoveryOutcome(cause)
        /\ next.meter = IF next.conclusion = "Unknown" THEN NoMeter ELSE 0
    BY Zenon DEF TerminalPlan
  <2>5. PlanAgrees(next)
    <3> HIDE DEF next
    <3> QED BY <2>3, <2>4, Zenon DEF PlanAgrees, TerminalAgrees
  <2> QED BY <2>2, <2>5, <1>2, Zenon
<1>6. CASE \/ \E w \in Worlds : \E class \in Reports(w) : ExecuteEffect(p, w, class)
           \/ \E e \in Effects : ObserveWorld(p, e)
           \/ EndCall(p)
  <2>1. PICK next : /\ job' = [job EXCEPT ![p] = next] /\ next.at \in {"receipt", "reconcile", "idle"}
                    /\ UNCHANGED <<vars, effects>>
    <3>1. CASE \E w \in Worlds : \E class \in Reports(w) : ExecuteEffect(p, w, class)
      BY <3>1, Zenon DEF ExecuteEffect, Continues, effectStream
    <3>2. CASE \E e \in Effects : ObserveWorld(p, e)
      BY <3>2, Zenon DEF ObserveWorld, Starts, effectStream
    <3>3. CASE EndCall(p)
      BY <3>3, ZenonT(60) DEF EndCall, Idle, effectStream
    <3> QED BY <1>6, <3>1, <3>2, <3>3, Zenon
  <2>2. PlanAgrees(next)
    BY <2>1, Zenon DEF PlanAgrees
  <2> QED BY <2>1, <2>2, <1>2, Zenon
<1> QED BY <1>3, <1>4, <1>5, <1>6, Zenon

(* append_effect_reserve_intent_pair: effect and operation are new, and    *)
(* they are each other's.                                                  *)
LEMMA ReserveIntentPairs ==
  ASSUME NEW p \in Processes, NEW delivered, EffectInv, EffectPairsInv,
         AppendReserveIntentPair(p, delivered)
  PROVE  EffectPairsInv'
<1> DEFINE e == job[p].effect
           o == job[p].op
           new == [op |-> o, dispatch |-> "Intended", claimedBy |-> NoProcess,
                   conclusion |-> "Pending", reconciliation |-> "NotRequired"]
<1>1. /\ job[p].at = "request" /\ job' = [job EXCEPT ![p] = Idle]
      /\ e \notin Intended /\ o \notin Operating
      /\ effects' = [x \in Intended \cup {e} |-> IF x # e THEN effects[x] ELSE new]
      /\ RecordReservation(o, Owner, job[p].task, job[p].deadline, p, job[p].sample.wall)
      /\ UNCHANGED lifecycleVars /\ UNCHANGED <<clock, samples>>
  BY Zenon DEF AppendReserveIntentPair, Continues, FoldIntended, PrepareReservation
<1>2. /\ DOMAIN job = Processes /\ job[p].task \in Parents /\ job[p].deadline \in Nat
      /\ job[p].sample.wall \in Nat /\ Owner \in Actors
  BY <1>1, CapabilityAssumption, Zenon DEF EffectInv, EffectTypeOK, EffectPairsInv, PlanAgrees, Sample
<1>3. job'[p] = Idle /\ DOMAIN job' = Processes /\ \A q \in Processes : q # p => job'[q] = job[q]
  BY <1>1, <1>2, Zenon
<1>4. /\ Intended' = Intended \cup {e} /\ effects'[e] = new
      /\ \A x \in Intended : effects'[x] = effects[x]
  BY <1>1, Zenon DEF Intended
<1>5. /\ Operating' = Operating \cup {o} /\ \A x \in Operating : ops'[x] = ops[x]
      /\ ops'[o].outcome = "Pending" /\ OperationsTyped'
  <2>1. PICK op \in {o}, t \in Parents, d \in Nat, wall \in Nat, owner \in Actors :
          /\ op \notin Operating
          /\ RecordReservation(op, owner, t, d, p, wall)
    BY <1>1, <1>2, Zenon
  <2>2. OperationsTyped /\ UNCHANGED <<clock, samples>>
    BY <1>1, Zenon DEF EffectPairsInv
  <2> HIDE DEF o
  <2> QED BY <2>1, <2>2, ReservedRecord, Zenon
<1>6. /\ new.op = o /\ new.dispatch = "Intended" /\ new.conclusion = "Pending"
      /\ new.reconciliation = "NotRequired"
  BY Zenon
<1> HIDE DEF new, e, o
<1>7. \A x \in Intended : effects[x].op \in Operating /\ PairAgrees(effects[x], ops[effects[x].op])
  BY Zenon DEF EffectPairsInv, PairsAgree
<1>8. PairsAgree'
  <2>1. \A x \in Intended' : effects'[x].op \in Operating'
    BY <1>4, <1>5, <1>6, <1>7, Zenon
  <2>2. \A y \in Operating' \cap Paired : \E x \in Intended' : effects'[x].op = y
    <3>1. \A y \in Operating \cap Paired : \E x \in Intended : effects[x].op = y
      BY Zenon DEF EffectPairsInv, PairsAgree
    <3> QED BY <3>1, <1>4, <1>5, <1>6
  <2>3. \A x, y \in Intended' : effects'[x].op = effects'[y].op => x = y
    <3>1. \A x, y \in Intended : effects[x].op = effects[y].op => x = y
      BY Zenon DEF EffectPairsInv, PairsAgree
    <3> QED BY <3>1, <1>1, <1>4, <1>6, <1>7, SMTT(60)
  <2>4. \A x \in Intended' : PairAgrees(effects'[x], ops'[effects'[x].op])
    <3>1. PairAgrees(new, ops'[o])
      BY <1>5, <1>6, Zenon DEF PairAgrees
    <3>2. \A x \in Intended : ops'[effects[x].op] = ops[effects[x].op]
      BY <1>5, <1>7, Zenon
    <3> QED BY <3>1, <3>2, <1>4, <1>6, <1>7, Zenon
  <2> QED BY <2>1, <2>2, <2>3, <2>4, Zenon DEF PairsAgree
<1>9. \A x \in Intended : TaskOf(x)' = TaskOf(x)
  BY <1>4, <1>5, <1>7, Zenon DEF TaskOf
<1>10. UNCHANGED <<runState, taskState>>
  BY <1>1, Zenon DEF lifecycleVars
<1>11. ClaimHoldsRun' /\ SuccessIsCertain'
  <2>1. ASSUME NEW x \in Intended'
        PROVE  /\ effects'[x].dispatch = "Claimed" => EnsureReserveLifecycle(TaskOf(x))'
               /\ runState' = "Succeeded" \/ (TaskOf(x)' # NoTask /\ taskState'[TaskOf(x)'] = "Succeeded") =>
                    effects'[x].dispatch # "Claimed" /\ effects'[x].reconciliation # "Required"
    <3>1. CASE x = e
      BY <3>1, <1>4, <1>6, Zenon
    <3>2. CASE x \in Intended
      BY <3>2, <1>4, <1>9, <1>10, ZenonT(60) DEF EffectPairsInv, ClaimHoldsRun, SuccessIsCertain, EnsureReserveLifecycle
    <3> QED BY <3>1, <3>2, <1>4, Zenon
  <2> QED BY <2>1, Zenon DEF ClaimHoldsRun, SuccessIsCertain
<1>12. \A q \in Processes : PlanAgrees(job'[q])
  BY <1>3 DEF EffectPairsInv, PlanAgrees, Idle
<1> QED BY <1>5, <1>8, <1>11, <1>12, Zenon DEF EffectPairsInv

(* A step that leaves effects and paired operations assigned to each other *)
(* keeps the agreement if it keeps it for each of them.                    *)
LEMMA SamePairs ==
  ASSUME PairsAgree, Intended' = Intended, \A x \in Intended : effects'[x].op = effects[x].op,
         Operating \subseteq Operating', Operating' \cap Paired = Operating \cap Paired,
         \A x \in Intended : PairAgrees(effects'[x], ops'[effects[x].op])
  PROVE  PairsAgree'
<1>1. \A x \in Intended' : effects'[x].op \in Operating'
  BY Zenon DEF PairsAgree
<1>2. \A o \in Operating' \cap Paired : \E x \in Intended' : effects'[x].op = o
  BY Zenon DEF PairsAgree
<1>3. \A x, y \in Intended' : effects'[x].op = effects'[y].op => x = y
  BY SMTT(60) DEF PairsAgree
<1>4. \A x \in Intended' : PairAgrees(effects'[x], ops'[effects'[x].op])
  BY Zenon
<1> QED BY <1>1, <1>2, <1>3, <1>4, Zenon DEF PairsAgree

(* claim_effect_dispatch asks for a run and a task that are running.       *)
LEMMA ClaimPairs ==
  ASSUME NEW p \in Processes, NEW e \in Effects, NEW s, EffectInv, EffectPairsInv,
         ClaimEffectDispatch(p, e, s)
  PROVE  EffectPairsInv'
<1>1. /\ e \in Intended /\ effects[e].dispatch = "Intended"
      /\ effects' = [effects EXCEPT ![e].dispatch = "Claimed", ![e].claimedBy = p]
      /\ job' = [job EXCEPT ![p] = [at |-> "dispatch", effect |-> e]]
      /\ EnsureReserveLifecycle(TaskOf(e))
      /\ UNCHANGED vars
  BY Zenon DEF ClaimEffectDispatch, FoldClaimed, Starts, EnsureEffectDispatchAdmissible, TaskOf
<1>2. DOMAIN job = Processes /\ effects[e] \in Effect
  BY <1>1, Zenon DEF EffectInv, EffectTypeOK
<1>3. /\ Intended' = Intended
      /\ effects'[e].dispatch = "Claimed" /\ effects'[e].op = effects[e].op
      /\ effects'[e].conclusion = effects[e].conclusion
      /\ \A x \in Intended : x # e => effects'[x] = effects[x]
  BY <1>1, <1>2, Zenon DEF Intended, Effect
<1>4. UNCHANGED <<ops, clock, samples, runState, taskState>> /\ Operating' = Operating
  BY <1>1, Zenon DEF vars, controlVars, processVars, lifecycleVars, Operating
<1>5. \A x \in Intended : effects'[x].op = effects[x].op /\ TaskOf(x)' = TaskOf(x)
  BY <1>3, <1>4, Zenon DEF TaskOf
<1>6. OperationsTyped'
  BY <1>4, Zenon DEF EffectPairsInv, OperationsTyped
<1>7. PairsAgree'
  <2>1. \A x \in Intended : PairAgrees(effects'[x], ops[effects[x].op])
    <3>1. \A x \in Intended : PairAgrees(effects[x], ops[effects[x].op])
      BY ZenonT(60) DEF EffectPairsInv, PairsAgree
    <3>2. PairAgrees(effects'[e], ops[effects[e].op])
      BY <3>1, <1>1, <1>3, Zenon DEF PairAgrees
    <3> QED BY <3>1, <3>2, <1>3, Zenon
  <2> QED BY <2>1, <1>3, <1>4, <1>5, SamePairs, Zenon DEF EffectPairsInv
<1>8. ClaimHoldsRun'
  <2>1. ASSUME NEW x \in Intended, effects'[x].dispatch = "Claimed"
        PROVE  EnsureReserveLifecycle(TaskOf(x))
    BY <2>1, <1>1, <1>3, Zenon DEF EffectPairsInv, ClaimHoldsRun
  <2> QED BY <2>1, <1>3, <1>4, <1>5, Zenon DEF ClaimHoldsRun, EnsureReserveLifecycle
<1>9. SuccessIsCertain'
  <2>1. runState = "Running" /\ (TaskOf(e) # NoTask => taskState[TaskOf(e)] = "Running")
    BY <1>1, Zenon DEF EnsureReserveLifecycle
  <2>2. ASSUME NEW x \in Intended,
               runState = "Succeeded" \/ (TaskOf(x) # NoTask /\ taskState[TaskOf(x)] = "Succeeded")
        PROVE  effects'[x].dispatch # "Claimed" /\ effects'[x].reconciliation # "Required"
    <3>1. x # e
      BY <2>1, <2>2, Zenon
    <3> QED BY <2>2, <3>1, <1>3, Zenon DEF EffectPairsInv, SuccessIsCertain
  <2> QED BY <2>2, <1>3, <1>4, <1>5, Zenon DEF SuccessIsCertain
<1>10. \A q \in Processes : PlanAgrees(job'[q])
  BY <1>1, <1>2, Zenon DEF EffectPairsInv, PlanAgrees
<1> QED BY <1>6, <1>7, <1>8, <1>9, <1>10, ZenonT(60) DEF EffectPairsInv

(* What a settlement accounts for is what its plan meant.                  *)
LEMMA AccountedAsPlanned ==
  ASSUME NEW c, NEW outcome, NEW meter, TerminalAgrees(c, outcome, meter)
  PROVE  /\ outcome \in Outcomes /\ outcome # "Pending" /\ Accounted(meter) \in 0..Envelope
         /\ c = "Applied" => outcome = "Succeeded" /\ Accounted(meter) = 1
         /\ c = "NotApplied" => outcome # "Succeeded" /\ Accounted(meter) = 0
         /\ c \in {"Partial", "Unknown"} => outcome # "Succeeded" /\ Accounted(meter) = Envelope
<1>1. /\ NoMeter \notin Nat /\ Violation \notin Nat /\ Envelope \in Nat /\ Envelope >= 1
  BY ControlAssumption, CapabilityAssumption, EffectAssumption, Zenon
<1>2. Accounted(1) = 1 /\ Accounted(0) = 0 /\ Accounted(NoMeter) = Envelope
  BY <1>1 DEF Accounted
<1>3. 1 \in 0..Envelope /\ 0 \in 0..Envelope /\ Envelope \in 0..Envelope
  BY <1>1, SMTT(60)
<1>4. meter \in {1, 0, NoMeter} /\ outcome \in Outcomes
  BY Zenon DEF TerminalAgrees, Outcomes
<1>5. Accounted(meter) \in 0..Envelope
  BY <1>2, <1>3, <1>4, Zenon
<1>6. outcome # "Pending"
  BY <1>4, Zenon DEF Outcomes
<1> QED BY <1>2, <1>4, <1>5, <1>6, Zenon DEF TerminalAgrees

(* append_effect_terminal_pair: the conclusion and the settlement are of   *)
(* one plan; an uncertain conclusion is of a claimed effect, so the run    *)
(* has not succeeded.                                                      *)
LEMMA TerminalPairs ==
  ASSUME NEW p \in Processes, EffectInv, EffectPairsInv, AppendTerminalPair(p)
  PROVE  EffectPairsInv'
<1> DEFINE e == job[p].effect
           o == effects[e].op
           c == job[p].conclusion
           uncertain == c \in {"Partial", "Unknown"}
<1>1. /\ job[p].at = "terminal" /\ job' = [job EXCEPT ![p] = Idle]
      /\ effects[e].dispatch \in IF c = "NotApplied" THEN {"Intended", "Claimed"} ELSE {"Claimed"}
      /\ effects' = [effects EXCEPT ![e].dispatch = "Concluded", ![e].conclusion = c,
           ![e].reconciliation = IF uncertain THEN "Required" ELSE @]
      /\ RecordSettlement(o, job[p].outcome, job[p].meter, job[p].callbacks)
      /\ UNCHANGED lifecycleVars /\ UNCHANGED processVars
  BY Zenon DEF AppendTerminalPair, Continues, FoldConcluded
<1>2. /\ DOMAIN job = Processes /\ e \in Intended /\ e \in Effects /\ effects[e] \in Effect
      /\ TerminalAgrees(c, job[p].outcome, job[p].meter) /\ job[p].callbacks \in SUBSET Callbacks
  <2>1. DOMAIN job = Processes /\ e \in Intended
    BY <1>1, Zenon DEF EffectInv, EffectTypeOK, PlanInv
  <2>2. e \in Effects /\ effects[e] \in Effect
    BY <2>1, Zenon DEF EffectInv, EffectTypeOK
  <2>3. PlanAgrees(job[p])
    BY Zenon DEF EffectPairsInv
  <2> QED BY <1>1, <2>1, <2>2, <2>3, Zenon DEF PlanAgrees
<1>3. /\ job[p].outcome \in Outcomes /\ job[p].outcome # "Pending"
      /\ Accounted(job[p].meter) \in 0..Envelope
      /\ c = "Applied" => job[p].outcome = "Succeeded" /\ Accounted(job[p].meter) = 1
      /\ c = "NotApplied" => job[p].outcome # "Succeeded" /\ Accounted(job[p].meter) = 0
      /\ uncertain => job[p].outcome # "Succeeded" /\ Accounted(job[p].meter) = Envelope
  BY <1>2, AccountedAsPlanned, Zenon
<1>4. /\ o \in Operating /\ ops[o] \in Operation
      /\ \A x \in Intended : effects[x].op \in Operating /\ PairAgrees(effects[x], ops[effects[x].op])
      /\ \A x \in Intended : effects[x].op = o => x = e
  BY <1>2, Zenon DEF EffectPairsInv, PairsAgree, OperationsTyped
<1>5. /\ DOMAIN ops' = DOMAIN ops /\ \A x \in Operating \ {o} : ops'[x] = ops[x]
      /\ ops'[o] = WithSettlement(ops[o], job[p].outcome, Accounted(job[p].meter), job[p].callbacks)
  BY <1>1, <1>4, Zenon DEF RecordSettlement, Operating, WithSettlement
<1>6. /\ Intended' = Intended /\ effects'[e].dispatch = "Concluded" /\ effects'[e].conclusion = c
      /\ effects'[e].op = o
      /\ effects'[e].reconciliation = IF uncertain THEN "Required" ELSE effects[e].reconciliation
      /\ \A x \in Intended : x # e => effects'[x] = effects[x]
  BY <1>1, <1>2, Zenon DEF Intended, Effect
<1>7. PICK outcome \in Outcomes, n \in 0..Envelope, ks \in SUBSET Callbacks :
        outcome = job[p].outcome /\ n = Accounted(job[p].meter) /\ ks = job[p].callbacks
  BY <1>2, <1>3, Zenon
<1>8. /\ ops'[o] \in Operation /\ ops'[o].outcome = outcome /\ ops'[o].accounted = n
      /\ ops'[o].task = ops[o].task
  <2>1. ops'[o] = WithSettlement(ops[o], outcome, n, ks)
    BY <1>5, <1>7, Zenon
  <2> HIDE DEF e, o, c
  <2>2. PICK r \in Operation : r = ops[o]
    BY <1>4, Zenon
  <2>3. ops'[o] = WithSettlement(r, outcome, n, ks)
    BY <2>1, <2>2, Zenon
  <2>4. PICK q \in {ops'[o]} : q = WithSettlement(r, outcome, n, ks)
    BY <2>3, Zenon
  <2>5. q \in Operation /\ q.outcome = outcome /\ q.accounted = n /\ q.task = r.task
    <3>1. SettledFrom(WithSettlement(r, outcome, n, ks), r, outcome, n)
      BY SettledRecord, Zenon
    <3> QED BY <2>4, <3>1, Zenon DEF SettledFrom
  <2> QED BY <2>2, <2>4, <2>5, Zenon
<1> HIDE DEF e, o, c
<1>9. OperationsTyped'
  BY <1>1, <1>4, <1>5, <1>8, Zenon DEF EffectPairsInv, OperationsTyped, Operating, processVars
<1>10. \A x \in Intended : x # e => ops'[effects[x].op] = ops[effects[x].op]
  BY <1>4, <1>5, Zenon
<1>11. \A x \in Intended : effects'[x].op = effects[x].op /\ TaskOf(x)' = TaskOf(x)
  BY <1>6, <1>8, <1>10, ZenonT(60) DEF TaskOf, o
<1>12. PairsAgree'
  <2>1. PairAgrees(effects'[e], ops'[effects[e].op])
    BY <1>3, <1>6, <1>7, <1>8, Zenon DEF PairAgrees, o
  <2>2. \A x \in Intended : PairAgrees(effects'[x], ops'[effects[x].op])
    BY <2>1, <1>4, <1>6, <1>10, ZenonT(60)
  <2>3. Operating' = Operating
    BY <1>5, Zenon DEF Operating
  <2> QED BY <2>2, <2>3, <1>6, <1>11, SamePairs, Zenon DEF EffectPairsInv
<1>13. UNCHANGED <<runState, taskState>>
  BY <1>1, Zenon DEF lifecycleVars
<1>14. ClaimHoldsRun'
  <2>1. ASSUME NEW x \in Intended, effects'[x].dispatch = "Claimed"
        PROVE  EnsureReserveLifecycle(TaskOf(x))
    BY <2>1, <1>6, Zenon DEF EffectPairsInv, ClaimHoldsRun
  <2> QED BY <2>1, <1>6, <1>11, <1>13, Zenon DEF ClaimHoldsRun, EnsureReserveLifecycle
<1>15. SuccessIsCertain'
  <2>1. ASSUME NEW x \in Intended,
               runState = "Succeeded" \/ (TaskOf(x) # NoTask /\ taskState[TaskOf(x)] = "Succeeded")
        PROVE  effects'[x].dispatch # "Claimed" /\ effects'[x].reconciliation # "Required"
    <3>1. effects[x].dispatch # "Claimed" /\ effects[x].reconciliation # "Required"
      BY <2>1, Zenon DEF EffectPairsInv, SuccessIsCertain
    <3>2. CASE x # e
      BY <3>1, <3>2, <1>6, Zenon
    <3>3. CASE x = e
      <4>1. c = "NotApplied"
        BY <3>1, <3>3, <1>1, Zenon DEF e, c
      <4> QED BY <3>1, <3>3, <4>1, <1>6, Zenon
    <3> QED BY <3>2, <3>3, Zenon
  <2> QED BY <2>1, <1>6, <1>11, <1>13, ZenonT(60) DEF SuccessIsCertain
<1>16. \A q \in Processes : PlanAgrees(job'[q])
  BY <1>1, <1>2, Zenon DEF EffectPairsInv, PlanAgrees, Idle
<1> QED BY <1>9, <1>12, <1>14, <1>15, <1>16, Zenon DEF EffectPairsInv

(* reconcile_effect gives an uncertain effect its verdict and leaves the   *)
(* conclusion and its operation alone.                                     *)
LEMMA ReconcilePairs ==
  ASSUME NEW p \in Processes, EffectInv, EffectPairsInv, ReconcileEffect(p)
  PROVE  EffectPairsInv'
<1> DEFINE e == job[p].effect
           to == job[p].resolution
<1>1. /\ job[p].at = "reconcile" /\ job' = [job EXCEPT ![p] = Idle]
      /\ effects' = [effects EXCEPT ![e].reconciliation = to] /\ UNCHANGED vars
  BY Zenon DEF ReconcileEffect, Continues, FoldReconciled
<1>2. DOMAIN job = Processes /\ e \in Intended /\ to \in {Resolution(w) : w \in Worlds}
  BY <1>1, Zenon DEF EffectInv, EffectTypeOK, PlanInv
<1>3. to # "Required" /\ effects[e] \in Effect
  BY <1>2, Zenon DEF EffectInv, EffectTypeOK, Resolution, Worlds
<1>4. /\ Intended' = Intended /\ effects'[e].reconciliation # "Required"
      /\ \A x \in Intended : x # e => effects'[x] = effects[x]
      /\ \A x \in Intended : /\ effects'[x].op = effects[x].op
                             /\ effects'[x].dispatch = effects[x].dispatch
                             /\ effects'[x].conclusion = effects[x].conclusion
  BY <1>1, <1>2, <1>3, Zenon DEF Intended, Effect
<1>5. UNCHANGED <<ops, clock, samples, runState, taskState>> /\ Operating' = Operating
  BY <1>1, Zenon DEF vars, controlVars, processVars, lifecycleVars, Operating
<1> HIDE DEF e, to
<1>6. OperationsTyped'
  BY <1>5, Zenon DEF EffectPairsInv, OperationsTyped
<1>7. PairsAgree'
  <2>1. \A x \in Intended : PairAgrees(effects'[x], ops[effects[x].op])
    <3>1. \A x \in Intended : PairAgrees(effects[x], ops[effects[x].op])
      BY Zenon DEF EffectPairsInv, PairsAgree
    <3> QED BY <3>1, <1>4, Zenon DEF PairAgrees
  <2> QED BY <2>1, <1>4, <1>5, SamePairs, Zenon DEF EffectPairsInv
<1>8. \A x \in Intended : TaskOf(x)' = TaskOf(x)
  BY <1>4, <1>5, Zenon DEF TaskOf
<1>9. ClaimHoldsRun' /\ SuccessIsCertain'
  BY <1>4, <1>5, <1>8, Zenon DEF EffectPairsInv, ClaimHoldsRun, SuccessIsCertain, EnsureReserveLifecycle
<1>10. \A q \in Processes : PlanAgrees(job'[q])
  BY <1>1, <1>2, Zenon DEF EffectPairsInv, PlanAgrees, Idle
<1> QED BY <1>6, <1>7, <1>9, <1>10, Zenon DEF EffectPairsInv

(* The commands of the control stream (reserve, settle, time out, refund,  *)
(* recover) do not touch an operation that belongs to an effect.           *)
LEMMA ControlPairs ==
  ASSUME EffectInv, EffectPairsInv, ControlStep, UNCHANGED <<lifecycleVars, capabilityVars, effectVars>>
  PROVE  EffectPairsInv'
<1>1. OperationsTyped' /\ PairsUntouched
  BY ControlKeepsPairs, Zenon DEF EffectPairsInv
<1>2. UNCHANGED <<effects, job, runState, taskState>> /\ Intended' = Intended
  BY Zenon DEF effectVars, effectStream, outside, lifecycleVars, Intended
<1>3. \A x \in Intended : effects[x].op \in Operating \cap Paired
  <2>1. \A x \in Intended : effects[x] \in Effect
    BY Zenon DEF EffectInv, EffectTypeOK
  <2>2. \A x \in Intended : effects[x].op \in Paired
    BY <2>1, Zenon DEF Effect
  <2> QED BY <2>2, Zenon DEF EffectPairsInv, PairsAgree
<1>4. \A x \in Intended : /\ TaskOf(x)' = TaskOf(x)
                          /\ PairAgrees(effects'[x], ops'[effects[x].op])
  <2>1. \A x \in Intended : PairAgrees(effects[x], ops[effects[x].op])
    BY Zenon DEF EffectPairsInv, PairsAgree
  <2> QED BY <1>1, <1>2, <1>3, <2>1, ZenonT(60) DEF PairsUntouched, TaskOf, PairAgrees
<1>5. PairsAgree'
  BY <1>1, <1>2, <1>4, SamePairs, Zenon DEF EffectPairsInv, PairsUntouched
<1>6. ClaimHoldsRun' /\ SuccessIsCertain'
  BY <1>2, <1>4, Zenon DEF EffectPairsInv, ClaimHoldsRun, SuccessIsCertain, EnsureReserveLifecycle
<1> QED BY <1>1, <1>2, <1>5, <1>6, Zenon DEF EffectPairsInv

(* A lifecycle command waits for the operations it would leave behind      *)
(* (ensure_no_pending_operations) and success also for reconciliation      *)
(* (ensure_effects_complete).                                              *)
LEMMA LifecyclePairs ==
  ASSUME EffectPairsInv, LifecycleTypeOK, EffectLifecycle,
         UNCHANGED <<capabilityVars, processVars, controlVars, effectVars>>
  PROVE  EffectPairsInv'
<1>1. /\ UNCHANGED <<ops, effects, job, clock, samples>>
      /\ Intended' = Intended /\ Operating' = Operating
  BY Zenon DEF effectVars, effectStream, outside, controlVars, processVars, Intended, Operating
<1>2. OperationsTyped' /\ PairsAgree'
  BY <1>1, Zenon DEF EffectPairsInv, OperationsTyped, PairsAgree
<1>3. \A x \in Intended : TaskOf(x)' = TaskOf(x)
  BY <1>1, Zenon DEF TaskOf
<1>4. Tasks = DOMAIN taskState /\ NoTask \notin Tasks /\ "Running" # Absent /\ "Created" # Absent
  BY NoTaskAssumption, Zenon DEF LifecycleTypeOK, Absent
<1>5. ASSUME NEW x \in Intended
      PROVE  /\ TaskOf(x) \in Parents
             /\ effects[x].dispatch = "Claimed" =>
                  /\ ~Settled(effects[x].op) /\ effects[x].op \in Operating
                  /\ EnsureReserveLifecycle(TaskOf(x))
             /\ runState = "Succeeded" \/ (TaskOf(x) # NoTask /\ taskState[TaskOf(x)] = "Succeeded") =>
                  effects[x].dispatch # "Claimed" /\ effects[x].reconciliation # "Required"
  <2>1. effects[x].op \in Operating /\ PairAgrees(effects[x], ops[effects[x].op])
    BY Zenon DEF EffectPairsInv, PairsAgree
  <2>2. ops[effects[x].op] \in Operation
    BY <2>1, ZenonT(60) DEF EffectPairsInv, OperationsTyped
  <2>3. TaskOf(x) \in Parents
    BY <2>2, Zenon DEF Operation, TaskOf
  <2> QED BY <2>1, <2>3, Zenon DEF EffectPairsInv, ClaimHoldsRun, SuccessIsCertain, PairAgrees, Settled
<1>6. ASSUME NEW x \in Intended, NEW t \in Parents, t = TaskOf(x)
      PROVE  /\ effects[x].dispatch = "Claimed" =>
                  runState' = "Running" /\ (t # NoTask => taskState'[t] = "Running")
             /\ runState' = "Succeeded" \/ (t # NoTask /\ taskState'[t] = "Succeeded") =>
                  effects[x].dispatch # "Claimed" /\ effects[x].reconciliation # "Required"
  <2>0. /\ effects[x].dispatch = "Claimed" => /\ ~Settled(effects[x].op) /\ effects[x].op \in Operating
                                              /\ runState = "Running"
                                              /\ t # NoTask => taskState[t] = "Running"
        /\ runState = "Succeeded" \/ (t # NoTask /\ taskState[t] = "Succeeded") =>
             effects[x].dispatch # "Claimed" /\ effects[x].reconciliation # "Required"
        /\ t # NoTask => t \in Tasks
    BY <1>5, <1>6, Zenon DEF EnsureReserveLifecycle, Parents
  <2>1. CASE CreateRun
    BY <2>0, <2>1, <1>4, Zenon DEF CreateRun
  <2>2. CASE \E u \in Tasks, q \in Parents : CreateTask(u, q)
    BY <2>0, <2>2, <1>4, Zenon DEF CreateTask, ValidTaskCreation
  <2>3. CASE \E to \in RunStates : /\ EnsureNoPendingForRun(to)
                                   /\ EnsureEffectsCompleteForRun(to) /\ TransitionRun(to)
    <3>1. PICK to \in RunStates : /\ EnsureNoPendingForRun(to)
                                  /\ EnsureEffectsCompleteForRun(to) /\ TransitionRun(to)
      BY <2>3, Zenon
    <3>2. runState' = to /\ taskState' = taskState /\ IsRunEdge(runState, to)
      BY <3>1, Zenon DEF TransitionRun, ValidRunTransition
    <3>3. effects[x].dispatch # "Claimed"
      BY <2>0, <3>1, <3>2, Zenon DEF IsRunEdge, Stops, TerminalStates, EnsureNoPendingForRun
    <3>4. to = "Succeeded" => effects[x].reconciliation # "Required"
      BY <3>1, ZenonT(60) DEF EnsureEffectsCompleteForRun, Complete
    <3> QED BY <2>0, <3>2, <3>3, <3>4, Zenon
  <2>4. CASE \E u \in Tasks, to \in TaskStates :
               EnsureNoPendingForTask(u, to) /\ EnsureEffectsCompleteForTask(u, to) /\ TransitionTask(u, to)
    <3>1. PICK u \in Tasks, to \in TaskStates :
            EnsureNoPendingForTask(u, to) /\ EnsureEffectsCompleteForTask(u, to) /\ TransitionTask(u, to)
      BY <2>4, Zenon
    <3>2. /\ runState' = runState /\ taskState'[u] = to /\ IsTaskEdge(taskState[u], to)
          /\ \A v \in Tasks : v # u => taskState'[v] = taskState[v]
      BY <3>1, <1>4, Zenon DEF TransitionTask, ValidTaskTransition
    <3>3. CASE t # u
      BY <2>0, <3>2, <3>3, Zenon
    <3>4. CASE t = u
      <4>1. u # NoTask
        BY <1>4, Zenon
      <4>2. effects[x].dispatch = "Claimed" => Stops(to)
        BY <2>0, <3>2, <3>4, <4>1, Zenon DEF IsTaskEdge, Stops, TerminalStates
      <4>3. effects[x].dispatch # "Claimed"
        BY <2>0, <3>1, <3>4, <4>2, <1>6, ZenonT(60) DEF EnsureNoPendingForTask, TaskOf
      <4>4. to = "Succeeded" => effects[x].reconciliation # "Required"
        BY <3>1, <3>4, <1>6, Zenon DEF EnsureEffectsCompleteForTask, Complete
      <4> QED BY <2>0, <3>2, <3>4, <4>3, <4>4, Zenon
    <3> QED BY <3>3, <3>4, Zenon
  <2> QED BY <2>1, <2>2, <2>3, <2>4, ZenonT(60) DEF EffectLifecycle
<1>7. ClaimHoldsRun' /\ SuccessIsCertain'
  <2>1. ASSUME NEW x \in Intended
        PROVE  /\ effects[x].dispatch = "Claimed" =>
                    runState' = "Running" /\ (TaskOf(x) # NoTask => taskState'[TaskOf(x)] = "Running")
               /\ runState' = "Succeeded" \/ (TaskOf(x) # NoTask /\ taskState'[TaskOf(x)] = "Succeeded") =>
                    effects[x].dispatch # "Claimed" /\ effects[x].reconciliation # "Required"
    BY <1>5, <1>6, Zenon
  <2> QED BY <2>1, <1>1, <1>3, Zenon DEF ClaimHoldsRun, SuccessIsCertain, EnsureReserveLifecycle
<1> QED BY <1>1, <1>2, <1>7, Zenon DEF EffectPairsInv

(* Every step of the effect runtime keeps the streams in agreement.        *)
LEMMA PairsNextInv ==
  ASSUME EffectInv, EffectPairsInv, LifecycleTypeOK, [EffectNext]_allVars
  PROVE  EffectPairsInv'
<1>0. \A p \in Processes : PlanAgrees(job[p])
  BY Zenon DEF EffectPairsInv
<1>1. ASSUME UNCHANGED <<ops, clock, samples, effects, lifecycleVars, job>>
      PROVE  EffectPairsInv'
  BY <1>0, <1>1, QuietPairs, Zenon
<1>2. CASE EffectStep
  <2>1. CASE InitializeEffectStream \/ \E e \in Effects : ObserveLateEffectReceipt(e)
    <3>1. UNCHANGED <<vars, effects, job>>
      BY <2>1, Zenon DEF InitializeEffectStream, ObserveLateEffectReceipt
    <3> QED BY <3>1, <1>1, Zenon DEF vars, processVars, controlVars
  <2>2. CASE \E p \in Processes, e \in Effects, s \in samples :
               \/ \E o \in Paired, t \in Parents, d \in Deadlines : PlanRequest(p, e, o, t, d, s)
               \/ ClaimEffectDispatch(p, e, s)
               \/ \E cause \in Causes : PlanRecovery(p, e, cause, s)
    BY <2>2, PlansAgree, ClaimPairs, Zenon
  <2>3. CASE \E p \in Processes :
               \/ \E delivered \in BOOLEAN : AppendReserveIntentPair(p, delivered)
               \/ AppendTerminalPair(p) \/ ReconcileEffect(p)
    BY <2>3, ReserveIntentPairs, TerminalPairs, ReconcilePairs, Zenon
  <2>4. CASE \E p \in Processes :
               \/ \E w \in Worlds : \E class \in Reports(w) : ExecuteEffect(p, w, class)
               \/ \E l \in leases, k \in Callbacks, s \in samples, valid \in BOOLEAN :
                    PlanReceipt(p, l, k, s, valid)
               \/ EndCall(p)
               \/ \E e \in Effects : ObserveWorld(p, e)
    BY <2>4, PlansAgree, Zenon
  <2> QED BY <1>2, <2>1, <2>2, <2>3, <2>4, ZenonT(60) DEF EffectStep
<1>3. CASE CapabilityStep /\ UNCHANGED <<lifecycleVars, processVars, controlVars, effectVars>>
  BY <1>3, <1>1, Zenon DEF processVars, controlVars, effectVars, effectStream, outside
<1>4. CASE UNCHANGED allVars
  BY <1>4, <1>1, Zenon DEF allVars, vars, processVars, controlVars, effectVars, effectStream, outside
<1> QED BY <1>2, <1>3, <1>4, ControlPairs, LifecyclePairs, Zenon DEF EffectNext

(* The pairs of the two streams, the claims and the outcomes of the        *)
(* lifecycle stay in agreement in every interleaving of the processes.     *)
THEOREM EffectPairsCorrect == EffectSpec => []EffectPairsInv
<1>1. Init /\ EffectInit => EffectPairsInv
  BY PairsInitInv, Zenon
<1>2. EffectInv /\ EffectPairsInv /\ LifecycleTypeOK /\ [EffectNext]_allVars => EffectPairsInv'
  BY PairsNextInv, Zenon
<1>3. LifecycleInv => LifecycleTypeOK
  BY Zenon DEF LifecycleInv
<1> QED
  BY <1>1, <1>2, <1>3, EffectCorrect, EffectsImplementLifecycle, LifecycleCorrect, PTL DEF EffectSpec

(* Each effect has exactly one operation, settled when it is concluded and *)
(* with the outcome and usage of its conclusion, although every pair is    *)
(* planned in one transaction and appended in another.                     *)
THEOREM EffectPairsAgree == EffectSpec => []PairsAgree
<1>1. EffectPairsInv => PairsAgree
  BY Zenon DEF EffectPairsInv
<1> QED
  BY <1>1, EffectPairsCorrect, PTL

(* While an effect is claimed its run and its task are running: no command *)
(* stops them before the receipt or the recovery is on record.             *)
THEOREM ClaimsHoldTheRun == EffectSpec => []ClaimHoldsRun
<1>1. EffectPairsInv => ClaimHoldsRun
  BY Zenon DEF EffectPairsInv
<1> QED
  BY <1>1, EffectPairsCorrect, PTL

(* A run or task that has succeeded hides no effect that is under way or   *)
(* waits for its reconciliation (ensure_effects_complete).                 *)
THEOREM SuccessHidesNothing == EffectSpec => []SuccessIsCertain
<1>1. EffectPairsInv => SuccessIsCertain
  BY Zenon DEF EffectPairsInv
<1> QED
  BY <1>1, EffectPairsCorrect, PTL
=============================================================================
