---------------------------- MODULE EffectProofs ----------------------------
(***************************************************************************)
(* Proofs about EffectRuntime for every number of processes, effects,      *)
(* operations and tasks: an executor is invoked at most once, definite     *)
(* conclusions are true, and the runtime implements EffectOutcome.         *)
(* EffectInv is the inductive invariant; one lemma per action keeps it.    *)
(***************************************************************************)
EXTENDS EffectRuntime, TLAPS

(* The initial state: no effect is on record and nothing was invoked.      *)
LEMMA EffectInitInv == EffectInit => EffectInv
<1> SUFFICES ASSUME EffectInit PROVE EffectInv
  BY Zenon
<1>1. Intended = {}
  BY Zenon DEF EffectInit, Intended
<1>2. EffectTypeOK
  <2>1. effectOpen \in BOOLEAN /\ DOMAIN job = Processes /\ \A p \in Processes : job[p] = Idle
    BY Zenon DEF EffectInit
  <2>2. /\ moved \in [Processes -> SUBSET {"control", "effect"}]
        /\ lateReceipts \in 0..MaxLate
        /\ world \in [Effects -> Worlds]
        /\ calls \in [Effects -> Nat]
    BY EffectAssumption DEF EffectInit, Worlds
  <2> QED
    BY <1>1, <2>1, <2>2, Zenon DEF EffectTypeOK
<1>3. InvokedAtMostOnce /\ ConclusionIsTrue /\ RecordInv
  BY <1>1 DEF EffectInit, InvokedAtMostOnce, ConclusionIsTrue, RecordInv
<1>4. \A p \in Processes : DispatchInv(p) /\ PlanInv(p)
  BY Zenon DEF EffectInit, DispatchInv, PlanInv, Idle
<1> QED
  BY <1>2, <1>3, <1>4, Zenon DEF EffectInv

(* A plan that waits keeps the cursors it was made at only as long as      *)
(* nothing is appended to the effect stream.                               *)
LEMMA CursorsTracked ==
  ASSUME EffectTypeOK, TrackCursors
  PROVE  /\ moved' \in [Processes -> SUBSET {"control", "effect"}]
         /\ \A q \in Processes :
              Planned(job[q]) /\ job'[q] = job[q] /\ "effect" \notin moved'[q] =>
                "effect" \notin moved[q] /\ effectStream' = effectStream
  BY Zenon DEF EffectTypeOK, TrackCursors, Appended

(* A step that appends nothing to the effect stream and does not touch the *)
(* world keeps the invariant if the process that takes it moves on to a    *)
(* job the invariant allows.                                               *)
LEMMA JobStepInv ==
  ASSUME NEW p \in Processes, EffectInv, TrackCursors,
         UNCHANGED <<effectStream, outside>>,
         DOMAIN job' = Processes,
         \A q \in Processes : q # p => job'[q] = job[q],
         job'[p] # Idle => job'[p].effect \in Effects,
         DispatchInv(p)', PlanInv(p)'
  PROVE  EffectInv'
<1>1. UNCHANGED <<effectOpen, effects, lateReceipts, world, calls>>
  BY Zenon DEF effectStream, outside
<1>2. EffectTypeOK'
  BY <1>1, CursorsTracked, Zenon DEF EffectInv, EffectTypeOK, Intended
<1>3. (InvokedAtMostOnce /\ ConclusionIsTrue /\ RecordInv)'
  BY <1>1, Zenon DEF EffectInv, InvokedAtMostOnce, ConclusionIsTrue, RecordInv, Intended
<1>4. ASSUME NEW q \in Processes PROVE (DispatchInv(q) /\ PlanInv(q))'
  <2>1. CASE q = p
    BY <2>1, Zenon
  <2>2. CASE q # p
    <3>1. DispatchInv(q)'
      BY <2>2, <1>1, SMTT(20) DEF EffectInv, DispatchInv, Intended
    <3>2. PlanInv(q)'
      BY <2>2, <1>1, CursorsTracked DEF EffectInv, PlanInv, Intended, AtCursor, Planned
    <3> QED BY <3>1, <3>2, Zenon
  <2> QED BY <2>1, <2>2, Zenon
<1> QED
  BY <1>2, <1>3, <1>4, Zenon DEF EffectInv

(* What the other components do, and an audit fact, leaves the effects and *)
(* the processes as they are.                                              *)
LEMMA QuietStepInv ==
  ASSUME EffectInv, TrackCursors, UNCHANGED <<effects, outside, job>>,
         effectOpen' \in BOOLEAN, lateReceipts' \in 0..MaxLate
  PROVE  EffectInv'
<1>1. EffectTypeOK'
  BY CursorsTracked, Zenon DEF EffectInv, EffectTypeOK, Intended, outside
<1>2. (InvokedAtMostOnce /\ ConclusionIsTrue /\ RecordInv)'
  BY Zenon DEF EffectInv, InvokedAtMostOnce, ConclusionIsTrue, RecordInv, Intended, outside
<1>3. ASSUME NEW q \in Processes PROVE (DispatchInv(q) /\ PlanInv(q))'
  <2>1. DispatchInv(q)'
    BY Zenon DEF EffectInv, DispatchInv, Intended, outside
  <2>2. PlanInv(q)'
    BY CursorsTracked, Zenon DEF EffectInv, PlanInv, Intended, outside, AtCursor, Planned
  <2> QED BY <2>1, <2>2, Zenon
<1> QED
  BY <1>1, <1>2, <1>3, Zenon DEF EffectInv

-----------------------------------------------------------------------------
(* request_effect: a plan to reserve is bound to a paired operation.       *)
LEMMA PlanRequestInv ==
  ASSUME NEW p \in Processes, NEW e \in Effects, NEW o \in Paired, NEW task, NEW deadline, NEW s,
         EffectInv, TrackCursors, PlanRequest(p, e, o, task, deadline, s)
  PROVE  EffectInv'
<1> DEFINE next == [at |-> "request", effect |-> e, op |-> o, task |-> task,
                    deadline |-> deadline, sample |-> s]
<1>1. UNCHANGED <<effectStream, outside>> /\ job' = [job EXCEPT ![p] = next]
  BY Zenon DEF PlanRequest, Starts
<1>2. DOMAIN job = Processes
  BY Zenon DEF EffectInv, EffectTypeOK
<1>3. job'[p] = next /\ DOMAIN job' = Processes /\ \A q \in Processes : q # p => job'[q] = job[q]
  BY <1>1, <1>2, Zenon
<1>4. DispatchInv(p)' /\ PlanInv(p)' /\ job'[p].effect \in Effects
  BY <1>3 DEF DispatchInv, PlanInv
<1> QED
  BY <1>1, <1>3, <1>4, JobStepInv, Zenon

(* admit_effect_receipt: what a receipt says is what the executor saw, and *)
(* nobody can invoke it again.                                             *)
LEMMA PlanReceiptInv ==
  ASSUME NEW p \in Processes, NEW l, NEW k, NEW s, NEW valid \in BOOLEAN,
         EffectInv, TrackCursors, PlanReceipt(p, l, k, s, valid)
  PROVE  EffectInv'
<1> DEFINE e == job[p].effect
           class == IF valid THEN job[p].class ELSE "Unknown"
           outcome == IF class = "Applied" THEN "Succeeded" ELSE "Failed"
           next == TerminalPlan(e, Conclusion(class), outcome, MeterOf(class), s, {k})
<1>1. /\ UNCHANGED <<effectStream, outside>> /\ job' = [job EXCEPT ![p] = next]
      /\ job[p].at = "receipt"
  BY Zenon DEF PlanReceipt, Continues
<1>2. DOMAIN job = Processes
  BY Zenon DEF EffectInv, EffectTypeOK
<1>3. job'[p] = next /\ DOMAIN job' = Processes /\ \A q \in Processes : q # p => job'[q] = job[q]
  BY <1>1, <1>2, Zenon
<1>4. next.at = "terminal" /\ next.effect = e /\ next.conclusion = Conclusion(class)
  BY Zenon DEF TerminalPlan
<1>5. UNCHANGED <<effects, world, calls>>
  BY <1>1, Zenon DEF effectStream, outside
<1>6. e \in Intended /\ e \in Effects /\ calls[e] = 1 /\ job[p].class \in Reports(world[e])
  BY <1>1, Zenon DEF EffectInv, DispatchInv, EffectTypeOK
<1>7. world[e] \in Worlds
  BY <1>6, Zenon DEF EffectInv, EffectTypeOK
<1>8. /\ Conclusion(class) \in Conclusions
      /\ Conclusion(class) = "Applied" => world[e] = "Applied"
      /\ Conclusion(class) = "NotApplied" => world[e] = "Untouched"
  BY <1>6, <1>7, Zenon DEF Reports, Worlds, Conclusion, Conclusions
<1>9. DispatchInv(p)' /\ PlanInv(p)' /\ job'[p].effect \in Effects
  BY <1>3, <1>4, <1>5, <1>6, <1>8, ZenonT(60) DEF DispatchInv, PlanInv, Intended
<1> QED
  BY <1>1, <1>3, <1>9, JobStepInv, ZenonT(60)

(* recover_effect: only an effect that was not claimed is planned as not   *)
(* applied, and the plan is bound to the present cursor.                   *)
LEMMA PlanRecoveryInv ==
  ASSUME NEW p \in Processes, NEW e \in Effects, NEW cause, NEW s,
         EffectInv, TrackCursors, PlanRecovery(p, e, cause, s)
  PROVE  EffectInv'
<1> DEFINE next == IF effects[e].dispatch = "Claimed"
             THEN TerminalPlan(e, "Unknown", RecoveryOutcome(cause), NoMeter, s, {})
             ELSE TerminalPlan(e, "NotApplied", RecoveryOutcome(cause), 0, s, {})
<1>1. /\ UNCHANGED <<effectStream, outside>> /\ job' = [job EXCEPT ![p] = next]
      /\ e \in Intended /\ effects[e].dispatch # "Concluded"
  BY Zenon DEF PlanRecovery, Starts
<1>2. DOMAIN job = Processes /\ effects[e].dispatch \in {"Intended", "Claimed"}
  BY <1>1, Zenon DEF EffectInv, EffectTypeOK, Effect
<1>3. job'[p] = next /\ DOMAIN job' = Processes /\ \A q \in Processes : q # p => job'[q] = job[q]
  BY <1>1, <1>2, ZenonT(60)
<1>4. /\ next.at = "terminal" /\ next.effect = e
      /\ next.conclusion \in {"Unknown", "NotApplied"}
      /\ next.conclusion = "NotApplied" => effects[e].dispatch = "Intended"
  BY <1>2, Zenon DEF TerminalPlan
<1>5. UNCHANGED <<effects, world, calls>>
  BY <1>1, Zenon DEF effectStream, outside
<1>6. DispatchInv(p)' /\ PlanInv(p)' /\ job'[p].effect \in Effects
  BY <1>1, <1>3, <1>4, <1>5, Zenon DEF DispatchInv, PlanInv, Intended, Conclusions
<1> QED
  BY <1>1, <1>3, <1>6, JobStepInv, Zenon

(* The reconciliation producer only looks.                                 *)
LEMMA ObserveWorldInv ==
  ASSUME NEW p \in Processes, NEW e \in Effects, EffectInv, TrackCursors, ObserveWorld(p, e)
  PROVE  EffectInv'
<1> DEFINE next == [at |-> "reconcile", effect |-> e, resolution |-> Resolution(world[e])]
<1>1. UNCHANGED <<effectStream, outside>> /\ job' = [job EXCEPT ![p] = next] /\ e \in Intended
  BY Zenon DEF ObserveWorld, Starts
<1>2. DOMAIN job = Processes /\ world[e] \in Worlds
  BY Zenon DEF EffectInv, EffectTypeOK
<1>3. job'[p] = next /\ DOMAIN job' = Processes /\ \A q \in Processes : q # p => job'[q] = job[q]
  BY <1>1, <1>2, Zenon
<1>4. UNCHANGED <<effects, world, calls>>
  BY <1>1, ZenonT(60) DEF effectStream, outside
<1>5. DispatchInv(p)' /\ PlanInv(p)' /\ job'[p].effect \in Effects
  BY <1>1, <1>2, <1>3, <1>4, Zenon DEF DispatchInv, PlanInv, Intended
<1> QED
  BY <1>1, <1>3, <1>5, JobStepInv, Zenon

(* A process that stops forgets what it was doing.                         *)
LEMMA EndCallInv ==
  ASSUME NEW p \in Processes, EffectInv, TrackCursors, EndCall(p)
  PROVE  EffectInv'
<1>1. UNCHANGED <<effectStream, outside>> /\ job' = [job EXCEPT ![p] = Idle]
  BY Zenon DEF EndCall
<1>2. DOMAIN job = Processes
  BY Zenon DEF EffectInv, EffectTypeOK
<1>3. job'[p] = Idle /\ DOMAIN job' = Processes /\ \A q \in Processes : q # p => job'[q] = job[q]
  BY <1>1, <1>2, Zenon
<1>4. DispatchInv(p)' /\ PlanInv(p)'
  BY <1>3 DEF DispatchInv, PlanInv, Idle
<1> QED
  BY <1>1, <1>3, <1>4, JobStepInv, Zenon

-----------------------------------------------------------------------------
(* append_effect_reserve_intent_pair: a new effect, which nobody can have  *)
(* dispatched or planned for.                                              *)
LEMMA ReserveIntentInv ==
  ASSUME NEW p \in Processes, NEW delivered, EffectInv, TrackCursors,
         AppendReserveIntentPair(p, delivered)
  PROVE  EffectInv'
<1> DEFINE e == job[p].effect
           new == [op |-> job[p].op, dispatch |-> "Intended", claimedBy |-> NoProcess,
                   conclusion |-> "Pending", reconciliation |-> "NotRequired"]
<1>1. /\ job[p].at = "request" /\ job' = [job EXCEPT ![p] = Idle]
      /\ e \notin Intended
      /\ effects' = [x \in Intended \cup {e} |-> IF x # e THEN effects[x] ELSE new]
      /\ UNCHANGED <<effectOpen, lateReceipts, world, calls>>
  BY Zenon DEF AppendReserveIntentPair, Continues, FoldIntended, outside
<1>2. DOMAIN job = Processes /\ e \in Effects /\ job[p].op \in Paired
  <2>1. job[p] # Idle
    BY <1>1, SMTT(60) DEF Idle
  <2> QED BY <1>1, <2>1, ZenonT(60) DEF EffectInv, EffectTypeOK, PlanInv
<1>3. job'[p] = Idle /\ DOMAIN job' = Processes /\ \A q \in Processes : q # p => job'[q] = job[q]
  BY <1>1, <1>2, Zenon
<1>4. /\ Intended' = Intended \cup {e} /\ effects'[e] = new
      /\ \A x \in Intended : effects'[x] = effects[x]
  BY <1>1, Zenon DEF Intended
<1>5. new \in Effect
  BY <1>2, Zenon DEF Effect
<1>6. EffectTypeOK'
  BY <1>1, <1>2, <1>3, <1>4, <1>5, CursorsTracked, Zenon DEF EffectInv, EffectTypeOK
<1>7. (InvokedAtMostOnce /\ ConclusionIsTrue /\ RecordInv)'
  <2>1. /\ new.dispatch = "Intended" /\ new.claimedBy = NoProcess
        /\ new.conclusion = "Pending" /\ new.reconciliation = "NotRequired"
    BY Zenon
  <2> HIDE DEF new
  <2>2. InvokedAtMostOnce'
    BY <1>1, <1>4, Zenon DEF EffectInv, InvokedAtMostOnce
  <2>3. ConclusionIsTrue'
    BY <1>1, <1>4, <2>1, ZenonT(60) DEF EffectInv, ConclusionIsTrue
  <2>4. RecordInv'
    BY <1>1, <1>4, <2>1 DEF EffectInv, RecordInv
  <2> QED BY <2>2, <2>3, <2>4, Zenon
<1>8. ASSUME NEW q \in Processes PROVE (DispatchInv(q) /\ PlanInv(q))'
  <2>1. CASE q = p
    <3>1. job'[q].at = "idle"
      BY <2>1, <1>3 DEF Idle
    <3> QED BY <3>1, Zenon DEF DispatchInv, PlanInv
  <2>2. CASE q # p
    <3>1. DispatchInv(q)'
      BY <2>2, <1>1, <1>3, <1>4, Zenon DEF EffectInv, DispatchInv
    <3>2. PlanInv(q)'
      BY <2>2, <1>1, <1>3, <1>4, CursorsTracked, Zenon DEF EffectInv, PlanInv, AtCursor, Planned
    <3> QED BY <3>1, <3>2, Zenon
  <2> QED BY <2>1, <2>2, ZenonT(60)
<1> QED
  BY <1>6, <1>7, <1>8, Zenon DEF EffectInv

(* claim_effect_dispatch: the claim is the first, so no other process can  *)
(* invoke the executor, and every plan from before it is refused.          *)
LEMMA ClaimInv ==
  ASSUME NEW p \in Processes, NEW e \in Effects, NEW s, EffectInv, TrackCursors,
         ClaimEffectDispatch(p, e, s)
  PROVE  EffectInv'
<1>1. /\ e \in Intended /\ effects[e].dispatch = "Intended"
      /\ effects' = [effects EXCEPT ![e].dispatch = "Claimed", ![e].claimedBy = p]
      /\ job' = [job EXCEPT ![p] = [at |-> "dispatch", effect |-> e]]
      /\ UNCHANGED <<effectOpen, lateReceipts, world, calls>>
  BY Zenon DEF ClaimEffectDispatch, FoldClaimed, Starts, outside
<1>2. /\ DOMAIN job = Processes /\ effects[e] \in Effect
      /\ effects[e].claimedBy = NoProcess /\ effects[e].conclusion = "Pending"
      /\ effects[e].reconciliation = "NotRequired" /\ NoProcess \notin Processes
  BY <1>1, EffectAssumption, Zenon DEF EffectInv, EffectTypeOK, RecordInv
<1>3. /\ job'[p] = [at |-> "dispatch", effect |-> e]
      /\ DOMAIN job' = Processes /\ \A q \in Processes : q # p => job'[q] = job[q]
  BY <1>1, <1>2, Zenon
<1>4. /\ Intended' = Intended /\ effects'[e] \in Effect
      /\ effects'[e].dispatch = "Claimed" /\ effects'[e].claimedBy = p
      /\ effects'[e].conclusion = "Pending"
      /\ effects'[e].reconciliation = "NotRequired"
      /\ \A x \in Intended : x # e => effects'[x] = effects[x]
  BY <1>1, <1>2, Zenon DEF Intended, Effect
<1>5. calls[e] = 0
  BY <1>1, <1>2 DEF EffectInv, InvokedAtMostOnce, EffectTypeOK
<1>6. EffectTypeOK'
  BY <1>1, <1>3, <1>4, CursorsTracked, Zenon DEF EffectInv, EffectTypeOK, Idle
<1>7. (InvokedAtMostOnce /\ ConclusionIsTrue)'
  <2>1. ASSUME NEW x \in Effects
        PROVE  calls'[x] <= 1 /\ (calls'[x] = 1 => x \in Intended' /\ effects'[x].claimedBy # NoProcess)
    <3>1. calls' = calls /\ calls[x] <= 1
          /\ (calls[x] = 1 => x \in Intended /\ effects[x].claimedBy # NoProcess)
      BY <1>1, Zenon DEF EffectInv, InvokedAtMostOnce
    <3>2. CASE x = e
      BY <3>1, <3>2, <1>2, Zenon
    <3>3. CASE x # e
      BY <3>1, <3>3, <1>4, Zenon
    <3> QED BY <3>2, <3>3, Zenon
  <2>2. ASSUME NEW x \in Intended'
        PROVE  /\ effects'[x].conclusion = "Applied" => world'[x] = "Applied"
               /\ effects'[x].conclusion = "NotApplied" => world'[x] = "Untouched"
    <3>1. CASE x = e
      BY <3>1, <1>4, Zenon
    <3>2. CASE x # e
      BY <3>2, <1>1, <1>4, ZenonT(60) DEF EffectInv, ConclusionIsTrue
    <3> QED BY <3>1, <3>2, Zenon
  <2> QED BY <2>1, <2>2, Zenon DEF InvokedAtMostOnce, ConclusionIsTrue
<1>8. RecordInv'
  <2> DEFINE Fits(r) == /\ r.dispatch = "Intended" => r.claimedBy = NoProcess
                        /\ r.dispatch = "Claimed" => r.claimedBy \in Processes
                        /\ r.dispatch = "Concluded" <=> r.conclusion # "Pending"
                        /\ r.conclusion \in {"Partial", "Unknown"} <=>
                             r.reconciliation # "NotRequired"
  <2>1. Fits(effects'[e])
    BY <1>4, Zenon
  <2>2. \A x \in Intended : Fits(effects[x])
    BY Zenon DEF EffectInv, RecordInv
  <2>3. \A x \in Effects : calls'[x] = 0 => world'[x] = "Untouched"
    BY <1>1, Zenon DEF EffectInv, RecordInv
  <2>4. ASSUME NEW x \in Intended' PROVE Fits(effects'[x])
    <3> HIDE DEF Fits
    <3> QED BY <2>1, <2>2, <1>4, Zenon
  <2> QED
    BY <2>3, <2>4, Zenon DEF RecordInv
<1>9. ASSUME NEW q \in Processes PROVE (DispatchInv(q) /\ PlanInv(q))'
  <2>1. CASE q = p
    BY <2>1, <1>1, <1>3, <1>4, <1>5, Zenon DEF DispatchInv, PlanInv
  <2>2. CASE q # p
    <3>1. DispatchInv(q)'
      <4>1. job[q].at \in {"dispatch", "receipt"} => job[q].effect \in Intended \ {e}
        BY <2>2, <1>2, Zenon DEF EffectInv, DispatchInv
      <4>2. job'[q] = job[q] /\ DispatchInv(q) /\ world' = world /\ calls' = calls
        BY <2>2, <1>1, <1>3, ZenonT(60) DEF EffectInv
      <4>3. job[q].at \in {"dispatch", "receipt"} =>
              job[q].effect \in Intended' /\ effects'[job[q].effect] = effects[job[q].effect]
        BY <4>1, <1>4, Zenon
      <4> QED
        BY <4>2, <4>3, ZenonT(60) DEF DispatchInv
    <3>2. PlanInv(q)'
      BY <2>2, <1>1, <1>3, <1>4, CursorsTracked, Zenon
         DEF EffectInv, PlanInv, AtCursor, Planned, effectStream
    <3> QED BY <3>1, <3>2, Zenon
  <2> QED BY <2>1, <2>2, Zenon
<1> QED
  BY <1>6, <1>7, <1>8, <1>9, Zenon DEF EffectInv

(* The executor runs: it is the first invocation, of an effect on which no *)
(* definite conclusion is on record or planned.                            *)
LEMMA ExecuteInv ==
  ASSUME NEW p \in Processes, NEW w \in Worlds, NEW class, EffectInv, TrackCursors,
         ExecuteEffect(p, w, class)
  PROVE  EffectInv'
<1> DEFINE e == job[p].effect
<1>1. /\ job[p].at = "dispatch" /\ class \in Reports(w)
      /\ job' = [job EXCEPT ![p] = [at |-> "receipt", effect |-> e, class |-> class]]
      /\ world' = [world EXCEPT ![e] = w]
      /\ calls' = [calls EXCEPT ![e] = @ + 1]
      /\ UNCHANGED <<effectOpen, effects, lateReceipts>>
  BY Zenon DEF ExecuteEffect, Continues, effectStream
<1>2. /\ DOMAIN job = Processes /\ e \in Effects /\ e \in Intended
      /\ effects[e].claimedBy = p /\ calls[e] = 0 /\ world[e] = "Untouched"
      /\ effects[e].conclusion \notin {"Applied", "NotApplied"}
  BY <1>1, Zenon DEF EffectInv, EffectTypeOK, DispatchInv, RecordInv
<1>3. /\ job'[p] = [at |-> "receipt", effect |-> e, class |-> class]
      /\ DOMAIN job' = Processes /\ \A q \in Processes : q # p => job'[q] = job[q]
  BY <1>1, <1>2, ZenonT(60)
<1>4. /\ calls' \in [Effects -> Nat] /\ world' \in [Effects -> Worlds]
      /\ calls'[e] = 1 /\ world'[e] = w /\ Intended' = Intended
      /\ \A x \in Effects : x # e => calls'[x] = calls[x] /\ world'[x] = world[x]
  BY <1>1, <1>2 DEF EffectInv, EffectTypeOK, Intended
<1>5. EffectTypeOK'
  BY <1>1, <1>2, <1>3, <1>4, CursorsTracked, ZenonT(60) DEF EffectInv, EffectTypeOK
<1>6. InvokedAtMostOnce'
  BY <1>1, <1>2, <1>4, EffectAssumption DEF EffectInv, InvokedAtMostOnce
<1>7. ConclusionIsTrue'
  BY <1>1, <1>2, <1>4, ZenonT(60) DEF EffectInv, EffectTypeOK, ConclusionIsTrue
<1>8. RecordInv'
  BY <1>1, <1>2, <1>4 DEF EffectInv, RecordInv
<1>9. ASSUME NEW q \in Processes PROVE (DispatchInv(q) /\ PlanInv(q))'
  <2>1. CASE q = p
    BY <2>1, <1>1, <1>2, <1>3, <1>4, Zenon DEF DispatchInv, PlanInv
  <2>2. CASE q # p
    <3>1. DispatchInv(q)'
      BY <2>2, <1>1, <1>2, <1>3, <1>4, SMTT(20) DEF EffectInv, EffectTypeOK, DispatchInv
    <3>2. PlanInv(q)'
      <4> DEFINE f == job[q].effect
      <4>1. job'[q] = job[q] /\ PlanInv(q)
        BY <2>2, <1>3, Zenon DEF EffectInv
      <4>2. job[q].at = "terminal" => f \in Intended /\ f \in Effects
        BY <4>1, Zenon DEF PlanInv, EffectInv, EffectTypeOK
      <4>3. job[q].at = "terminal" /\ AtCursor(q, "effect")' => AtCursor(q, "effect")
        BY <4>1, CursorsTracked, ZenonT(60) DEF EffectInv, AtCursor, Planned
      <4>4. CASE f = e
        BY <4>1, <4>3, <4>4, <1>1, <1>2, <1>4, SMTT(60) DEF PlanInv
      <4>5. CASE f # e
        BY <4>1, <4>2, <4>3, <4>5, <1>1, <1>4, SMTT(20) DEF PlanInv
      <4> QED BY <4>4, <4>5, Zenon
    <3> QED BY <3>1, <3>2, ZenonT(60)
  <2> QED BY <2>1, <2>2, ZenonT(60)
<1> QED
  BY <1>5, <1>6, <1>7, <1>8, <1>9, Zenon DEF EffectInv

(* append_effect_terminal_pair: a definite conclusion is true when it is   *)
(* appended, and no process can make it false afterwards.                  *)
LEMMA TerminalPairInv ==
  ASSUME NEW p \in Processes, EffectInv, TrackCursors, AppendTerminalPair(p)
  PROVE  EffectInv'
<1> DEFINE e == job[p].effect
           c == job[p].conclusion
           uncertain == c \in {"Partial", "Unknown"}
<1>1. /\ job[p].at = "terminal" /\ job' = [job EXCEPT ![p] = Idle] /\ AtCursor(p, "effect")
      /\ effects[e].dispatch \in IF c = "NotApplied" THEN {"Intended", "Claimed"} ELSE {"Claimed"}
      /\ effects' = [effects EXCEPT ![e].dispatch = "Concluded", ![e].conclusion = c,
           ![e].reconciliation = IF uncertain THEN "Required" ELSE @]
      /\ UNCHANGED <<effectOpen, lateReceipts, world, calls>>
  BY Zenon DEF AppendTerminalPair, Continues, FoldConcluded, outside
<1>2. /\ DOMAIN job = Processes /\ e \in Intended /\ e \in Effects /\ c \in Conclusions
      /\ c = "Applied" => world[e] = "Applied"
      /\ c = "NotApplied" => (world[e] = "Untouched" /\ calls[e] = 1) \/ effects[e].dispatch = "Intended"
  BY <1>1, ZenonT(60) DEF EffectInv, EffectTypeOK, PlanInv, Idle
<1>3. /\ effects[e] \in Effect /\ effects[e].conclusion = "Pending"
      /\ effects[e].reconciliation = "NotRequired"
      /\ effects[e].dispatch = "Intended" => effects[e].claimedBy = NoProcess
  BY <1>1, <1>2, Zenon DEF EffectInv, EffectTypeOK, RecordInv
<1>4. effects[e].dispatch = "Intended" => calls[e] = 0 /\ world[e] = "Untouched"
  <2>1. /\ calls[e] \in Nat /\ calls[e] <= 1
        /\ calls[e] = 1 => effects[e].claimedBy # NoProcess
    BY <1>2, ZenonT(60) DEF EffectInv, EffectTypeOK, InvokedAtMostOnce
  <2>2. calls[e] = 0 \/ calls[e] = 1
    BY <2>1
  <2>3. calls[e] = 0 => world[e] = "Untouched"
    BY <1>2, Zenon DEF EffectInv, RecordInv
  <2> QED BY <2>1, <2>2, <2>3, <1>3, Zenon
<1>5. /\ Intended' = Intended /\ effects'[e] \in Effect
      /\ effects'[e].dispatch = "Concluded" /\ effects'[e].conclusion = c
      /\ effects'[e].claimedBy = effects[e].claimedBy
      /\ effects'[e].reconciliation = IF uncertain THEN "Required" ELSE "NotRequired"
      /\ \A x \in Intended : x # e => effects'[x] = effects[x]
  BY <1>1, <1>2, <1>3, Zenon DEF Intended, Effect
<1>6. job'[p] = Idle /\ DOMAIN job' = Processes /\ \A q \in Processes : q # p => job'[q] = job[q]
  BY <1>1, <1>2, Zenon
<1>7. EffectTypeOK'
  BY <1>1, <1>5, <1>6, CursorsTracked, Zenon DEF EffectInv, EffectTypeOK
<1>8. InvokedAtMostOnce' /\ ConclusionIsTrue'
  <2>1. \A x \in Intended : effects'[x].claimedBy = effects[x].claimedBy
    BY <1>5, Zenon
  <2>2. InvokedAtMostOnce'
    BY <1>1, <1>5, <2>1, ZenonT(60) DEF EffectInv, InvokedAtMostOnce
  <2>3. ASSUME NEW x \in Intended'
        PROVE  /\ effects'[x].conclusion = "Applied" => world'[x] = "Applied"
               /\ effects'[x].conclusion = "NotApplied" => world'[x] = "Untouched"
    <3>1. CASE x = e
      BY <3>1, <1>1, <1>2, <1>4, <1>5, Zenon
    <3>2. CASE x # e
      BY <3>2, <1>1, <1>5, Zenon DEF EffectInv, ConclusionIsTrue
    <3> QED BY <3>1, <3>2, Zenon
  <2> QED BY <2>2, <2>3, ZenonT(60) DEF ConclusionIsTrue
<1>9. RecordInv'
  <2> DEFINE Fits(r) == /\ r.dispatch = "Intended" => r.claimedBy = NoProcess
                        /\ r.dispatch = "Claimed" => r.claimedBy \in Processes
                        /\ r.dispatch = "Concluded" <=> r.conclusion # "Pending"
                        /\ r.conclusion \in {"Partial", "Unknown"} <=>
                             r.reconciliation # "NotRequired"
  <2>1. c # "Pending" /\ (uncertain <=> effects'[e].reconciliation # "NotRequired")
    BY <1>2, <1>5, Zenon DEF Conclusions
  <2>2. Fits(effects'[e])
    BY <2>1, <1>5, Zenon
  <2>3. \A x \in Intended : Fits(effects[x])
    BY Zenon DEF EffectInv, RecordInv
  <2>4. \A x \in Effects : calls'[x] = 0 => world'[x] = "Untouched"
    BY <1>1, ZenonT(60) DEF EffectInv, RecordInv
  <2>5. ASSUME NEW x \in Intended' PROVE Fits(effects'[x])
    <3> HIDE DEF Fits
    <3> QED BY <2>2, <2>3, <1>5, Zenon
  <2> QED
    BY <2>4, <2>5, Zenon DEF RecordInv
<1>10. ASSUME NEW q \in Processes PROVE (DispatchInv(q) /\ PlanInv(q))'
  <2>1. CASE q = p
    <3>1. job'[q].at = "idle"
      BY <2>1, <1>6 DEF Idle
    <3> QED BY <3>1, Zenon DEF DispatchInv, PlanInv
  <2>2. CASE q # p
    <3> DEFINE f == job[q].effect
    <3>1. job'[q] = job[q] /\ DispatchInv(q) /\ PlanInv(q) /\ world' = world /\ calls' = calls
      BY <2>2, <1>1, <1>6, Zenon DEF EffectInv
    <3>2. DispatchInv(q)'
      <4>1. CASE f # e
        BY <3>1, <4>1, <1>5, Zenon DEF DispatchInv
      <4>2. CASE f = e
        <5>1. ASSUME job[q].at = "dispatch" PROVE c \notin {"Applied", "NotApplied"}
          <6>1. effects[e].claimedBy = q /\ calls[e] = 0
            BY <3>1, <4>2, <5>1, Zenon DEF DispatchInv
          <6>2. effects[e].dispatch # "Intended"
            BY <6>1, <1>3, EffectAssumption, ZenonT(60)
          <6>3. world[e] = "Untouched"
            BY <6>1, <1>2, Zenon DEF EffectInv, RecordInv
          <6> QED BY <6>1, <6>2, <6>3, <1>2
        <5> QED
          BY <3>1, <4>2, <5>1, <1>5, ZenonT(60) DEF DispatchInv
      <4> QED BY <4>1, <4>2, Zenon
    <3>3. PlanInv(q)'
      <4>1. job[q].at = "terminal" /\ AtCursor(q, "effect")' =>
              AtCursor(q, "effect") /\ effects' = effects
        BY <3>1, CursorsTracked, Zenon DEF EffectInv, AtCursor, Planned, effectStream
      <4> QED
        BY <3>1, <4>1, <1>5, Zenon DEF PlanInv
    <3> QED BY <3>2, <3>3, Zenon
  <2> QED BY <2>1, <2>2, ZenonT(60)
<1> QED
  BY <1>7, <1>8, <1>9, <1>10, Zenon DEF EffectInv

(* reconcile_effect only resolves what was uncertain.                      *)
LEMMA ReconcileInv ==
  ASSUME NEW p \in Processes, EffectInv, TrackCursors, ReconcileEffect(p)
  PROVE  EffectInv'
<1> DEFINE e == job[p].effect
<1>1. /\ job[p].at = "reconcile" /\ job' = [job EXCEPT ![p] = Idle]
      /\ effects[e].reconciliation = "Required"
      /\ effects' = [effects EXCEPT ![e].reconciliation = job[p].resolution]
      /\ UNCHANGED <<effectOpen, lateReceipts, world, calls>>
  BY Zenon DEF ReconcileEffect, Continues, FoldReconciled, outside
<1>2. /\ DOMAIN job = Processes /\ e \in Intended /\ effects[e] \in Effect
      /\ job[p].resolution \in {"ResolvedApplied", "ResolvedNotApplied", "ResolvedPartial"}
      /\ job[p].resolution \in {Resolution(w) : w \in Worlds}
  BY <1>1, Zenon DEF EffectInv, EffectTypeOK, PlanInv, Resolution, Worlds
<1>3. /\ Intended' = Intended /\ effects'[e] \in Effect
      /\ effects'[e].dispatch = effects[e].dispatch
      /\ effects'[e].conclusion = effects[e].conclusion
      /\ effects'[e].claimedBy = effects[e].claimedBy
      /\ effects'[e].reconciliation = job[p].resolution
      /\ \A x \in Intended : x # e => effects'[x] = effects[x]
  BY <1>1, <1>2, Zenon DEF Intended, Effect
<1>4. job'[p] = Idle /\ DOMAIN job' = Processes /\ \A q \in Processes : q # p => job'[q] = job[q]
  BY <1>1, <1>2, Zenon
<1>5. EffectTypeOK'
  BY <1>1, <1>3, <1>4, CursorsTracked, ZenonT(60) DEF EffectInv, EffectTypeOK
<1>6. InvokedAtMostOnce' /\ ConclusionIsTrue'
  <2>1. InvokedAtMostOnce'
    BY <1>1, <1>3, Zenon DEF EffectInv, InvokedAtMostOnce
  <2>2. /\ world' = world /\ Intended' = Intended
        /\ \A x \in Intended : effects'[x].conclusion = effects[x].conclusion
    BY <1>1, <1>3, Zenon
  <2>3. ConclusionIsTrue
    BY Zenon DEF EffectInv
  <2>4. ConclusionIsTrue'
    BY <2>2, <2>3, Zenon DEF ConclusionIsTrue
  <2> QED BY <2>1, <2>4, Zenon
<1>7. RecordInv'
  BY <1>1, <1>2, <1>3 DEF EffectInv, RecordInv
<1>8. ASSUME NEW q \in Processes PROVE (DispatchInv(q) /\ PlanInv(q))'
  <2>1. CASE q = p
    <3>1. job'[q].at = "idle"
      BY <2>1, <1>4 DEF Idle
    <3> QED BY <3>1, Zenon DEF DispatchInv, PlanInv
  <2>2. CASE q # p
    <3>1. job'[q] = job[q] /\ DispatchInv(q) /\ PlanInv(q) /\ world' = world /\ calls' = calls
      BY <2>2, <1>1, <1>4, ZenonT(60) DEF EffectInv
    <3>2. \A x \in Intended : /\ effects'[x].claimedBy = effects[x].claimedBy
                             /\ effects'[x].conclusion = effects[x].conclusion
                             /\ effects'[x].dispatch = effects[x].dispatch
      BY <1>3, Zenon
    <3>3. DispatchInv(q)'
      BY <3>1, <3>2, <1>3, Zenon DEF DispatchInv
    <3>4. PlanInv(q)'
      <4>1. job[q].at = "terminal" /\ AtCursor(q, "effect")' => AtCursor(q, "effect")
        BY <3>1, CursorsTracked, Zenon DEF EffectInv, AtCursor, Planned
      <4> QED
        BY <3>1, <3>2, <4>1, <1>3, ZenonT(60) DEF PlanInv
    <3> QED BY <3>3, <3>4, Zenon
  <2> QED BY <2>1, <2>2, ZenonT(60)
<1> QED
  BY <1>5, <1>6, <1>7, <1>8, Zenon DEF EffectInv

-----------------------------------------------------------------------------
(* Every step of the effect runtime, and every step of the lifecycle, the  *)
(* grants and runtime control beside it, keeps the invariant.              *)
LEMMA EffectNextInv ==
  ASSUME EffectInv, EffectNext
  PROVE  EffectInv'
<1>1. TrackCursors
  BY Zenon DEF EffectNext
<1>2. effectOpen \in BOOLEAN /\ lateReceipts \in 0..MaxLate
  BY Zenon DEF EffectInv, EffectTypeOK
<1>3. CASE EffectStep
  <2>1. CASE InitializeEffectStream
    <3>1. effectOpen' = TRUE /\ UNCHANGED <<effects, lateReceipts, outside, job>>
      BY <2>1, Zenon DEF InitializeEffectStream
    <3> QED BY <3>1, <1>1, <1>2, QuietStepInv, Zenon
  <2>2. ASSUME NEW p \in Processes, NEW e \in Effects, NEW s \in samples,
               \/ \E o \in Paired, t \in Parents, d \in Deadlines : PlanRequest(p, e, o, t, d, s)
               \/ ClaimEffectDispatch(p, e, s)
               \/ \E cause \in Causes : PlanRecovery(p, e, cause, s)
        PROVE  EffectInv'
    BY <2>2, <1>1, PlanRequestInv, ClaimInv, PlanRecoveryInv, Zenon
  <2>3. ASSUME NEW p \in Processes, \E delivered \in BOOLEAN : AppendReserveIntentPair(p, delivered)
        PROVE  EffectInv'
    BY <2>3, <1>1, ReserveIntentInv, Zenon
  <2>4. ASSUME NEW p \in Processes, \E w \in Worlds : \E class \in Reports(w) : ExecuteEffect(p, w, class)
        PROVE  EffectInv'
    BY <2>4, <1>1, ExecuteInv, Zenon
  <2>5. ASSUME NEW p \in Processes,
               \E l \in leases, k \in Callbacks, s \in samples, valid \in BOOLEAN :
                 PlanReceipt(p, l, k, s, valid)
        PROVE  EffectInv'
    BY <2>5, <1>1, PlanReceiptInv, Zenon
  <2>6. ASSUME NEW p \in Processes,
               AppendTerminalPair(p) \/ ReconcileEffect(p) \/ EndCall(p)
        PROVE  EffectInv'
    BY <2>6, <1>1, TerminalPairInv, ReconcileInv, EndCallInv, Zenon
  <2>7. ASSUME NEW p \in Processes, NEW e \in Effects, ObserveWorld(p, e)
        PROVE  EffectInv'
    BY <2>7, <1>1, ObserveWorldInv, Zenon
  <2>8. ASSUME NEW e \in Effects, ObserveLateEffectReceipt(e)
        PROVE  EffectInv'
    <3>1. UNCHANGED <<effectOpen, effects, outside, job>> /\ lateReceipts' \in 0..MaxLate
      BY <2>8, <1>2, EffectAssumption, SMTT(60) DEF ObserveLateEffectReceipt
    <3> QED BY <3>1, <1>1, <1>2, QuietStepInv, Zenon
  <2> QED
    BY <1>3, <2>1, <2>2, <2>3, <2>4, <2>5, <2>6, <2>7, <2>8, Zenon DEF EffectStep
<1>4. CASE UNCHANGED effectVars
  BY <1>4, <1>1, <1>2, QuietStepInv, Zenon DEF effectVars, effectStream
<1> QED
  BY <1>3, <1>4, Zenon DEF EffectNext

(* The invariant of the effect runtime holds of every behaviour.           *)
THEOREM EffectCorrect == EffectSpec => []EffectInv
<1>1. Init /\ EffectInit => EffectInv
  BY EffectInitInv, Zenon
<1>2. EffectInv /\ [EffectNext]_allVars => EffectInv'
  <2>1. ASSUME EffectInv, UNCHANGED allVars PROVE EffectInv'
    <3>1. UNCHANGED <<effectOpen, effects, lateReceipts, world, calls, job, moved>>
      BY <2>1, ZenonT(60) DEF allVars, effectVars, effectStream, outside
    <3>2. EffectTypeOK'
      BY <2>1, <3>1, Zenon DEF EffectInv, EffectTypeOK, Intended
    <3>3. (InvokedAtMostOnce /\ ConclusionIsTrue /\ RecordInv)'
      BY <2>1, <3>1, Zenon DEF EffectInv, InvokedAtMostOnce, ConclusionIsTrue, RecordInv, Intended
    <3>4. ASSUME NEW q \in Processes PROVE DispatchInv(q)'
      BY <2>1, <3>1, Zenon DEF EffectInv, DispatchInv, Intended
    <3>5. ASSUME NEW q \in Processes PROVE PlanInv(q)'
      BY <2>1, <3>1, Zenon DEF EffectInv, PlanInv, Intended, AtCursor
    <3> QED
      BY <3>2, <3>3, <3>4, <3>5, Zenon DEF EffectInv
  <2> QED BY <2>1, EffectNextInv, Zenon
<1> QED
  BY <1>1, <1>2, PTL DEF EffectSpec

(* The executor of an effect is invoked at most once, by the process whose *)
(* claim is on record, whatever number of processes claim, crash, recover  *)
(* and reconcile (claim_effect_dispatch, execute_effect, recover_effect).  *)
THEOREM AtMostOneInvocation == EffectSpec => []InvokedAtMostOnce
<1>1. EffectInv => InvokedAtMostOnce
  BY Zenon DEF EffectInv
<1> QED
  BY <1>1, EffectCorrect, PTL

(* A definite conclusion is true and stays true, although it is planned in *)
(* one transaction and appended in another (append_effect_terminal_pair).  *)
THEOREM ConclusionsAreTrue == EffectSpec => []ConclusionIsTrue
<1>1. EffectInv => ConclusionIsTrue
  BY Zenon DEF EffectInv
<1> QED
  BY <1>1, EffectCorrect, PTL

-----------------------------------------------------------------------------
(* A step that changes neither what is on record nor the world is no step  *)
(* of the abstract specification.                                          *)
LEMMA QuietOutcome ==
  ASSUME UNCHANGED <<effects, world, calls>>
  PROVE  UNCHANGED Outcome!outcomeVars
<1>1. Intended' = Intended
  BY Zenon DEF Intended
<1>2. \A e \in Effects : VerdictOf(e)' = VerdictOf(e)
  BY <1>1, Zenon DEF VerdictOf
<1> QED
  BY <1>2, Zenon DEF Outcome!outcomeVars

(* If the record of one effect changes, so does its verdict only.          *)
LEMMA OneVerdict ==
  ASSUME NEW e \in Effects, NEW v, VerdictOf(e)' = v,
         \A x \in Effects \ {e} : VerdictOf(x)' = VerdictOf(x)
  PROVE  [x \in Effects |-> VerdictOf(x)]' = [[x \in Effects |-> VerdictOf(x)] EXCEPT ![e] = v]
  BY Zenon

(* append_effect_reserve_intent_pair is a request.                         *)
LEMMA RequestOutcome ==
  ASSUME NEW p \in Processes, NEW delivered, EffectInv, AppendReserveIntentPair(p, delivered)
  PROVE  Outcome!OutcomeNext
<1>0. PICK e \in Effects : e = job[p].effect
  <2>1. job[p].at = "request"
    BY Zenon DEF AppendReserveIntentPair, Continues
  <2>2. job[p] # Idle
    BY <2>1 DEF Idle
  <2> QED BY <2>2, Zenon DEF EffectInv, EffectTypeOK
<1>1. /\ job[p].at = "request" /\ e \notin Intended
      /\ effects' = [x \in Intended \cup {e} |-> IF x # e THEN effects[x] ELSE
           [op |-> job[p].op, dispatch |-> "Intended", claimedBy |-> NoProcess,
            conclusion |-> "Pending", reconciliation |-> "NotRequired"]]
      /\ UNCHANGED <<world, calls>>
  BY <1>0, Zenon DEF AppendReserveIntentPair, Continues, FoldIntended, outside
<1>3. /\ Intended' = Intended \cup {e} /\ effects'[e].conclusion = "Pending"
      /\ \A x \in Intended : effects'[x] = effects[x]
  BY <1>1, Zenon DEF Intended
<1>4. VerdictOf(e) = "None" /\ VerdictOf(e)' = "Open"
  BY <1>1, <1>3, ZenonT(60) DEF VerdictOf
<1>5. \A x \in Effects \ {e} : VerdictOf(x)' = VerdictOf(x)
  BY <1>3, Zenon DEF VerdictOf
<1>6. Outcome!Request(e)
  BY <1>1, <1>4, <1>5, OneVerdict, Zenon DEF Outcome!Request
<1> QED
  BY <1>6, Zenon DEF Outcome!OutcomeNext

(* A claim does not change the verdict.                                    *)
LEMMA ClaimOutcome ==
  ASSUME NEW p \in Processes, NEW e \in Effects, NEW s, EffectInv, ClaimEffectDispatch(p, e, s)
  PROVE  UNCHANGED Outcome!outcomeVars
<1>1. /\ e \in Intended
      /\ effects' = [effects EXCEPT ![e].dispatch = "Claimed", ![e].claimedBy = p]
      /\ UNCHANGED <<world, calls>>
  BY Zenon DEF ClaimEffectDispatch, FoldClaimed, outside
<1>2. effects[e] \in Effect
  BY <1>1, Zenon DEF EffectInv, EffectTypeOK
<1>3. /\ Intended' = Intended
      /\ \A x \in Intended : /\ effects'[x].conclusion = effects[x].conclusion
                             /\ effects'[x].reconciliation = effects[x].reconciliation
  BY <1>1, <1>2, Zenon DEF Intended, Effect
<1>4. \A x \in Effects : VerdictOf(x)' = VerdictOf(x)
  BY <1>3, Zenon DEF VerdictOf
<1> QED
  BY <1>1, <1>4, Zenon DEF Outcome!outcomeVars

(* The executor's run is the one attempt.                                  *)
LEMMA ExecuteOutcome ==
  ASSUME NEW p \in Processes, NEW w \in Worlds, NEW class, EffectInv, ExecuteEffect(p, w, class)
  PROVE  Outcome!OutcomeNext
<1> DEFINE e == job[p].effect
<1>1. /\ job[p].at = "dispatch" /\ UNCHANGED effects
      /\ world' = [world EXCEPT ![e] = w] /\ calls' = [calls EXCEPT ![e] = @ + 1]
  BY Zenon DEF ExecuteEffect, Continues, effectStream
<1>2. /\ e \in Intended /\ e \in Effects /\ calls[e] = 0
      /\ effects[e].conclusion \notin {"Applied", "NotApplied"}
  BY <1>1, Zenon DEF EffectInv, EffectTypeOK, DispatchInv
<1>3. \A x \in Effects : VerdictOf(x)' = VerdictOf(x)
  BY <1>1, Zenon DEF VerdictOf, Intended
<1>4. VerdictOf(e) \in {"Open", "Uncertain", "Resolved"}
  BY <1>2, Zenon DEF VerdictOf
<1>5. calls' = [calls EXCEPT ![e] = 1]
  <2>1. calls[e] + 1 = 1
    BY <1>2
  <2> QED BY <2>1, <1>1, ZenonT(60)
<1>6. Outcome!Attempt(e, w)
  BY <1>1, <1>2, <1>3, <1>4, <1>5, Zenon DEF Outcome!Attempt
<1> QED
  BY <1>2, <1>6, Zenon DEF Outcome!OutcomeNext, Worlds

(* append_effect_terminal_pair decides, and what it decides is true.       *)
LEMMA TerminalOutcome ==
  ASSUME NEW p \in Processes, EffectInv, ConclusionIsTrue', AppendTerminalPair(p)
  PROVE  Outcome!OutcomeNext
<1>0. PICK e \in Effects : e = job[p].effect
  <2>1. job[p].at = "terminal"
    BY Zenon DEF AppendTerminalPair, Continues
  <2>2. job[p] # Idle
    BY <2>1 DEF Idle
  <2> QED BY <2>2, Zenon DEF EffectInv, EffectTypeOK
<1> DEFINE c == job[p].conclusion
           uncertain == c \in {"Partial", "Unknown"}
           v == IF uncertain THEN "Uncertain" ELSE c
<1>1. /\ job[p].at = "terminal" /\ effects[e].dispatch # "Concluded"
      /\ effects' = [effects EXCEPT ![e].dispatch = "Concluded", ![e].conclusion = c,
           ![e].reconciliation = IF uncertain THEN "Required" ELSE @]
      /\ UNCHANGED <<world, calls>>
  BY <1>0, ZenonT(60) DEF AppendTerminalPair, Continues, FoldConcluded, outside
<1>2. /\ e \in Intended /\ c \in Conclusions /\ effects[e] \in Effect
      /\ effects[e].conclusion = "Pending"
  BY <1>0, <1>1, Zenon DEF EffectInv, EffectTypeOK, PlanInv, RecordInv
<1>3. /\ Intended' = Intended /\ effects'[e].conclusion = c
      /\ uncertain => effects'[e].reconciliation = "Required"
      /\ \A x \in Intended : x # e => effects'[x] = effects[x]
  BY <1>1, <1>2, Zenon DEF Intended, Effect
<1>4. VerdictOf(e) = "Open" /\ VerdictOf(e)' = v
  BY <1>2, <1>3, ZenonT(60) DEF VerdictOf, Conclusions
<1>5. \A x \in Effects \ {e} : VerdictOf(x)' = VerdictOf(x)
  BY <1>3, Zenon DEF VerdictOf
<1>6. (v = "Applied" => world[e] = "Applied") /\ (v = "NotApplied" => world[e] = "Untouched")
  BY <1>1, <1>2, <1>3, ZenonT(60) DEF ConclusionIsTrue, Conclusions
<1>7. Outcome!Decide(e, v)
  BY <1>1, <1>2, <1>4, <1>5, <1>6, OneVerdict, Zenon DEF Outcome!Decide
<1>8. v \in {"Applied", "NotApplied", "Uncertain"}
  BY <1>2, Zenon DEF Conclusions
<1> QED
  BY <1>7, <1>8, Zenon DEF Outcome!OutcomeNext

(* reconcile_effect resolves an uncertain verdict.                         *)
LEMMA ReconcileOutcome ==
  ASSUME NEW p \in Processes, EffectInv, ReconcileEffect(p)
  PROVE  Outcome!OutcomeNext
<1>0. PICK e \in Effects : e = job[p].effect
  BY DEF ReconcileEffect, Continues, EffectInv, EffectTypeOK, Idle
<1>1. /\ job[p].at = "reconcile" /\ effects[e].reconciliation = "Required"
      /\ effects' = [effects EXCEPT ![e].reconciliation = job[p].resolution]
      /\ UNCHANGED <<world, calls>>
  BY <1>0, Zenon DEF ReconcileEffect, Continues, FoldReconciled, outside
<1>2. /\ e \in Intended /\ effects[e] \in Effect
      /\ effects[e].conclusion \in {"Partial", "Unknown"} /\ job[p].resolution # "Required"
  BY <1>0, <1>1, Zenon DEF EffectInv, EffectTypeOK, PlanInv, RecordInv, Resolution, Worlds
<1>3. /\ Intended' = Intended /\ effects'[e].conclusion = effects[e].conclusion
      /\ effects'[e].reconciliation # "Required"
      /\ \A x \in Intended : x # e => effects'[x] = effects[x]
  BY <1>1, <1>2, Zenon DEF Intended, Effect
<1>4. VerdictOf(e) = "Uncertain" /\ VerdictOf(e)' = "Resolved"
  BY <1>1, <1>2, <1>3, ZenonT(60) DEF VerdictOf
<1>5. \A x \in Effects \ {e} : VerdictOf(x)' = VerdictOf(x)
  BY <1>3, Zenon DEF VerdictOf
<1>6. Outcome!Resolve(e)
  BY <1>1, <1>2, <1>4, <1>5, OneVerdict, Zenon DEF Outcome!Resolve
<1> QED
  BY <1>6, ZenonT(60) DEF Outcome!OutcomeNext

(* The effect runtime implements EffectOutcome: every step, of any         *)
(* process and of the components beside it, is a request, an attempt, a    *)
(* decision, a resolution, or changes nothing the promise is about.        *)
THEOREM ImplementsOutcomes == EffectSpec => KeepsOutcomes
<1>1. Init /\ EffectInit => Outcome!OutcomeInit
  <2> SUFFICES ASSUME EffectInit PROVE Outcome!OutcomeInit
    BY Zenon
  <2>1. Intended = {}
    BY Zenon DEF EffectInit, Intended
  <2>2. \A e \in Effects : VerdictOf(e) = "None"
    BY <2>1, Zenon DEF VerdictOf
  <2> QED
    BY <2>2, Zenon DEF EffectInit, Outcome!OutcomeInit
<1>2. ASSUME EffectInv, EffectInv', [EffectNext]_allVars
      PROVE  [Outcome!OutcomeNext]_(Outcome!outcomeVars)
  <2>1. CASE EffectStep
    <3>1. ASSUME NEW p \in Processes, NEW e \in Effects, NEW s,
                 (\E o, t, d : PlanRequest(p, e, o, t, d, s)) \/ (\E cause : PlanRecovery(p, e, cause, s))
          PROVE  UNCHANGED Outcome!outcomeVars
      <4>1. UNCHANGED <<effects, world, calls>>
        BY <3>1, Zenon DEF PlanRequest, PlanRecovery, effectStream, outside
      <4> QED BY <4>1, QuietOutcome, Zenon
    <3>2. ASSUME NEW p \in Processes,
                 \/ \E l, k, s, valid : PlanReceipt(p, l, k, s, valid)
                 \/ \E e \in Effects : ObserveWorld(p, e)
                 \/ EndCall(p)
          PROVE  UNCHANGED Outcome!outcomeVars
      <4>1. UNCHANGED <<effects, world, calls>>
        BY <3>2, Zenon DEF PlanReceipt, ObserveWorld, EndCall, effectStream, outside
      <4> QED BY <4>1, QuietOutcome, Zenon
    <3>3. ASSUME InitializeEffectStream \/ \E e \in Effects : ObserveLateEffectReceipt(e)
          PROVE  UNCHANGED Outcome!outcomeVars
      <4>1. UNCHANGED <<effects, world, calls>>
        BY <3>3, Zenon DEF InitializeEffectStream, ObserveLateEffectReceipt, outside
      <4> QED BY <4>1, QuietOutcome, Zenon
    <3>4. ConclusionIsTrue'
      BY <1>2, Zenon DEF EffectInv
    <3> QED
      BY <2>1, <3>1, <3>2, <3>3, <3>4, <1>2, RequestOutcome, ClaimOutcome, ExecuteOutcome,
         TerminalOutcome, ReconcileOutcome
        , Zenon DEF EffectStep
  <2>2. CASE UNCHANGED effectVars
    <3>1. UNCHANGED <<effects, world, calls>>
      BY <2>2, Zenon DEF effectVars, effectStream, outside
    <3> QED BY <3>1, QuietOutcome, Zenon
  <2> QED
    BY <2>1, <2>2, <1>2, ZenonT(60) DEF EffectNext, allVars
<1> QED
  BY <1>1, <1>2, EffectCorrect, PTL DEF EffectSpec, KeepsOutcomes, Outcome!OutcomeSpec

-----------------------------------------------------------------------------
(* The effect runtime only adds conditions to the lifecycle commands       *)
(* (ensure_effects_complete_for_run and ensure_effects_complete_for_task), *)
(* so what holds of the lifecycle holds of the composed system.            *)
THEOREM EffectsImplementLifecycle == EffectSpec => LifecycleSpec
<1>1. Init => LifecycleInit
  BY Zenon DEF Init
<1>2. ASSUME [EffectNext]_allVars PROVE [LifecycleNext]_lifecycleVars
  <2>1. CASE EffectStep
    <3>1. ASSUME NEW p \in Processes, NEW e, NEW s,
                 \/ \E o, t, d : PlanRequest(p, e, o, t, d, s)
                 \/ ClaimEffectDispatch(p, e, s)
                 \/ \E cause : PlanRecovery(p, e, cause, s)
                 \/ ObserveWorld(p, e)
          PROVE  UNCHANGED lifecycleVars
      BY <3>1, Zenon DEF PlanRequest, ClaimEffectDispatch, PlanRecovery, ObserveWorld, vars
    <3>2. ASSUME NEW p \in Processes,
                 \/ \E delivered : AppendReserveIntentPair(p, delivered)
                 \/ \E w, class : ExecuteEffect(p, w, class)
                 \/ \E l, k, s, valid : PlanReceipt(p, l, k, s, valid)
                 \/ AppendTerminalPair(p)
                 \/ ReconcileEffect(p)
                 \/ EndCall(p)
          PROVE  UNCHANGED lifecycleVars
      BY <3>2, ZenonT(60) DEF AppendReserveIntentPair, ExecuteEffect, PlanReceipt, AppendTerminalPair,
                         ReconcileEffect, EndCall, vars
    <3>3. ASSUME InitializeEffectStream \/ \E e : ObserveLateEffectReceipt(e)
          PROVE  UNCHANGED lifecycleVars
      BY <3>3, Zenon DEF InitializeEffectStream, ObserveLateEffectReceipt, vars
    <3> QED BY <2>1, <3>1, <3>2, <3>3, Zenon DEF EffectStep
  <2>2. CASE EffectLifecycle
    BY <2>2, Zenon DEF EffectLifecycle, LifecycleNext
  <2>3. CASE UNCHANGED lifecycleVars
    BY <2>3, Zenon
  <2> QED BY <1>2, <2>1, <2>2, <2>3, Zenon DEF EffectNext, allVars, vars
<1> QED BY <1>1, <1>2, PTL DEF EffectSpec, LifecycleSpec
=============================================================================
