----------------------------- MODULE PairProofs -----------------------------
(***************************************************************************)
(* What the hook and the effect runtime rely on when they append pairs of  *)
(* events: what a reservation and a settlement make of the record of an    *)
(* operation, and that no command of runtime control itself decides about  *)
(* an operation that carries a pair.                                       *)
(***************************************************************************)
EXTENDS PairedControl, TLAPS

(* What the hook and the effect runtime rely on: a control command of its  *)
(* own never decides about an operation that carries a pair.               *)
PairsUntouched ==
  /\ Operating' \cap Paired = Operating \cap Paired
  /\ Operating \subseteq Operating'
  /\ \A o \in Operating \cap Paired :
       /\ ops'[o].outcome = ops[o].outcome /\ ops'[o].accounted = ops[o].accounted
       /\ ops'[o].task = ops[o].task /\ ops'[o].deadline = ops[o].deadline

(* A step that only changes the record of one operation.                   *)
LEMMA OneOperation ==
  ASSUME OperationsTyped, UNCHANGED <<clock, samples>>, NEW o \in Operating,
         DOMAIN ops' = DOMAIN ops, \A x \in Operating \ {o} : ops'[x] = ops[x],
         ops'[o] \in Operation,
         o \in Paired => /\ ops'[o].outcome = ops[o].outcome
                         /\ ops'[o].accounted = ops[o].accounted
                         /\ ops'[o].task = ops[o].task /\ ops'[o].deadline = ops[o].deadline
  PROVE  OperationsTyped' /\ PairsUntouched
  BY Zenon DEF OperationsTyped, PairsUntouched, Operating

(* A step that changes no operation; the clock may move.                   *)
LEMMA NoOperation ==
  ASSUME OperationsTyped, clock' \in Sample, samples' \subseteq Sample, UNCHANGED ops
  PROVE  OperationsTyped' /\ PairsUntouched
  BY Zenon DEF OperationsTyped, PairsUntouched, Operating

WithSettlement(r, outcome, n, ks) ==
  [r EXCEPT !.outcome = outcome, !.accounted = n, !.callbacks = @ \cup ks]

SettledFrom(q, r, outcome, n) ==
  /\ q \in Operation /\ q.outcome = outcome /\ q.accounted = n
  /\ q.task = r.task /\ q.deadline = r.deadline

(* The record of a settlement keeps what the operation was reserved for.   *)
LEMMA SettledRecord ==
  ASSUME NEW r \in Operation, NEW outcome \in Outcomes, NEW n \in 0..Envelope,
         NEW ks \in SUBSET Callbacks
  PROVE  SettledFrom(WithSettlement(r, outcome, n, ks), r, outcome, n)
<1>0. PICK q \in {WithSettlement(r, outcome, n, ks)} : q = WithSettlement(r, outcome, n, ks)
  BY Zenon
<1>1. r.callbacks \cup ks \in SUBSET Callbacks
  BY Zenon DEF Operation
<1>2. q = [subject |-> r.subject, task |-> r.task, deadline |-> r.deadline,
           reservedAt |-> r.reservedAt, epoch |-> r.epoch, outcome |-> outcome,
           accounted |-> n, refunded |-> r.refunded, callbacks |-> r.callbacks \cup ks]
  BY <1>0, Zenon DEF Operation, WithSettlement
<1>3. /\ r.subject \in Actors /\ r.task \in Parents /\ r.deadline \in Nat
      /\ r.reservedAt \in Nat /\ r.epoch \in Processes /\ r.refunded \in 0..Envelope
  BY Zenon DEF Operation
<1>4. outcome \in Outcomes \cup {"Pending"}
  BY Zenon
<1>5. q \in Operation
  BY <1>1, <1>2, <1>3, <1>4, SMTT(20) DEF Operation
<1>6. /\ q.outcome = outcome /\ q.accounted = n
      /\ q.task = r.task /\ q.deadline = r.deadline
  BY <1>2, SMTT(20)
<1> QED BY <1>0, <1>5, <1>6, Zenon DEF SettledFrom

(* operation-reserved, for whatever subject, task and deadline.            *)
LEMMA ReservedRecord ==
  ASSUME OperationsTyped, NEW o, o \notin Operating, NEW a \in Actors, NEW t \in Parents,
         NEW d \in Nat, NEW p \in Processes, NEW wall \in Nat,
         RecordReservation(o, a, t, d, p, wall), UNCHANGED <<clock, samples>>
  PROVE  /\ Operating' = Operating \cup {o} /\ \A x \in Operating : ops'[x] = ops[x]
         /\ ops'[o].outcome = "Pending" /\ ops'[o].accounted = 0
         /\ ops'[o].task = t /\ ops'[o].deadline = d
         /\ OperationsTyped'
<1> DEFINE new == [subject |-> a, task |-> t, deadline |-> d,
                   reservedAt |-> wall, epoch |-> p, outcome |-> "Pending",
                   accounted |-> 0, refunded |-> 0, callbacks |-> {}]
<1>1. ops' = [x \in Operating \cup {o} |-> IF x # o THEN ops[x] ELSE new]
  BY Zenon DEF RecordReservation
<1>2. /\ DOMAIN ops' = Operating \cup {o} /\ \A x \in Operating : ops'[x] = ops[x]
      /\ ops'[o] = new
  BY <1>1, Zenon
<1>3. new \in Operation
  BY CapabilityAssumption DEF Operation
<1>4. OperationsTyped'
  BY <1>2, <1>3, Zenon DEF OperationsTyped, Operating
<1> QED BY <1>2, <1>4 DEF Operating

(* A control command adds, settles, refunds or annotates operations, but   *)
(* reserves and settles none that carries a pair (Reserve, SettleOperation *)
(* and RecoverTimeout refuse them).                                        *)
LEMMA ControlKeepsPairs ==
  ASSUME OperationsTyped, ControlStep
  PROVE  OperationsTyped' /\ PairsUntouched
<1>0. clock \in Sample /\ samples \subseteq Sample /\ \A o \in Operating : ops[o] \in Operation
  BY Zenon DEF OperationsTyped
<1>1. CASE \E o \in Ops, a \in Actors, t \in Parents, d \in Deadlines, s \in samples :
             Deny(o, a, t, d, s)
  BY <1>0, <1>1, NoOperation, Zenon DEF Deny, processVars
<1>2. CASE \E o \in Ops, a \in Actors, t \in Parents, d \in Deadlines, s \in samples :
             \E p \in Processes, delivered \in BOOLEAN : Reserve(o, a, t, d, p, s, delivered)
  <2>1. PICK o \in Ops, a \in Actors, t \in Parents, d \in Deadlines, s \in samples, p \in Processes,
             delivered \in BOOLEAN : Reserve(o, a, t, d, p, s, delivered)
    BY <1>2, Zenon
  <2>2. /\ o \notin Operating /\ o \notin Paired /\ UNCHANGED <<clock, samples>>
        /\ RecordReservation(o, a, t, d, p, s.wall)
    BY <2>1, Zenon DEF Reserve
  <2>3. d \in Nat /\ s.wall \in Nat
    BY <1>0, ControlAssumption, Zenon DEF Sample
  <2>4. /\ Operating' = Operating \cup {o} /\ \A x \in Operating : ops'[x] = ops[x]
        /\ OperationsTyped'
    BY <2>2, <2>3, ReservedRecord, Zenon
  <2> QED BY <2>2, <2>4, Zenon DEF PairsUntouched
<1>3. CASE \E o \in Ops, p \in Processes, s \in samples : RebindOperationLease(o, p, s)
  BY <1>0, <1>3, NoOperation, Zenon DEF RebindOperationLease, controlVars
<1>4. ASSUME NEW o, o \notin Paired, NEW outcome \in Outcomes, NEW meter \in Meters, NEW wall,
             NEW callbacks \in SUBSET Callbacks, NEW authority, Pending(o),
             Settlement(o, outcome, meter, wall, callbacks, authority), UNCHANGED processVars
      PROVE  OperationsTyped' /\ PairsUntouched
  <2>1. UNCHANGED <<clock, samples>> /\ o \in Operating
    BY <1>4, Zenon DEF processVars, Pending
  <2>2. CASE UNCHANGED ops
    BY <2>1, <2>2, <1>0, NoOperation, Zenon
  <2>3. CASE RecordSettlement(o, outcome, meter, callbacks)
    <3>1. Accounted(meter) \in 0..Envelope
      BY CapabilityAssumption, ControlAssumption DEF Accounted
    <3>2. /\ DOMAIN ops' = DOMAIN ops
          /\ \A x \in Operating \ {o} : ops'[x] = ops[x]
          /\ ops'[o] = WithSettlement(ops[o], outcome, Accounted(meter), callbacks)
      BY <2>1, <2>3, Zenon DEF RecordSettlement, Operating, WithSettlement
    <3>3. ops'[o] \in Operation
      <4>1. ops[o] \in Operation
        BY <1>0, <2>1, Zenon
      <4>2. SettledFrom(WithSettlement(ops[o], outcome, Accounted(meter), callbacks),
                        ops[o], outcome, Accounted(meter))
        BY <4>1, <3>1, SettledRecord, Zenon
      <4> QED BY <3>2, <4>2, Zenon DEF SettledFrom
    <3> QED BY <2>1, <3>2, <3>3, OneOperation, <1>4, Zenon
  <2> QED BY <1>4, <2>2, <2>3, Zenon DEF Settlement
<1>5. CASE \E l \in leases, k \in Callbacks, s \in samples :
             \E outcome \in Outcomes, meter \in Meters : SettleOperation(l, k, outcome, meter, s)
  <2>1. PICK l \in leases, k \in Callbacks, s \in samples, outcome \in Outcomes, meter \in Meters :
          SettleOperation(l, k, outcome, meter, s)
    BY <1>5, Zenon
  <2>2. SettledOutcome(outcome, meter) \in Outcomes /\ {k} \in SUBSET Callbacks
    BY Zenon DEF SettledOutcome, Outcomes
  <2>3. /\ l.op \notin Paired /\ Pending(l.op) /\ UNCHANGED processVars
        /\ Settlement(l.op, SettledOutcome(outcome, meter), meter, s.wall, {k},
                      CallbackAuthorityFolds(l, s) /\ s.mono < DeadlineMono(l))
    BY <2>1, Zenon DEF SettleOperation
  <2> QED BY <2>2, <2>3, <1>4, Zenon
<1>6. CASE \E l \in leases, k \in Callbacks, s \in samples :
             \/ SettleLate(l, k, s)
             \/ \E at \in CallerStamps \cup {s.wall} : ObserveLateResult(l, k, s, at)
  <2>1. PICK l \in leases, k \in Callbacks, s \in samples :
          \E at : ObserveLateResult(l, k, s, at)
    BY <1>6, Zenon DEF SettleLate
  <2>2. PICK at : ObserveLateResult(l, k, s, at)
    BY <2>1, Zenon
  <2>3. l.op \in Operating /\ UNCHANGED <<clock, samples>>
    BY <2>2, Zenon DEF ObserveLateResult, Settled, processVars
  <2>4. CASE UNCHANGED ops
    BY <2>3, <2>4, <1>0, NoOperation, Zenon
  <2>5. CASE ops' = [ops EXCEPT ![l.op].callbacks = @ \cup {k}]
    <3>1. /\ DOMAIN ops' = DOMAIN ops /\ \A x \in Operating \ {l.op} : ops'[x] = ops[x]
          /\ ops'[l.op] = [ops[l.op] EXCEPT !.callbacks = @ \cup {k}]
      BY <2>3, <2>5, Zenon DEF Operating
    <3>2. ops[l.op] \in Operation
      BY <1>0, <2>3, Zenon
    <3>3. /\ ops'[l.op] \in Operation /\ ops'[l.op].outcome = ops[l.op].outcome
          /\ ops'[l.op].accounted = ops[l.op].accounted
          /\ ops'[l.op].task = ops[l.op].task /\ ops'[l.op].deadline = ops[l.op].deadline
      BY <3>1, <3>2, SMTT(20) DEF Operation
    <3> QED BY <2>3, <3>1, <3>3, OneOperation, Zenon
  <2> QED BY <2>2, <2>4, <2>5, Zenon DEF ObserveLateResult, RecordLateCallback
<1>7. CASE \E a \in Actors, target \in CancelTargets : RequestCancellation(a, target)
  BY <1>0, <1>7, NoOperation, Zenon DEF RequestCancellation, processVars
<1>8. CASE \E l \in leases, target \in cancellations, s \in samples :
             AcknowledgeCancellation(l, target, s)
  BY <1>0, <1>8, NoOperation, Zenon DEF AcknowledgeCancellation, processVars
<1>9. CASE \E o \in Ops, amount \in Refunds : RefundBudget(o, amount)
  <2>1. PICK o \in Ops, amount \in Refunds : RefundBudget(o, amount)
    BY <1>9, Zenon
  <2>2. /\ o \in Operating /\ ops[o] \in Operation /\ UNCHANGED <<clock, samples>>
        /\ ops[o].refunded + amount <= ops[o].accounted
        /\ ops' = [ops EXCEPT ![o].refunded = @ + amount]
    BY <1>0, <2>1, Zenon DEF RefundBudget, Settled, processVars, RecordRefund
  <2>3. /\ DOMAIN ops' = DOMAIN ops /\ \A x \in Operating \ {o} : ops'[x] = ops[x]
        /\ ops'[o] = [ops[o] EXCEPT !.refunded = @ + amount]
    BY <2>2, Zenon DEF Operating
  <2>4. /\ ops'[o] \in Operation /\ ops'[o].outcome = ops[o].outcome
        /\ ops'[o].accounted = ops[o].accounted
        /\ ops'[o].task = ops[o].task /\ ops'[o].deadline = ops[o].deadline
    BY <2>2, <2>3, CapabilityAssumption, ControlAssumption, SMTT(20) DEF Operation
  <2> QED BY <2>2, <2>3, <2>4, OneOperation, Zenon
<1>10. CASE \E o \in Ops : TimeoutStep(o)
  <2>1. PICK o \in Ops, meter \in Meters, s \in samples : RecoverTimeout(o, meter, s)
    BY <1>10, Zenon DEF TimeoutStep
  <2>2. /\ o \notin Paired /\ Pending(o) /\ UNCHANGED processVars
        /\ Settlement(o, "TimedOut", meter, s.wall, {}, TRUE)
    BY <2>1, Zenon DEF RecoverTimeout
  <2>3. "TimedOut" \in Outcomes /\ {} \in SUBSET Callbacks
    BY Zenon DEF Outcomes
  <2> QED BY <2>2, <2>3, <1>4, Zenon
<1>11. CASE Tick \/ \E wall \in Times : Correct(wall)
  <2>1. Times \subseteq Nat
    BY CapabilityAssumption DEF Times
  <2>2. UNCHANGED ops
    BY <1>11, Zenon DEF Tick, Correct, controlVars
  <2>3. clock' \in Sample
    <3>1. CASE Tick
      BY <3>1, <1>0 DEF Tick, Sample
    <3>2. CASE \E wall \in Times : Correct(wall)
      BY <3>2, <2>1, <1>0, Zenon DEF Correct, Sample
    <3> QED BY <3>1, <3>2, <1>11, Zenon
  <2>4. samples' = samples \cup {clock'}
    BY <1>11, Zenon DEF Tick, Correct
  <2> QED BY <2>2, <2>3, <2>4, <1>0, NoOperation, Zenon
<1>12. CASE \E p \in Processes : LoseLeases(p)
  BY <1>0, <1>12, NoOperation, Zenon DEF LoseLeases, controlVars
<1> QED BY <1>1, <1>2, <1>3, <1>5, <1>6, <1>7, <1>8, <1>9, <1>10, <1>11, <1>12, Zenon DEF ControlStep
=============================================================================
