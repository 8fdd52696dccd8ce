--------------------------- MODULE RuntimeControl ---------------------------
(***************************************************************************)
(* Protected operations under runtime control: reserve, settle, cancel,    *)
(* late results, refunds, lease rebinding and timeout recovery, composed   *)
(* with the lifecycle (whose pause and terminal transitions wait for       *)
(* pending operations) and the capabilities.                               *)
(*                                                                         *)
(* Each command is one SQLite transaction that folds the streams, decides  *)
(* and appends at most one event, so it is one step.  Its clock sample was *)
(* taken before: a command carries any sample of the past.  append_control *)
(* does not fold the event it appends; the fold has rules of its own, and  *)
(* an event that breaks them leaves a stream nobody can load (corrupt).    *)
(* An operation with a hook or an effect pair (Paired) is reserved and     *)
(* settled by the pair commands only, which are in other modules.          *)
(***************************************************************************)
EXTENDS Capability, Integers, FiniteSetsExt

CONSTANTS
  Ops,           \* operation identifiers
  Paired,        \* the operations that carry a hook or an effect pair
  Processes,     \* process epochs
  Callbacks,     \* callback identifiers of a producer
  Invoke,        \* the operation name of the retained contract
  HardLimit,     \* the budget plan: hard limit of each account
  OperationLimit,\* the budget plan: hard limit of a single operation
  Deadlines,     \* the absolute deadlines that proposals carry
  CancelTargets, \* what cancellations are requested for
  Refunds,       \* the amounts that refunds are requested for
  Meters,        \* what meters report: tokens used, Violation or NoMeter
  Violation,     \* a snapshot with contract_violation
  NoMeter,       \* no snapshot
  CallerStamps,  \* occurred_at of late-result commands other than the sample
  MaxSkew        \* how far wall-clock corrections take it from elapsed time

(***************************************************************************)
(* A budget account is named by its scope: the run, a task or an actor.    *)
(***************************************************************************)
RunScope == "run"

Accounts == DOMAIN HardLimit

ASSUME ControlAssumption ==
  /\ Accounts \subseteq {RunScope} \cup Tasks \cup Actors
  /\ HardLimit \in [Accounts -> Nat]
  /\ Paired \subseteq Ops
  /\ OperationLimit \in Nat
  /\ Deadlines \subseteq Nat
  /\ CancelTargets \subseteq {RunScope} \cup Tasks \cup Ops
  /\ Refunds \subseteq 1..Envelope
  /\ Meters \subseteq 0..Envelope \cup {Violation, NoMeter}
  /\ Violation \notin Nat /\ NoMeter \notin Nat
  /\ Invoke \in Operations
  /\ MaxSkew \in Nat

Outcomes == {"Succeeded", "Failed", "Cancelled", "TimedOut"}

VARIABLES
  clock,          \* the current ClockSample: wall and monotonic milliseconds
  samples,        \* every sample the clock has shown
  leases,         \* the operation leases that live processes hold
  ops,            \* RuntimeControlState.operations, a partial function
  denied,         \* RuntimeControlState.denials
  totals,         \* AccountTotals of each account
  cancellations,  \* the targets of the cancellation requests
  acks,           \* cancellation_acks: target and operation
  corrupt         \* an appended event does not fold

controlVars == <<ops, denied, totals, cancellations, acks, corrupt>>

processVars == <<clock, samples, leases>>

vars == <<lifecycleVars, capabilityVars, processVars, controlVars>>

Targets == {RunScope} \cup Tasks \cup Ops

Sample == [wall: Nat, mono: Nat]

Operation ==
  [subject: Actors, task: Parents, deadline: Nat, reservedAt: Nat, epoch: Processes,
   outcome: Outcomes \cup {"Pending"}, accounted: 0..Envelope, refunded: 0..Envelope,
   callbacks: SUBSET Callbacks]

Lease == [op: Ops, process: Processes, wall: Nat, mono: Nat]

Operating == DOMAIN ops

Pending(o) == o \in Operating /\ ops[o].outcome = "Pending"

Settled(o) == o \in Operating /\ ops[o].outcome # "Pending"

-----------------------------------------------------------------------------
(***************************************************************************)
(* reserve_allocations: an operation is charged to the run, to its subject *)
(* and to its task; each account has to exist and to have room.            *)
(***************************************************************************)
Charged(task, actor) == {RunScope, actor} \cup ({task} \ {NoTask})

Committed(a) == totals[a].gross - totals[a].refunded

(* Variant: what is reserved is not counted.                               *)
FitsUnreserved(task, actor) ==
  /\ Envelope <= OperationLimit
  /\ \A a \in Charged(task, actor) :
       a \in Accounts /\ Committed(a) + Envelope <= HardLimit[a]

AllocationsFit(task, actor) ==
  /\ Envelope <= OperationLimit
  /\ \A a \in Charged(task, actor) :
       a \in Accounts /\ Committed(a) + totals[a].reserved + Envelope <= HardLimit[a]

(***************************************************************************)
(* cancellation_applies and cancel_target_matches                          *)
(***************************************************************************)
CancelTargetMatches(target, task, o) ==
  target \in {RunScope, o} \cup ({task} \ {NoTask})

CancellationApplies(task, o) ==
  \E target \in cancellations : CancelTargetMatches(target, task, o)

(***************************************************************************)
(* settlement_payload and recover_timeout: what a settlement records.      *)
(***************************************************************************)
Accounted(meter) == IF meter \in {Violation, NoMeter} THEN Envelope ELSE meter

SettledOutcome(outcome, meter) == IF meter = Violation THEN "Failed" ELSE outcome

(***************************************************************************)
(* make_lease and verify_lease.  The monotonic deadline of a lease is as   *)
(* far from its monotonic time as the absolute deadline from its wall time.*)
(***************************************************************************)
LeaseOf(o, p, s) == [op |-> o, process |-> p, wall |-> s.wall, mono |-> s.mono]

DeadlineMono(l) == l.mono + (ops[l.op].deadline - l.wall)

VerifyLease(l, s) == s.wall >= l.wall /\ s.mono >= l.mono

(***************************************************************************)
(* apply_control_event: what the fold asks of a settlement and of the      *)
(* lease that callbacks and acknowledgements persist as their authority    *)
(* (validate_callback_authority).                                          *)
(***************************************************************************)
CallbackAuthorityFolds(l, s) ==
  /\ ops[l.op].reservedAt <= l.wall /\ l.wall < ops[l.op].deadline
  /\ l.wall <= s.wall /\ l.mono <= s.mono

SettlementFolds(o, outcome, wall) ==
  LET cancelled == CancellationApplies(ops[o].task, o)
  IN  /\ Pending(o)
      /\ CASE outcome = "TimedOut"  -> wall >= ops[o].deadline
           [] outcome = "Cancelled" -> cancelled /\ wall < ops[o].deadline
           [] OTHER                 -> ~cancelled /\ wall < ops[o].deadline
      /\ \A a \in Charged(ops[o].task, ops[o].subject) : Envelope <= totals[a].reserved

(* Variant: what was accounted is released instead of what was reserved.   *)
ReleaseAccounted(o, outcome, meter, callbacks) ==
  /\ ops' = [ops EXCEPT ![o].outcome = outcome, ![o].accounted = Accounted(meter),
                        ![o].callbacks = @ \cup callbacks]
  /\ totals' = [a \in Accounts |->
       IF a \in Charged(ops[o].task, ops[o].subject)
         THEN [totals[a] EXCEPT !.reserved = @ - Accounted(meter), !.gross = @ + Accounted(meter)]
         ELSE totals[a]]

RecordSettlement(o, outcome, meter, callbacks) ==
  /\ ops' = [ops EXCEPT ![o].outcome = outcome, ![o].accounted = Accounted(meter),
                        ![o].callbacks = @ \cup callbacks]
  /\ totals' = [a \in Accounts |->
       IF a \in Charged(ops[o].task, ops[o].subject)
         THEN [totals[a] EXCEPT !.reserved = @ - Envelope, !.gross = @ + Accounted(meter)]
         ELSE totals[a]]

Settlement(o, outcome, meter, wall, callbacks, authority) ==
  IF authority /\ SettlementFolds(o, outcome, wall)
    THEN RecordSettlement(o, outcome, meter, callbacks) /\ UNCHANGED corrupt
    ELSE corrupt' = TRUE /\ UNCHANGED <<ops, totals>>

(***************************************************************************)
(* apply_control_event: what the other events change.                      *)
(***************************************************************************)
RecordReservation(o, actor, task, deadline, p, wall) ==
  /\ ops' = [x \in Operating \cup {o} |->
       IF x # o THEN ops[x] ELSE
         [subject |-> actor, task |-> task, deadline |-> deadline,
          reservedAt |-> wall, epoch |-> p, outcome |-> "Pending",
          accounted |-> 0, refunded |-> 0, callbacks |-> {}]]
  /\ totals' = [a \in Accounts |->
       IF a \in Charged(task, actor) THEN [totals[a] EXCEPT !.reserved = @ + Envelope]
                                     ELSE totals[a]]

RecordDenial(o) == denied' = denied \cup {o}

RecordLateCallback(l, k, s, occurredAt) ==
  IF occurredAt = s.wall /\ CallbackAuthorityFolds(l, s)
    THEN ops' = [ops EXCEPT ![l.op].callbacks = @ \cup {k}] /\ UNCHANGED corrupt
    ELSE corrupt' = TRUE /\ UNCHANGED ops

RecordCancellation(target) == cancellations' = cancellations \cup {target}

RecordAck(l, target, s) ==
  IF CallbackAuthorityFolds(l, s)
    THEN acks' = acks \cup {<<target, l.op>>} /\ UNCHANGED corrupt
    ELSE corrupt' = TRUE /\ UNCHANGED acks

RecordRefund(o, amount) ==
  /\ ops' = [ops EXCEPT ![o].refunded = @ + amount]
  /\ totals' = [a \in Accounts |->
       IF a \in Charged(ops[o].task, ops[o].subject)
         THEN [totals[a] EXCEPT !.refunded = @ + amount] ELSE totals[a]]

-----------------------------------------------------------------------------
ControlInit ==
  /\ clock = [wall |-> 0, mono |-> 0]
  /\ samples = {clock}
  /\ leases = {}
  /\ ops = [o \in {} |-> 0]
  /\ denied = {}
  /\ totals = [a \in Accounts |-> [reserved |-> 0, gross |-> 0, refunded |-> 0]]
  /\ cancellations = {}
  /\ acks = {}
  /\ corrupt = FALSE

(***************************************************************************)
(* reserve_protected_operation.  A denial is recorded for good; the lease  *)
(* is made after the commit and does not reach a process that dies.        *)
(***************************************************************************)
EnsureReserveLifecycle(task) ==
  /\ runState = "Running"
  /\ task # NoTask => taskState[task] = "Running"

Loaded == initialized /\ ~corrupt

Deny(o, actor, task, deadline, s) ==
  /\ Loaded
  /\ o \notin Operating \cup denied \cup Paired
  /\ \/ ~Authorized(actor, task, Invoke, s.wall)
     \/ /\ EnsureReserveLifecycle(task)
        /\ ~CancellationApplies(task, o)
        /\ s.wall < deadline
        /\ ~AllocationsFit(task, actor)
  /\ RecordDenial(o)
  /\ UNCHANGED <<ops, totals, cancellations, acks, corrupt, processVars>>

Reserve(o, actor, task, deadline, p, s, delivered) ==
  /\ Loaded
  /\ o \notin Operating \cup denied \cup Paired
  /\ Authorized(actor, task, Invoke, s.wall)
  /\ EnsureReserveLifecycle(task)
  /\ ~CancellationApplies(task, o)
  /\ s.wall < deadline
  /\ AllocationsFit(task, actor)
  /\ RecordReservation(o, actor, task, deadline, p, s.wall)
  /\ leases' = leases \cup (IF delivered THEN {LeaseOf(o, p, s)} ELSE {})
  /\ UNCHANGED <<denied, cancellations, acks, corrupt, clock, samples>>

(***************************************************************************)
(* rebind_operation_lease: another process epoch takes over; it keeps its  *)
(* newest lease.                                                           *)
(***************************************************************************)
RebindOperationLease(o, p, s) ==
  /\ Loaded
  /\ Pending(o)
  /\ p # ops[o].epoch
  /\ ops[o].reservedAt <= s.wall /\ s.wall < ops[o].deadline
  /\ leases' = {l \in leases : l.op # o \/ l.process # p} \cup {LeaseOf(o, p, s)}
  /\ UNCHANGED <<controlVars, clock, samples>>

(***************************************************************************)
(* settle_operation: an exact retry of a known callback changes nothing; a *)
(* callback for a settled operation becomes a late result.                 *)
(***************************************************************************)
BeforeDeadline(l, s) == s.mono < DeadlineMono(l) /\ s.wall < ops[l.op].deadline

SettleOperation(l, k, outcome, meter, s) ==
  /\ Loaded
  /\ l.op \notin Paired
  /\ VerifyLease(l, s)
  /\ Pending(l.op)
  /\ k \notin ops[l.op].callbacks
  /\ BeforeDeadline(l, s)
  /\ CancellationApplies(ops[l.op].task, l.op) <=> outcome = "Cancelled"
  /\ outcome # "TimedOut"
  /\ Settlement(l.op, SettledOutcome(outcome, meter), meter, s.wall, {k},
                CallbackAuthorityFolds(l, s) /\ s.mono < DeadlineMono(l))
  /\ UNCHANGED <<denied, cancellations, acks, processVars>>

(***************************************************************************)
(* A late result comes through settle_operation or observe_late_result.    *)
(* The latter appends it under the occurred_at of the caller while its     *)
(* payload carries the clock sample; the fold asks for both to be the same.*)
(***************************************************************************)
ObserveLateResult(l, k, s, occurredAt) ==
  /\ Loaded
  /\ VerifyLease(l, s)
  /\ Settled(l.op)
  /\ k \notin ops[l.op].callbacks
  /\ RecordLateCallback(l, k, s, occurredAt)
  /\ UNCHANGED <<denied, totals, cancellations, acks, processVars>>

SettleLate(l, k, s) == l.op \notin Paired /\ ObserveLateResult(l, k, s, s.wall)

(***************************************************************************)
(* request_cancellation and acknowledge_cancellation.  A cancellation      *)
(* identifier is identified with its target.                               *)
(***************************************************************************)
CancelAuthority(principal, target) ==
  IF target \in Ops THEN target \in Operating /\ principal \in {Owner, ops[target].subject}
                    ELSE principal = Owner

(* Variant: an operation that has ended can still be cancelled.            *)
CancelAnytime(principal, target) ==
  /\ Loaded
  /\ CancelAuthority(principal, target)
  /\ target \notin cancellations
  /\ ManagementState
  /\ target \in Tasks => taskState[target] \notin TerminalStates \cup {Absent}
  /\ RecordCancellation(target)
  /\ UNCHANGED <<ops, denied, totals, acks, corrupt, processVars>>

RequestCancellation(principal, target) ==
  /\ Loaded
  /\ CancelAuthority(principal, target)
  /\ target \notin cancellations
  /\ ManagementState
  /\ target \in Tasks => taskState[target] \notin TerminalStates \cup {Absent}
  /\ target \in Ops => Pending(target)
  /\ RecordCancellation(target)
  /\ UNCHANGED <<ops, denied, totals, acks, corrupt, processVars>>

AcknowledgeCancellation(l, target, s) ==
  /\ Loaded
  /\ target \in cancellations
  /\ Pending(l.op)
  /\ VerifyLease(l, s)
  /\ CancelTargetMatches(target, ops[l.op].task, l.op)
  /\ <<target, l.op>> \notin acks
  /\ RecordAck(l, target, s)
  /\ UNCHANGED <<ops, denied, totals, cancellations, processVars>>

(***************************************************************************)
(* refund_budget, by the owner, in any state of the run                    *)
(***************************************************************************)
(* Variant: a refund lowers the accounted usage.                           *)
RefundAccounted(o, amount) ==
  /\ Loaded
  /\ Settled(o)
  /\ amount <= ops[o].accounted
  /\ ops' = [ops EXCEPT ![o].accounted = @ - amount]
  /\ totals' = [a \in Accounts |->
       IF a \in Charged(ops[o].task, ops[o].subject)
         THEN [totals[a] EXCEPT !.gross = @ - amount] ELSE totals[a]]
  /\ UNCHANGED <<denied, cancellations, acks, corrupt, processVars>>

RefundBudget(o, amount) ==
  /\ Loaded
  /\ Settled(o)
  /\ ops[o].refunded + amount <= ops[o].accounted
  /\ \A a \in Charged(ops[o].task, ops[o].subject) : amount <= Committed(a)
  /\ RecordRefund(o, amount)
  /\ UNCHANGED <<denied, cancellations, acks, corrupt, processVars>>

(***************************************************************************)
(* prepare_timeout_recovery and recover_timeout: the owner settles what is *)
(* pending at its deadline, with the sample and the evidence frozen in the *)
(* prepared command; a command that is not due or comes after another      *)
(* settlement changes nothing.                                             *)
(***************************************************************************)
(* Variant: only the holder of a lease can recover its timeout.            *)
RecoverByHolder(o, meter, s) ==
  /\ Loaded
  /\ Pending(o)
  /\ \E l \in leases : l.op = o
  /\ s.wall >= ops[o].deadline
  /\ Settlement(o, "TimedOut", meter, s.wall, {}, TRUE)
  /\ UNCHANGED <<denied, cancellations, acks, processVars>>

(* Variant: the deadline is compared when the command is prepared only.    *)
RecoverAnytime(o, meter, s) ==
  /\ Loaded
  /\ o \notin Paired
  /\ Pending(o)
  /\ s.wall >= ops[o].reservedAt
  /\ Settlement(o, "TimedOut", meter, s.wall, {}, TRUE)
  /\ UNCHANGED <<denied, cancellations, acks, processVars>>

RecoverTimeout(o, meter, s) ==
  /\ Loaded
  /\ o \notin Paired
  /\ Pending(o)
  /\ s.wall >= ops[o].reservedAt
  /\ s.wall >= ops[o].deadline
  /\ Settlement(o, "TimedOut", meter, s.wall, {}, TRUE)
  /\ UNCHANGED <<denied, cancellations, acks, processVars>>

-----------------------------------------------------------------------------
(***************************************************************************)
(* transition_run and transition_task with ensure_no_pending_for_run and   *)
(* ensure_no_pending_for_task, which have to load the control stream.      *)
(***************************************************************************)
Stops(to) == to \in {"Paused"} \cup TerminalStates

EnsureNoPendingForRun(to) ==
  Stops(to) => ~corrupt /\ \A o \in Operating : Settled(o)

(* Variant: pausing a task does not wait for its operations.               *)
EnsureNoPendingAtEnd(t, to) ==
  to \in TerminalStates => ~corrupt /\ \A o \in Operating : ops[o].task = t => Settled(o)

EnsureNoPendingForTask(t, to) ==
  Stops(to) => ~corrupt /\ \A o \in Operating : ops[o].task = t => Settled(o)

ControlledLifecycle ==
  \/ CreateRun
  \/ \E t \in Tasks, p \in Parents : CreateTask(t, p)
  \/ \E to \in RunStates : EnsureNoPendingForRun(to) /\ TransitionRun(to)
  \/ \E t \in Tasks, to \in TaskStates : EnsureNoPendingForTask(t, to) /\ TransitionTask(t, to)

(***************************************************************************)
(* The environment: time passes, the wall clock is corrected, a process    *)
(* dies or loses its leases.                                               *)
(***************************************************************************)
Tick ==
  /\ clock.wall < MaxTime
  /\ clock' = [wall |-> clock.wall + 1, mono |-> clock.mono + 1]
  /\ samples' = samples \cup {clock'}
  /\ UNCHANGED <<leases, controlVars>>

Correct(wall) ==
  /\ wall \in Times \ {clock.wall}
  /\ clock.mono - wall \in -MaxSkew..MaxSkew
  /\ clock' = [clock EXCEPT !.wall = wall]
  /\ samples' = samples \cup {clock'}
  /\ UNCHANGED <<leases, controlVars>>

LoseLeases(p) ==
  /\ \E l \in leases : l.process = p
  /\ leases' = {l \in leases : l.process # p}
  /\ UNCHANGED <<clock, samples, controlVars>>

TimeoutStep(o) == \E meter \in Meters, s \in samples : RecoverTimeout(o, meter, s)

ControlStep ==
  \/ \E o \in Ops, a \in Actors, t \in Parents, d \in Deadlines, s \in samples :
       \/ Deny(o, a, t, d, s)
       \/ \E p \in Processes, delivered \in BOOLEAN : Reserve(o, a, t, d, p, s, delivered)
  \/ \E o \in Ops, p \in Processes, s \in samples : RebindOperationLease(o, p, s)
  \/ \E l \in leases, k \in Callbacks, s \in samples :
       \/ \E outcome \in Outcomes, meter \in Meters : SettleOperation(l, k, outcome, meter, s)
       \/ SettleLate(l, k, s)
       \/ \E at \in CallerStamps \cup {s.wall} : ObserveLateResult(l, k, s, at)
  \/ \E a \in Actors, target \in CancelTargets : RequestCancellation(a, target)
  \/ \E l \in leases, target \in cancellations, s \in samples : AcknowledgeCancellation(l, target, s)
  \/ \E o \in Ops, amount \in Refunds : RefundBudget(o, amount)
  \/ \E o \in Ops : TimeoutStep(o)
  \/ Tick
  \/ \E wall \in Times : Correct(wall)
  \/ \E p \in Processes : LoseLeases(p)

Init == LifecycleInit /\ CapabilityInit /\ ControlInit

Next ==
  \/ ControlStep /\ UNCHANGED <<lifecycleVars, capabilityVars>>
  \/ CapabilityStep /\ ~corrupt /\ UNCHANGED <<lifecycleVars, processVars, controlVars>>
  \/ ControlledLifecycle /\ UNCHANGED <<capabilityVars, processVars, controlVars>>

Spec == Init /\ [][Next]_vars

(***************************************************************************)
(* Time passes, and the owner keeps recovering timeouts (the projection    *)
(* lists the pending operations; nothing in the kernel does it by itself). *)
(***************************************************************************)
Fairness == WF_vars(Tick /\ UNCHANGED <<lifecycleVars, capabilityVars>>)
            /\ \A o \in Ops : WF_vars(TimeoutStep(o) /\ UNCHANGED <<lifecycleVars, capabilityVars>>)

FairSpec == Spec /\ Fairness

-----------------------------------------------------------------------------
(* Type invariant of the folded control state and of the leases.           *)
ControlTypeOK ==
  /\ clock \in Sample
  /\ samples \subseteq Sample
  /\ leases \subseteq Lease
  /\ \A l \in leases : l.op \in Operating
  /\ Operating \subseteq Ops
  /\ \A o \in Operating : ops[o] \in Operation
  /\ denied \subseteq Ops
  /\ totals \in [Accounts -> [reserved: Nat, gross: Nat, refunded: Nat]]
  /\ cancellations \subseteq Targets
  /\ acks \subseteq Targets \X Ops
  /\ corrupt \in BOOLEAN

(* A pending operation holds its run and its task in Running: whichever of *)
(* reserve and pause, finish, fail or cancel commits first, no operation   *)
(* is admitted or left open behind a lifecycle that has stopped.           *)
PendingHoldsRun ==
  \A o \in Operating : Pending(o) =>
    /\ runState = "Running"
    /\ ops[o].task # NoTask => taskState[ops[o].task] = "Running"

(* No account is oversold: what is consumed net of refunds and what is     *)
(* reserved stay within the hard limit, over all interleavings of          *)
(* reservations, settlements, timeouts and refunds that share accounts.    *)
BudgetNeverOversold ==
  \A a \in Accounts : Committed(a) + totals[a].reserved <= HardLimit[a]

ChargedTo(a) == {o \in Operating : a \in Charged(ops[o].task, ops[o].subject)}

SumOver(f, S) == MapThenSumSet(LAMBDA o : f[o], S)

(* The books balance: the totals kept per account are exactly the pending  *)
(* envelopes, accounted usage and refunds of the operations charged to it, *)
(* so nothing is released twice, leaked or charged to another account.     *)
BooksBalance ==
  \A a \in Accounts :
    /\ totals[a].reserved =
         SumOver([o \in Operating |-> IF Pending(o) THEN Envelope ELSE 0], ChargedTo(a))
    /\ totals[a].gross = SumOver([o \in Operating |-> ops[o].accounted], ChargedTo(a))
    /\ totals[a].refunded = SumOver([o \in Operating |-> ops[o].refunded], ChargedTo(a))
    /\ totals[a].refunded <= totals[a].gross

(* Cancelling an operation is decisive: an operation with a cancellation   *)
(* of its own never ends Succeeded or Failed; the request is refused once  *)
(* it has ended, and completions are refused once it is requested.         *)
OperationCancellationIsDecisive ==
  \A o \in Operating :
    o \in cancellations /\ Settled(o) => ops[o].outcome \in {"Cancelled", "TimedOut"}

(* The decision about an operation is final: its outcome, its accounted    *)
(* usage and a denial never change again; late callbacks, retries, refunds *)
(* and recovery only add to its audit trail.                               *)
DecisionIsFinal ==
  [][/\ \A o \in Operating :
          /\ o \in DOMAIN ops' /\ o \notin denied'
          /\ Settled(o) => /\ ops'[o].outcome = ops[o].outcome
                           /\ ops'[o].accounted = ops[o].accounted
                           /\ ops'[o].refunded >= ops[o].refunded
     /\ denied \subseteq denied' /\ denied \cap DOMAIN ops' = {}]_vars

(* Every reserved operation is settled in the end, whatever happens to its *)
(* lease (lost with the response, with the process, or out of time), as    *)
(* long as the control stream can be read and it has no pair.              *)
EveryReservationEnds == \A o \in Ops \ Paired : Pending(o) ~> (Settled(o) \/ corrupt)

(* What makes the control stream unreadable is a callback about an         *)
(* operation that was cancelled or has ended: reservations, completions in *)
(* time, timeout recovery, refunds and cancellations only append events    *)
(* that apply_control_event accepts, whatever happened before.             *)
UnreadableOnlyByCallbacks ==
  [][~corrupt /\ corrupt' => \E l \in leases :
       Settled(l.op) \/ CancellationApplies(ops[l.op].task, l.op)]_vars

-----------------------------------------------------------------------------
(* What the components that pair their events with operations have to know *)
(* of the types.                                                           *)
OperationsTyped ==
  /\ clock \in Sample /\ samples \subseteq Sample
  /\ \A o \in Operating : ops[o] \in Operation
=============================================================================
