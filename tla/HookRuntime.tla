----------------------------- MODULE HookRuntime -----------------------------
(***************************************************************************)
(* execute_hook_point: hooks at the points of a run, each invocation a     *)
(* protected operation that is reserved before and settled after its       *)
(* handler runs, by atomic pairs of the hook and the control stream; skips,*)
(* audit facts and the finalization go to the hook stream alone.           *)
(*                                                                         *)
(* A call executes a point step by step, each append in a transaction of   *)
(* its own and at the cursor of its previous one.  It may end at any step, *)
(* which leaves the streams as they are.  An append whose event is already *)
(* there, byte for byte, succeeds without effect (an echo).                *)
(***************************************************************************)
EXTENDS PairedControl, HookRules

CONSTANTS
  Calls,        \* calls of execute_hook_point and of the recovery
  EpochOf,      \* EpochOf[c]: the process epoch in which call c runs
  Invocations,  \* Invocations[pt][i]: the operation of the i-th hook at pt
  PointTask,    \* PointTask[pt]: the task of the command, or NoTask
  PointDeadline,\* PointDeadline[pt]: the absolute deadline of the command
  NoPoint       \* no point is open

(* OpenPointFold, with the invocation that is active, or NoTask.           *)
OpenPoint ==
  [pt: Points, next: Nat \ {0}, active: Paired \cup {NoTask}, input: Nat, allows: Nat,
   outcome: Verdicts, bareOutcome: Verdicts]

ASSUME HookAssumption ==
  /\ EpochOf \in [Calls -> Processes]
  /\ \A pt \in Points :
       /\ \A i \in Ordinals(pt) : Invocations[pt][i] \in Paired
       /\ PointTask[pt] \in Parents /\ PointDeadline[pt] \in Nat
  /\ \A pt, qt \in Points : \A i \in Ordinals(pt), j \in Ordinals(qt) :
       Invocations[pt][i] = Invocations[qt][j] => pt = qt /\ i = j
  /\ Callbacks # {} /\ Envelope >= 1
  /\ NoTask \notin Paired
  /\ NoPoint \notin OpenPoint

VARIABLES
  hookOpen,     \* the hook stream has its first event
  open,         \* OpenPointFold of the point that is open, or NoPoint
  invocations,  \* HookAggregate.invocations, a partial function on operations
  finalized,    \* finalized_points, a partial function: what was decided
  facts,        \* skips, late results and rejections on record
  bareFolds,    \* the stream also folds when no registry is given
  invoked,      \* how often the handler of an operation was invoked
  run,          \* run[c]: what call c is doing
  echoes        \* the calls whose next event another call has appended

hookStream == <<hookOpen, open, invocations, finalized, facts, bareFolds>>

hookVars == <<hookStream, invoked, run, echoes>>

allVars == <<vars, hookVars, moved>>

Invocation(pt, i) == Invocations[pt][i]

Recorded == DOMAIN invocations

PointOf(o) == CHOOSE pt \in Points : \E i \in Ordinals(pt) : Invocation(pt, i) = o

OrdinalOf(o) == CHOOSE i \in Ordinals(PointOf(o)) : Invocation(PointOf(o), i) = o

-----------------------------------------------------------------------------
(***************************************************************************)
(* The control flow of a call: what it does next at hook i with its view.  *)
(* Without a required gate the first gate already ends the point.          *)
(***************************************************************************)
Idle == [at |-> "idle"]

NoSample == [wall |-> 0, mono |-> 0]

Doing(at, pt, i, view) ==
  [at |-> at, pt |-> pt, i |-> i, view |-> view, answer |-> "none", ended |-> "none",
   lease |-> NoSample, sample |-> NoSample, recovery |-> FALSE]

(* Variant: the hooks after a stop are run like any other.                 *)
RunsOn(pt, i, view) ==
  IF i \notin Ordinals(pt) THEN Doing("finalize", pt, i, Conclude(pt, view))
                           ELSE Doing("reserve", pt, i, view)

NextHook(pt, i, view) ==
  LET seen == IF i \in Ordinals(pt) /\ ~view.stop /\ Ordered[pt][i].kind = "Gate"
                   /\ RequiredGates(pt) = {}
                THEN Denies(view, "GateDenied", "RequiredGateEmpty") ELSE view
  IN  IF i \notin Ordinals(pt) THEN Doing("finalize", pt, i, Conclude(pt, view))
      ELSE Doing(IF seen.stop THEN "skip" ELSE "reserve", pt, i, seen)

AfterAppend(r) ==
  IF r.at = "start" THEN NextHook(r.pt, 1, r.view)
  ELSE IF r.at = "append-reserve" THEN [r EXCEPT !.at = "invoke"]
  ELSE IF r.at = "finalize" \/ r.recovery THEN Idle
  ELSE IF r.at = "append-terminal" /\ r.answer = "Invalid" THEN [r EXCEPT !.at = "rejected"]
  ELSE IF r.at = "append-terminal" /\ r.ended \in {"Cancelled", "TimedOut"} /\ r.answer # "Error"
    THEN [r EXCEPT !.at = "late"]
  ELSE NextHook(r.pt, r.i + 1, r.view)

Moves(c, at, next) == run[c].at = at /\ run' = [run EXCEPT ![c] = next]

(***************************************************************************)
(* An append of call c: the calls that are about to append the same bytes  *)
(* (same samples and cursors, for a pair the same epoch) will find their   *)
(* event on record.                                                        *)
(***************************************************************************)
SameBytes(c, d, streams) ==
  /\ d # c /\ run[d] = run[c]
  /\ "control" \in streams => EpochOf[d] = EpochOf[c]
  /\ moved[c] \cap streams = {} /\ moved[d] \cap streams = {}

Appends(c, at, streams) ==
  /\ Moves(c, at, AfterAppend(run[c]))
  /\ c \notin echoes
  /\ AtCursor(c, "hook")
  /\ echoes' = echoes \cup {d \in Calls : SameBytes(c, d, streams)}

(* append_hook_fact folds the stream without the registry first.           *)
AppendsFact(c, at) == Appends(c, at, {"hook"}) /\ bareFolds

AppendsPair(c, at) == Appends(c, at, {"hook", "control", "lifecycle"})

Appended ==
  (IF controlStream' = controlStream THEN {} ELSE {"control"}) \cup
  (IF hookStream' = hookStream THEN {} ELSE {"hook"}) \cup
  (IF lifecycleVars' = lifecycleVars THEN {} ELSE {"lifecycle"})

(* After each step: a call that appends (or whose bytes are appended) goes *)
(* on from the new cursor, one that plans reads the other streams afresh.  *)
TrackCursors ==
  moved' = [c \in Calls |->
    IF run'[c] = Idle \/ c \in echoes' \ echoes THEN {}
    ELSE IF run'[c] # run[c] THEN IF hookStream' = hookStream THEN moved[c] \cap {"hook"} ELSE {}
    ELSE moved[c] \cup Appended]

HookInit ==
  /\ moved = [c \in Calls |-> {}]
  /\ hookOpen = FALSE
  /\ open = NoPoint
  /\ invocations = [o \in {} |-> 0]
  /\ finalized = [pt \in {} |-> 0]
  /\ facts = {}
  /\ bareFolds = TRUE
  /\ invoked = [o \in Paired |-> 0]
  /\ run = [c \in Calls |-> Idle]
  /\ echoes = {}

-----------------------------------------------------------------------------
(***************************************************************************)
(* initialize_hook_stream: the first event, once the run exists.           *)
(***************************************************************************)
InitializeHookStream ==
  /\ runState # Absent
  /\ ~hookOpen
  /\ hookOpen' = TRUE
  /\ UNCHANGED <<vars, open, invocations, finalized, facts, bareFolds, invoked, run, echoes>>

(***************************************************************************)
(* The start of execute_hook_point.  A finalized point is only reported; a *)
(* point that was started before is taken up as long as its start is the   *)
(* last event.                                                             *)
(***************************************************************************)
Untouched(pt) == open.pt = pt /\ open.next = 1 /\ open.active = NoTask

Begin(c, pt) ==
  /\ hookOpen
  /\ pt \notin DOMAIN finalized
  /\ IF open # NoPoint /\ open.pt = pt
       THEN Untouched(pt) /\ Moves(c, "idle", NextHook(pt, 1, InitialView(pt)))
       ELSE Moves(c, "idle", Doing("start", pt, 0, InitialView(pt)))
  /\ UNCHANGED <<vars, hookStream, invoked, echoes>>

AppendPointStarted(c) ==
  LET pt == run[c].pt
  IN  /\ AppendsFact(c, "start")
      /\ open = NoPoint
      /\ pt \notin DOMAIN finalized
      /\ Ordinals(pt) # {}
      /\ open' = [pt |-> pt, next |-> 1, active |-> NoTask, input |-> 0, allows |-> 0,
                  outcome |-> NoOutcome, bareOutcome |-> NoOutcome]
      /\ UNCHANGED <<vars, hookOpen, invocations, finalized, facts, bareFolds, invoked>>

(***************************************************************************)
(* Before the handler runs: plan_hook_reservation, then the pair           *)
(* append_hook_reserve_pair_with_registry.                                 *)
(***************************************************************************)
PlanReserve(c, s) ==
  LET r == run[c]
  IN  /\ Moves(c, "reserve", [r EXCEPT !.at = "append-reserve", !.lease = s])
      /\ PlanReservation(Invocation(r.pt, r.i), PointTask[r.pt], PointDeadline[r.pt], s)
      /\ UNCHANGED <<vars, hookStream, invoked, echoes>>

FoldReserved(r, o) ==
  /\ open # NoPoint
  /\ open.pt = r.pt /\ open.active = NoTask /\ open.next = r.i /\ open.input = r.view.input
  /\ o \notin Recorded
  /\ open' = [open EXCEPT !.active = o]
  /\ invocations' = [x \in Recorded \cup {o} |-> IF x # o THEN invocations[x] ELSE
       [ended |-> "Reserved", answer |-> "none", input |-> r.view.input]]

AppendReservePair(c) ==
  LET r == run[c]
      o == Invocation(r.pt, r.i)
  IN  /\ AppendsPair(c, "append-reserve")
      /\ PrepareReservation(c, o, PointTask[r.pt], PointDeadline[r.pt], r.lease.wall)
      /\ FoldReserved(r, o)
      /\ RecordReservation(o, Owner, PointTask[r.pt], PointDeadline[r.pt], EpochOf[c], r.lease.wall)
      /\ UNCHANGED <<lifecycleVars, capabilityVars, processVars, denied, cancellations, acks,
                     corrupt, hookOpen, finalized, facts, bareFolds, invoked>>

InvokeHandler(c, answer) ==
  LET r == run[c]
      hook == Ordered[r.pt][r.i]
  IN  /\ Moves(c, "invoke", [r EXCEPT !.at = "settle", !.answer = answer,
                                      !.view = ApplyAnswer(hook, r.i, answer, r.view)])
      /\ answer \in Answers(hook.kind)
      /\ invoked' = [invoked EXCEPT ![Invocation(r.pt, r.i)] = @ + 1]
      /\ UNCHANGED <<vars, hookStream, echoes>>

(***************************************************************************)
(* After the handler has run: plan_hook_settlement, and if it reports a    *)
(* cancellation or the deadline, a settlement for that; then the pair      *)
(* append_hook_terminal_pair_with_registry.                                *)
(***************************************************************************)
PlanTerminal(c, s) ==
  LET r == run[c]
      o == Invocation(r.pt, r.i)
      l == LeaseOf(o, EpochOf[c], r.lease)
      cancelled == CancellationApplies(PointTask[r.pt], o)
      ended == IF ~BeforeDeadline(l, s) THEN "TimedOut"
               ELSE IF cancelled THEN "Cancelled"
               ELSE IF r.answer \in Failing THEN "Failed"
               ELSE "Succeeded"
      view == IF ended \in {"Cancelled", "TimedOut"}
                THEN ApplyStop(Ordered[r.pt][r.i], ended, r.view) ELSE r.view
  IN  /\ r.at = "settle"
      /\ Loaded /\ Pending(o)
      /\ VerifyLease(l, s)
      /\ IF ended = "TimedOut" THEN PlanTimeoutSettlement(o, s)
                               ELSE PlanSettlement(l, ended, s) /\ CallbackAuthorityFolds(l, s)
      /\ Moves(c, "settle", [r EXCEPT !.at = "append-terminal", !.ended = ended,
                                      !.view = view, !.sample = s])
      /\ UNCHANGED <<vars, hookStream, invoked, echoes>>

FoldTerminal(r, o) ==
  LET hook == Ordered[r.pt][r.i]
      answer == IF r.ended = "Succeeded" THEN r.answer ELSE "none"
      fixed(h) == FixedOutcome(h, HookPoint[r.pt], r.ended, answer)
  IN  /\ open # NoPoint
      /\ open.active = o
      /\ invocations' = [invocations EXCEPT ![o].ended = r.ended, ![o].answer = answer]
      /\ open' = [open EXCEPT
           !.active = NoTask, !.next = @ + 1,
           !.input = IF answer = "Transformed" THEN r.i ELSE @,
           !.allows = @ + (IF hook.required /\ answer = "Allow" THEN 1 ELSE 0),
           !.outcome = IF fixed(hook) = NoOutcome THEN @ ELSE fixed(hook),
           !.bareOutcome = IF fixed(Unregistered(hook)) = NoOutcome THEN @
                                                        ELSE fixed(Unregistered(hook))]

(* Variant: the hook event is appended without its control event.          *)
AppendTerminalAlone(c) ==
  LET r == run[c]
      o == Invocation(r.pt, r.i)
  IN  /\ AppendsPair(c, "append-terminal")
      /\ PrepareSettlement(c, o, r.ended, r.sample.wall)
      /\ FoldTerminal(r, o)
      /\ UNCHANGED <<vars, hookOpen, finalized, facts, bareFolds, invoked>>

AppendTerminalPair(c) ==
  LET r == run[c]
      o == Invocation(r.pt, r.i)
      live == r.ended # "TimedOut"
  IN  /\ AppendsPair(c, "append-terminal")
      /\ r.recovery => bareFolds
      /\ PrepareSettlement(c, o, r.ended, r.sample.wall)
      /\ FoldTerminal(r, o)
      /\ RecordSettlement(o, r.ended, IF live THEN 1 ELSE NoMeter,
                          IF live THEN {CHOOSE k \in Callbacks : TRUE} ELSE {})
      /\ UNCHANGED <<lifecycleVars, capabilityVars, processVars, denied, cancellations, acks,
                     corrupt, hookOpen, finalized, facts, bareFolds, invoked>>

(***************************************************************************)
(* What else a call appends: a skip for each hook after a stop, a late     *)
(* result (the handler's, after a cancellation or the deadline), a         *)
(* rejection of an invalid output, and the finalization of the point.      *)
(***************************************************************************)
AppendSkipped(c) ==
  LET r == run[c]
  IN  /\ AppendsFact(c, "skip")
      /\ open # NoPoint
      /\ open.pt = r.pt /\ open.active = NoTask /\ open.next = r.i /\ open.input = r.view.input
      /\ open.outcome # NoOutcome
      /\ open' = [open EXCEPT !.next = @ + 1]
      /\ facts' = facts \cup {<<"skip", Invocation(r.pt, r.i)>>}
      /\ bareFolds' = (open.bareOutcome # NoOutcome)
      /\ UNCHANGED <<vars, hookOpen, invocations, finalized, invoked>>

AppendLateResult(c) ==
  /\ AppendsFact(c, "late")
  /\ facts' = facts \cup {<<"late", Invocation(run[c].pt, run[c].i)>>}
  /\ UNCHANGED <<vars, hookOpen, open, invocations, finalized, bareFolds, invoked>>

AppendMessageRejected(c) ==
  LET o == Invocation(run[c].pt, run[c].i)
  IN  /\ AppendsFact(c, "rejected")
      /\ invocations[o].input = run[c].view.input
      /\ facts' = facts \cup {<<"rejected", o>>}
      /\ UNCHANGED <<vars, hookOpen, open, invocations, finalized, bareFolds, invoked>>

AppendPointFinalized(c) ==
  LET r == run[c]
      outcome == <<r.view.decision, r.view.status, r.view.reason>>
      expected(fixed, total) == ExpectedOutcome(HookPoint[r.pt], fixed, total, open.allows)
  IN  /\ AppendsFact(c, "finalize")
      /\ open # NoPoint
      /\ open.pt = r.pt /\ open.active = NoTask /\ open.next = r.i /\ open.input = r.view.input
      /\ outcome = expected(open.outcome, Cardinality(RequiredGates(r.pt)))
      /\ finalized' = [pt \in DOMAIN finalized \cup {r.pt} |->
           IF pt = r.pt THEN outcome ELSE finalized[pt]]
      /\ open' = NoPoint
      /\ bareFolds' = (outcome = expected(open.bareOutcome, 0))
      /\ UNCHANGED <<vars, hookOpen, invocations, facts, invoked>>

(***************************************************************************)
(* A call whose event is on record goes on as if it had appended it.       *)
(***************************************************************************)
Echo(c) ==
  /\ c \in echoes
  /\ echoes' = echoes \ {c}
  /\ run' = [run EXCEPT ![c] = AfterAppend(run[c])]
  /\ UNCHANGED <<vars, hookStream, invoked>>

(***************************************************************************)
(* A call ends: with an error, or with its process.                        *)
(***************************************************************************)
EndCall(c) ==
  /\ run[c] # Idle
  /\ run' = [run EXCEPT ![c] = Idle]
  /\ echoes' = echoes \ {c}
  /\ UNCHANGED <<vars, hookStream, invoked>>

(***************************************************************************)
(* plan_hook_timeout_settlement and append_hook_terminal_pair: whoever     *)
(* finds an invocation pending at its deadline can settle it.              *)
(***************************************************************************)
(* Variant: what is cancelled is left to the call that reserved it.        *)
RecoverUncancelled(c, o, s) ==
  /\ o \in Recorded
  /\ PlanTimeoutSettlement(o, s)
  /\ ~CancellationApplies(ops[o].task, o)
  /\ Moves(c, "idle", [Doing("append-terminal", PointOf(o), OrdinalOf(o), InitialView(PointOf(o)))
                         EXCEPT !.ended = "TimedOut", !.sample = s, !.recovery = TRUE])
  /\ UNCHANGED <<vars, hookStream, invoked, echoes>>

PlanRecovery(c, o, s) ==
  /\ o \in Recorded
  /\ PlanTimeoutSettlement(o, s)
  /\ Moves(c, "idle", [Doing("append-terminal", PointOf(o), OrdinalOf(o), InitialView(PointOf(o)))
                         EXCEPT !.ended = "TimedOut", !.sample = s, !.recovery = TRUE])
  /\ UNCHANGED <<vars, hookStream, invoked, echoes>>

HookStep(c) ==
  \/ \E pt \in Points : Begin(c, pt)
  \/ AppendPointStarted(c)
  \/ \E s \in samples : PlanReserve(c, s) \/ PlanTerminal(c, s)
  \/ AppendReservePair(c)
  \/ \E answer \in UNION {Answers(r.kind) : r \in Registry} : InvokeHandler(c, answer)
  \/ AppendTerminalPair(c)
  \/ AppendSkipped(c)
  \/ AppendLateResult(c)
  \/ AppendMessageRejected(c)
  \/ AppendPointFinalized(c)
  \/ Echo(c)
  \/ EndCall(c)
  \/ \E o \in Paired, s \in samples : PlanRecovery(c, o, s)

HookRuntimeInit == Init /\ HookInit

HookNext ==
  \/ (\E c \in Calls : HookStep(c)) /\ TrackCursors
  \/ InitializeHookStream /\ TrackCursors
  \/ Next /\ UNCHANGED hookVars /\ TrackCursors

HookSpec == HookRuntimeInit /\ [][HookNext]_allVars

(***************************************************************************)
(* Time passes, every call ends, and the owner keeps settling invocations  *)
(* that are pending at their deadline (an explicit command; there is no    *)
(* background worker).  Strong fairness: a plan can get stale or be        *)
(* dropped, but not for ever.                                              *)
(***************************************************************************)
Recovering(c, o) == run[c] # Idle /\ run[c].recovery /\ Invocation(run[c].pt, run[c].i) = o

HookFairness ==
  /\ WF_allVars(Tick /\ UNCHANGED <<lifecycleVars, capabilityVars, hookVars>> /\ TrackCursors)
  /\ \A c \in Calls : WF_allVars(EndCall(c) /\ TrackCursors)
  /\ \A o \in Paired :
       /\ SF_allVars((\E c \in Calls, s \in samples : PlanRecovery(c, o, s)) /\ TrackCursors)
       /\ SF_allVars((\E c \in Calls : Recovering(c, o) /\ AppendTerminalPair(c)) /\ TrackCursors)

HookFairSpec == HookSpec /\ HookFairness

-----------------------------------------------------------------------------
(* The hook and the control stream tell one story, although every pair is  *)
(* planned in one transaction and appended in another, by calls that may   *)
(* race, crash or be recovered: an invocation is on record exactly when    *)
(* its operation is, pending exactly as long, ends with the same outcome,  *)
(* and no handler runs that has no reservation.                            *)
HookPairsAgree ==
  /\ Recorded = Operating \cap Paired
  /\ \A o \in Recorded :
       /\ ops[o].outcome = IF invocations[o].ended = "Reserved" THEN "Pending"
                                                                ELSE invocations[o].ended
       /\ ops[o].outcome = "TimedOut" => ops[o].accounted = Envelope
  /\ \A o \in Paired : invoked[o] > 0 => o \in Recorded
  /\ \A o \in Recorded : invocations[o].ended = "Reserved" <=> open # NoPoint /\ open.active = o

Of(pt) == {i \in Ordinals(pt) : Invocation(pt, i) \in Recorded}

Ended(pt, i) == invocations[Invocation(pt, i)].ended

Said(pt, i) == invocations[Invocation(pt, i)].answer

(* An admission is earned: a point with a required gate is finalized with  *)
(* Allow exactly when every required gate ran and said Allow, and no gate  *)
(* (optional ones too) denied, failed, was cancelled or ran out of time,   *)
(* nor did a transformation; what observers say never decides.             *)
AllowIsEarned ==
  \A pt \in DOMAIN finalized :
    GateBearing(HookPoint[pt]) /\ RequiredGates(pt) # {} =>
      (finalized[pt][1] = "Allow" <=>
         /\ \A i \in RequiredGates(pt) : i \in Of(pt) /\ Said(pt, i) = "Allow"
         /\ \A i \in Of(pt) : Ordered[pt][i].kind # "Observer" =>
              Ended(pt, i) = "Succeeded" /\ Said(pt, i) # "Deny")

(* What the executor finalizes, one hook at a time over several            *)
(* transactions, is what evaluate_point computes from the same answers at  *)
(* once: the decision and the status, for a point with a required gate     *)
(* that was neither cancelled nor timed out.                               *)
MatchesEvaluation ==
  \A pt \in DOMAIN finalized :
    RequiredGates(pt) # {} /\ (\A i \in Of(pt) : Ended(pt, i) \in {"Succeeded", "Failed"}) =>
      LET answer(i) == IF Ended(pt, i) = "Succeeded" THEN Said(pt, i) ELSE "Error"
          answers == [i \in Ordinals(pt) |-> IF i \in Of(pt) THEN answer(i) ELSE "none"]
          reference == EvaluatePoint(pt, answers)
      IN  finalized[pt][1] = reference.decision /\ finalized[pt][2] = reference.status

Stopped(pt, i) ==
  /\ Ended(pt, i) # "Reserved"
  /\ FixedOutcome(Ordered[pt][i], HookPoint[pt], Ended(pt, i), Said(pt, i)) # NoOutcome

(* A stop is a stop: once a hook at a point has failed, denied or failed   *)
(* closed, no later hook of the point is reserved or run, by this call or  *)
(* by any other.                                                           *)
NothingRunsAfterStop ==
  \A pt \in Points : \A i \in Of(pt) : Stopped(pt, i) =>
    \A j \in Ordinals(pt) : j > i => j \notin Of(pt) /\ invoked[Invocation(pt, j)] = 0

(* Every reserved invocation ends, although the call that reserved it may  *)
(* die before or after its handler runs.                                   *)
EveryInvocationEnds ==
  \A o \in Paired : (o \in Recorded) ~> (o \in Recorded /\ invocations[o].ended # "Reserved")

-----------------------------------------------------------------------------
(* Strengthening for the proofs: the shape of the folded stream and of the *)
(* calls, ...                                                              *)
InvocationRecord ==
  [ended: Outcomes \cup {"Reserved"}, answer: Replies \cup {"none"}, input: Nat]

Appending == {"start", "append-reserve", "append-terminal", "skip", "late", "rejected", "finalize"}

Doings ==
  [at: Appending \cup {"reserve", "invoke", "settle"},
   pt: Points, i: Nat, view: Views, answer: Replies \cup {"none"}, ended: Outcomes \cup {"none"},
   lease: Sample, sample: Sample, recovery: BOOLEAN]

HookTypeOK ==
  /\ open \in OpenPoint \cup {NoPoint}
  /\ \A o \in Recorded : invocations[o] \in InvocationRecord
  /\ invoked \in [Paired -> Nat]

(* ... what the fold knows of the point that is open: which invocations    *)
(* are on record, and that it has an outcome as soon as one has fixed it,  *)
(* ...                                                                     *)
PointInv ==
  /\ \A o \in Recorded : \E pt \in Points : \E i \in Ordinals(pt) : Invocation(pt, i) = o
  /\ \A pt \in Points : Of(pt) # {} => pt \in DOMAIN finalized \/ (open # NoPoint /\ open.pt = pt)
  /\ open # NoPoint =>
       /\ open.pt \notin DOMAIN finalized
       /\ open.next = 1 => open.outcome = NoOutcome
       /\ open.active # NoTask =>
            /\ open.next \in Ordinals(open.pt) /\ open.active = Invocation(open.pt, open.next)
            /\ open.outcome = NoOutcome
       /\ \A i \in Of(open.pt) :
            /\ i < open.next \/ (i = open.next /\ open.active = Invocation(open.pt, i))
            /\ Stopped(open.pt, i) => open.outcome # NoOutcome

(* ... what a call knows of its hook (a call that will find its event on   *)
(* record is already where the append leads): it runs a handler, and       *)
(* settles it, for an invocation on record, and its view has a stop where  *)
(* the fold of the terminal event will fix an outcome, ...                 *)
Position(c) == IF c \in echoes THEN AfterAppend(run[c]) ELSE run[c]

FixesOutcome(r, ended) ==
  FixedOutcome(Ordered[r.pt][r.i], HookPoint[r.pt], ended,
               IF ended = "Succeeded" THEN r.answer ELSE "none") # NoOutcome

CallInv(r, recorded) ==
  /\ r \in Doings
  /\ r.at \notin {"start", "finalize"} => r.i \in Ordinals(r.pt)
  /\ r.at \in {"invoke", "settle", "append-terminal"} => Invocation(r.pt, r.i) \in recorded
  /\ r.at = "settle" =>
       (FixesOutcome(r, IF r.answer \in Failing THEN "Failed" ELSE "Succeeded") => r.view.stop)
  /\ r.at = "append-terminal" =>
       r.ended # "none" /\ (~r.recovery /\ FixesOutcome(r, r.ended) => r.view.stop)
  /\ r.at \in {"reserve", "append-reserve"} => ~r.view.stop
  /\ r.at = "skip" => r.view.stop

(* ... and what a call that is at the cursor knows of the open point: as   *)
(* long as its view has no stop, the fold has no outcome.                  *)
FollowsStream(r, point) ==
  r.at \in {"reserve", "append-reserve", "late", "rejected"} =>
    (~r.view.stop /\ point # NoPoint /\ point.pt = r.pt => point.outcome = NoOutcome)

CallsInv ==
  /\ DOMAIN run = Calls /\ DOMAIN moved = Calls /\ echoes \subseteq Calls
  /\ \A c \in echoes : run[c].at \in Appending
  /\ \A c \in Calls : Position(c) = Idle \/ CallInv(Position(c), Recorded)
  /\ \A c \in Calls : AtCursor(c, "hook") => FollowsStream(Position(c), open)

(* The inductive invariant of the hook runtime: the streams, the open      *)
(* point and the calls in the memory of processes fit together, so that no *)
(* call, not even one that finds its event on record, reserves behind a    *)
(* stop or settles what is not reserved.                                   *)
StreamInv ==
  /\ OperationsTyped
  /\ HookTypeOK
  /\ HookPairsAgree
  /\ PointInv
  /\ NothingRunsAfterStop

HookInv == StreamInv /\ CallsInv
=============================================================================
