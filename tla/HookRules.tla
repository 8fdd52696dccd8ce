------------------------------ MODULE HookRules ------------------------------
(***************************************************************************)
(* Which hooks run at a point, in which order, and how their answers are   *)
(* combined: by evaluate_point over all answers at once, by the executor   *)
(* one answer at a time, and by the fold of the recorded events.           *)
(***************************************************************************)
EXTENDS Naturals, FiniteSets

CONSTANTS
  Points,     \* identifiers of executed points
  HookPoint,  \* HookPoint[pt]: the place in the run where pt is executed
  Registry    \* the pinned registry: a set of registrations

ValidRegistry ==
  \A r \in Registry :
    /\ r.kind \in {"Transform", "Gate", "Observer"}
    /\ r.id \in Nat /\ r.priority \in Nat
    /\ r.required => r.kind = "Gate"
    /\ r.failClosed => r.kind = "Observer"

ASSUME RegistryAssumption == IsFiniteSet(Registry) /\ ValidRegistry

GateBearing(point) == point \in {"BeforeProposalAdmission", "BeforeAuthoritativeCommit"}

Neutral(point) == IF GateBearing(point) THEN "Allow" ELSE "ObserveOnly"

(***************************************************************************)
(* phase_for and ordered_for_point.  A kind that has no phase at a point   *)
(* (NoPhase) does not run there.                                           *)
(***************************************************************************)
NoPhase == 0

PhaseFor(point, kind) ==
  CASE kind = "Transform" /\ point = "BeforeProposalAdmission" -> 1
    [] kind = "Gate" /\ GateBearing(point)                     -> 2
    [] kind = "Observer"                                       -> 3
    [] OTHER                                                   -> NoPhase

RunsBefore(point, q, r) ==
  LET phase(x) == PhaseFor(point, x.kind)
  IN  \/ phase(q) < phase(r)
      \/ phase(q) = phase(r) /\ q.priority < r.priority
      \/ phase(q) = phase(r) /\ q.priority = r.priority /\ q.id < r.id

OrderedForPoint(point) ==
  LET chosen == {r \in Registry : point \in r.points /\ PhaseFor(point, r.kind) # NoPhase}
  IN  [i \in 1..Cardinality(chosen) |->
         CHOOSE r \in chosen : Cardinality({q \in chosen : RunsBefore(point, q, r)}) = i - 1]

Ordered == [pt \in Points |-> OrderedForPoint(HookPoint[pt])]

Ordinals(pt) == DOMAIN Ordered[pt]

RequiredGates(pt) == {i \in Ordinals(pt) : Ordered[pt][i].required}

(***************************************************************************)
(* What a handler answers.  "Invalid" stands for an output that is out of  *)
(* bounds or of the wrong kind, "Error" for a handler that fails and for a *)
(* transformation that touches a protected field.                          *)
(***************************************************************************)
Failing == {"Invalid", "Error"}

Answers(kind) ==
  Failing \cup CASE kind = "Transform" -> {"Transformed"}
                 [] kind = "Gate"      -> {"Allow", "Deny", "Abstain"}
                 [] kind = "Observer"  -> {"Observed", "Failure"}

(* Variant: only a required gate can deny.                                 *)
RequiredGateDenies(r, answer) == r.required /\ answer \in {"Deny", "Abstain"}

GateDenies(r, answer) == answer = "Deny" \/ (answer = "Abstain" /\ r.required)

DenialReason(answer) == IF answer = "Deny" THEN "GateDenied" ELSE "RequiredGateAbstained"

ObserverFails(r, answer) == r.failClosed /\ answer = "Failure"

Replies == Failing \cup {"Transformed", "Allow", "Deny", "Abstain", "Observed", "Failure"}

-----------------------------------------------------------------------------
(***************************************************************************)
(* evaluate_point: the reference, over a function from ordinals to answers *)
(* (no answer is missing).                                                 *)
(***************************************************************************)
(* Variant: an observer never fails a point.                               *)
EvaluateGatesOnly(r, answer, e) ==
  IF r.kind = "Transform" /\ answer \in Failing THEN
    [e EXCEPT !.decision = "Deny", !.status = "TransformFailed", !.done = TRUE]
  ELSE IF r.kind = "Gate" /\ (answer \in Failing \/ GateDenies(r, answer)) THEN
    [e EXCEPT !.required = @ + (IF r.required THEN 1 ELSE 0), !.denied = TRUE, !.done = TRUE]
  ELSE IF r.kind = "Gate" /\ r.required THEN [e EXCEPT !.required = @ + 1, !.allows = @ + 1]
  ELSE e

EvaluateOne(r, answer, e) ==
  IF r.kind = "Transform" /\ answer \in Failing THEN
    [e EXCEPT !.decision = "Deny", !.status = "TransformFailed", !.done = TRUE]
  ELSE IF r.kind = "Gate" /\ (answer \in Failing \/ GateDenies(r, answer)) THEN
    [e EXCEPT !.required = @ + (IF r.required THEN 1 ELSE 0), !.denied = TRUE, !.done = TRUE]
  ELSE IF r.kind = "Gate" /\ r.required THEN [e EXCEPT !.required = @ + 1, !.allows = @ + 1]
  ELSE IF r.failClosed /\ (answer \in Failing \/ ObserverFails(r, answer)) THEN
    [e EXCEPT !.status = "ObserverFailed", !.done = TRUE]
  ELSE e

EvaluatePoint(pt, answers) ==
  LET point == HookPoint[pt]
      start == [decision |-> Neutral(point), status |-> "Completed", denied |-> FALSE,
                required |-> 0, allows |-> 0, done |-> FALSE]
      after[i \in Ordinals(pt) \cup {0}] ==
        IF i = 0 THEN start
        ELSE IF after[i - 1].done THEN after[i - 1]
        ELSE EvaluateOne(Ordered[pt][i], answers[i], after[i - 1])
      e == after[Cardinality(Ordinals(pt))]
      deny == /\ GateBearing(point) /\ e.status # "TransformFailed"
              /\ (e.required = 0 \/ e.allows # e.required \/ e.denied)
  IN  [decision |-> IF deny THEN "Deny" ELSE e.decision,
       status |-> IF deny /\ e.status = "Completed" THEN "GateDenied" ELSE e.status]

-----------------------------------------------------------------------------
(***************************************************************************)
(* execute_hook_point keeps a running view of the point: the input of the  *)
(* next hook is that of the command (0) or the output of a Transform.      *)
(***************************************************************************)
Decisions == {"Allow", "Deny", "ObserveOnly"}

Statuses == {"Completed", "TransformFailed", "GateDenied", "ObserverFailed"}

Reasons ==
  {"Completed", "Succeeded", "Failed", "Cancelled", "TimedOut", "GateDenied",
   "RequiredGateAbstained", "RequiredGateEmpty", "RequiredGateMissing", "ObserverFailedClosed"}

Views ==
  [decision: Decisions, status: Statuses, reason: Reasons, stop: BOOLEAN, allows: Nat, input: Nat]

InitialView(pt) ==
  [decision |-> Neutral(HookPoint[pt]), status |-> "Completed", reason |-> "Completed",
   stop |-> FALSE, allows |-> 0, input |-> 0]

Denies(view, status, reason) ==
  [view EXCEPT !.decision = "Deny", !.status = status, !.reason = reason, !.stop = TRUE]

(* An invocation that does not succeed, by the kind of its hook.           *)
Unsuccessful(r, view, reason, observerReason) ==
  IF r.kind = "Transform" THEN [Denies(view, "TransformFailed", reason) EXCEPT !.input = 0]
  ELSE IF r.kind = "Gate" THEN Denies(view, "GateDenied", reason)
  ELSE IF r.failClosed THEN
    [view EXCEPT !.status = "ObserverFailed", !.reason = observerReason, !.stop = TRUE]
  ELSE view

ApplyAnswer(r, i, answer, view) ==
  IF answer \in Failing THEN Unsuccessful(r, view, "Failed", "ObserverFailedClosed")
  ELSE IF answer = "Transformed" THEN [view EXCEPT !.input = i]
  ELSE IF answer = "Allow" /\ r.required THEN [view EXCEPT !.allows = @ + 1]
  ELSE IF GateDenies(r, answer) THEN Denies(view, "GateDenied", DenialReason(answer))
  ELSE IF ObserverFails(r, answer) THEN
    [view EXCEPT !.status = "ObserverFailed", !.reason = "ObserverFailedClosed", !.stop = TRUE]
  ELSE view

(* Cancelled or timed out: the reason of the point, whatever the hook is.  *)
ApplyStop(r, ended, view) == [Unsuccessful(r, view, ended, ended) EXCEPT !.reason = ended]

Conclude(pt, view) ==
  IF GateBearing(HookPoint[pt]) /\ view.status = "Completed"
       /\ view.allows # Cardinality(RequiredGates(pt))
    THEN Denies(view, "GateDenied", "RequiredGateMissing") ELSE view

-----------------------------------------------------------------------------
(***************************************************************************)
(* fold_hook_events: the outcome that a terminal event fixes (NoOutcome if *)
(* none) and the one it expects of a finalization.  A fold that is given   *)
(* no registry sees no required gate and no fail-closed observer.          *)
(***************************************************************************)
NoOutcome == <<>>

Verdicts == {NoOutcome} \cup (Decisions \X Statuses \X Reasons)

Unregistered(r) == [r EXCEPT !.required = FALSE, !.failClosed = FALSE]

TerminalReason(ended, answer) == IF ended = "Succeeded" THEN DenialReason(answer) ELSE ended

FixedOutcome(r, point, ended, answer) ==
  IF r.kind = "Transform" /\ ended # "Succeeded" THEN
    <<"Deny", "TransformFailed", TerminalReason(ended, answer)>>
  ELSE IF r.kind = "Gate" /\ (ended # "Succeeded" \/ GateDenies(r, answer)) THEN
    <<"Deny", "GateDenied", TerminalReason(ended, answer)>>
  ELSE IF r.failClosed /\ (ended # "Succeeded" \/ ObserverFails(r, answer)) THEN
    <<Neutral(point), "ObserverFailed", "ObserverFailedClosed">>
  ELSE NoOutcome

ExpectedOutcome(point, outcome, total, allows) ==
  IF outcome # NoOutcome THEN outcome
  ELSE IF GateBearing(point) /\ total = 0 THEN <<"Deny", "GateDenied", "RequiredGateEmpty">>
  ELSE IF GateBearing(point) /\ allows # total THEN <<"Deny", "GateDenied", "RequiredGateMissing">>
  ELSE <<Neutral(point), "Completed", "Completed">>
=============================================================================
