----------------------------- MODULE HookProofs -----------------------------
(***************************************************************************)
(* Proofs about HookRuntime for every number of calls, points, hooks,      *)
(* operations and tasks: the hook and the control stream agree, and        *)
(* nothing runs behind a stop.  HookInv is the inductive invariant.        *)
(*                                                                         *)
(* The first part is about the rules of one hook: whatever makes the fold  *)
(* of a terminal event fix the outcome of the point (fold_hook_events) has *)
(* put a stop into the view of the call that appends it                    *)
(* (execute_hook_point).  The second part is about the calls: a call that  *)
(* finds its event on record (an echo) is where the append has led.  Then  *)
(* comes one lemma for each action that appends.                           *)
(***************************************************************************)
EXTENDS HookRuntime, PairProofs

(* The hooks at a point are numbered from one.                             *)
LEMMA OrdinalsAreNumbers ==
  \A pt \in Points : Ordinals(pt) \subseteq Nat \ {0}
<1> SUFFICES ASSUME NEW pt \in Points PROVE Ordinals(pt) \subseteq Nat \ {0}
  BY Zenon
<1> DEFINE chosen == {r \in Registry : HookPoint[pt] \in r.points
                                       /\ PhaseFor(HookPoint[pt], r.kind) # NoPhase}
<1>1. Ordinals(pt) = 1..Cardinality(chosen)
  BY Zenon DEF Ordinals, Ordered, OrderedForPoint
<1> HIDE DEF chosen
<1> QED BY <1>1

(* What a stopped observer leaves in the view.                             *)
LEMMA ObserverStops ==
  ASSUME NEW v \in Views, NEW s \in Statuses, NEW q \in Reasons, NEW w,
         w = [v EXCEPT !.status = s, !.reason = q, !.stop = TRUE]
  PROVE  w \in Views /\ w.stop = TRUE
<1>1. w = [decision |-> v.decision, status |-> s, reason |-> q, stop |-> TRUE,
           allows |-> v.allows, input |-> v.input]
  BY Zenon DEF Views
<1>2. v.allows \in Nat /\ v.input \in Nat /\ v.decision \in Decisions
  BY Zenon DEF Views
<1> QED BY <1>1, <1>2, Zenon DEF Views

(* A denial stops the point.                                               *)
LEMMA DeniesStops ==
  ASSUME NEW v \in Views, NEW s \in Statuses, NEW q \in Reasons
  PROVE  Denies(v, s, q) \in Views /\ Denies(v, s, q).stop = TRUE
<1>1. PICK u \in Views : u = [v EXCEPT !.decision = "Deny"]
  BY Zenon DEF Views, Decisions
<1>2. Denies(v, s, q) = [u EXCEPT !.status = s, !.reason = q, !.stop = TRUE]
  BY <1>1, Zenon DEF Denies
<1> QED BY <1>2, ObserverStops, Zenon

(* A change of input, reason or allows does not stop the point.            *)
LEMMA ViewUpdates ==
  ASSUME NEW v \in Views
  PROVE  /\ \A i \in Nat : [v EXCEPT !.input = i] \in Views /\ [v EXCEPT !.input = i].stop = v.stop
         /\ \A q \in Reasons : [v EXCEPT !.reason = q] \in Views /\ [v EXCEPT !.reason = q].stop = v.stop
         /\ [v EXCEPT !.allows = @ + 1] \in Views /\ [v EXCEPT !.allows = @ + 1].stop = v.stop
<1>1. /\ v.decision \in Decisions /\ v.status \in Statuses /\ v.reason \in Reasons
      /\ v.stop \in BOOLEAN /\ v.allows \in Nat /\ v.input \in Nat
  BY Zenon DEF Views
<1>2. ASSUME NEW i \in Nat PROVE [v EXCEPT !.input = i] \in Views /\ [v EXCEPT !.input = i].stop = v.stop
  BY <1>1, Zenon DEF Views
<1>3. ASSUME NEW q \in Reasons PROVE [v EXCEPT !.reason = q] \in Views /\ [v EXCEPT !.reason = q].stop = v.stop
  BY <1>1, Zenon DEF Views
<1>4. [v EXCEPT !.allows = @ + 1] \in Views /\ [v EXCEPT !.allows = @ + 1].stop = v.stop
  BY <1>1 DEF Views
<1> QED BY <1>2, <1>3, <1>4, Zenon

(* An invocation that does not succeed stops the point, unless its hook is *)
(* an observer that may fail.                                              *)
LEMMA UnsuccessfulStops ==
  ASSUME NEW r, NEW v \in Views, NEW q \in Reasons, NEW seen \in Reasons
  PROVE  /\ Unsuccessful(r, v, q, seen) \in Views
         /\ r.kind = "Transform" \/ r.kind = "Gate" \/ r.failClosed => Unsuccessful(r, v, q, seen).stop
<1>1. "TransformFailed" \in Statuses /\ "GateDenied" \in Statuses /\ "ObserverFailed" \in Statuses
  BY Zenon DEF Statuses
<1>2. CASE r.kind = "Transform"
  <2>1. PICK u \in Views : u = Denies(v, "TransformFailed", q) /\ u.stop
    BY <1>1, DeniesStops, Zenon
  <2>2. [u EXCEPT !.input = 0] \in Views /\ [u EXCEPT !.input = 0].stop
    BY <2>1, ViewUpdates, Zenon
  <2> QED BY <1>2, <2>1, <2>2, Zenon DEF Unsuccessful
<1>3. CASE r.kind # "Transform" /\ r.kind = "Gate"
  BY <1>1, <1>3, DeniesStops, Zenon DEF Unsuccessful
<1>4. CASE r.kind # "Transform" /\ r.kind # "Gate" /\ r.failClosed
  <2>1. Unsuccessful(r, v, q, seen) = [v EXCEPT !.status = "ObserverFailed", !.reason = seen, !.stop = TRUE]
    BY <1>4, Zenon DEF Unsuccessful
  <2>2. Unsuccessful(r, v, q, seen) \in Views /\ Unsuccessful(r, v, q, seen).stop = TRUE
    BY <1>1, <2>1, ObserverStops, ZenonT(60)
  <2> QED BY <2>2
<1>5. CASE r.kind # "Transform" /\ r.kind # "Gate" /\ ~r.failClosed
  BY <1>5, Zenon DEF Unsuccessful
<1> QED BY <1>2, <1>3, <1>4, <1>5, Zenon

(* An answer for which the fold will fix an outcome has stopped the point. *)
LEMMA AnswerStops ==
  ASSUME NEW r, NEW point, NEW i \in Nat, NEW answer \in Replies, NEW v \in Views
  PROVE  /\ ApplyAnswer(r, i, answer, v) \in Views
         /\ answer \in Failing =>
              (FixedOutcome(r, point, "Failed", "none") # NoOutcome => ApplyAnswer(r, i, answer, v).stop)
         /\ answer \notin Failing =>
              (FixedOutcome(r, point, "Succeeded", answer) # NoOutcome => ApplyAnswer(r, i, answer, v).stop)
<1>1. "GateDenied" \in Statuses /\ "ObserverFailed" \in Statuses
  BY Zenon DEF Statuses
<1>2. /\ "Failed" \in Reasons /\ "ObserverFailedClosed" \in Reasons
      /\ DenialReason(answer) \in Reasons
  BY Zenon DEF Reasons, DenialReason
<1>3. CASE answer \in Failing
  <2>1. ApplyAnswer(r, i, answer, v) = Unsuccessful(r, v, "Failed", "ObserverFailedClosed")
    BY <1>3, Zenon DEF ApplyAnswer
  <2>2. FixedOutcome(r, point, "Failed", "none") # NoOutcome =>
          r.kind = "Transform" \/ r.kind = "Gate" \/ r.failClosed
    BY Zenon DEF FixedOutcome
  <2> QED BY <1>2, <1>3, <2>1, <2>2, UnsuccessfulStops, Zenon
<1>4. CASE answer \notin Failing /\ answer = "Transformed"
  <2>1. ApplyAnswer(r, i, answer, v) = [v EXCEPT !.input = i]
    BY <1>4, Zenon DEF ApplyAnswer
  <2>2. FixedOutcome(r, point, "Succeeded", answer) = NoOutcome
    BY <1>4, Zenon DEF FixedOutcome, GateDenies, ObserverFails
  <2> QED BY <1>4, <2>1, <2>2, ViewUpdates, ZenonT(60)
<1>5. CASE answer \notin Failing /\ answer = "Allow" /\ r.required
  <2>1. ApplyAnswer(r, i, answer, v) = [v EXCEPT !.allows = @ + 1]
    BY <1>5, Zenon DEF ApplyAnswer
  <2>2. FixedOutcome(r, point, "Succeeded", answer) = NoOutcome
    BY <1>5, Zenon DEF FixedOutcome, GateDenies, ObserverFails
  <2> QED BY <1>5, <2>1, <2>2, ViewUpdates, Zenon
<1>6. CASE /\ answer \notin Failing /\ answer # "Transformed" /\ ~(answer = "Allow" /\ r.required)
           /\ GateDenies(r, answer)
  <2>1. ApplyAnswer(r, i, answer, v) = Denies(v, "GateDenied", DenialReason(answer))
    BY <1>6, Zenon DEF ApplyAnswer
  <2> QED BY <1>1, <1>2, <1>6, <2>1, DeniesStops, Zenon
<1>7. CASE /\ answer \notin Failing /\ answer # "Transformed" /\ ~(answer = "Allow" /\ r.required)
           /\ ~GateDenies(r, answer) /\ ObserverFails(r, answer)
  <2>1. ApplyAnswer(r, i, answer, v) =
          [v EXCEPT !.status = "ObserverFailed", !.reason = "ObserverFailedClosed", !.stop = TRUE]
    BY <1>7, Zenon DEF ApplyAnswer
  <2>2. ApplyAnswer(r, i, answer, v) \in Views /\ ApplyAnswer(r, i, answer, v).stop = TRUE
    BY <1>1, <1>2, <2>1, ObserverStops, ZenonT(60)
  <2> QED BY <1>7, <2>2
<1>8. CASE /\ answer \notin Failing /\ answer # "Transformed" /\ ~(answer = "Allow" /\ r.required)
           /\ ~GateDenies(r, answer) /\ ~ObserverFails(r, answer)
  <2>1. ApplyAnswer(r, i, answer, v) = v
    BY <1>8, Zenon DEF ApplyAnswer
  <2>2. FixedOutcome(r, point, "Succeeded", answer) = NoOutcome
    BY <1>8, Zenon DEF FixedOutcome
  <2> QED BY <1>8, <2>1, <2>2, Zenon
<1> QED BY <1>3, <1>4, <1>5, <1>6, <1>7, <1>8, Zenon

(* So has a cancellation or the deadline.                                  *)
LEMMA EndingStops ==
  ASSUME NEW r, NEW point, NEW ended \in {"Cancelled", "TimedOut"}, NEW v \in Views
  PROVE  /\ ApplyStop(r, ended, v) \in Views
         /\ FixedOutcome(r, point, ended, "none") # NoOutcome => ApplyStop(r, ended, v).stop
<1>1. ended \in Reasons
  BY Zenon DEF Reasons
<1>2. PICK u \in Views : /\ u = Unsuccessful(r, v, ended, ended)
                         /\ r.kind = "Transform" \/ r.kind = "Gate" \/ r.failClosed => u.stop
  BY <1>1, UnsuccessfulStops, Zenon
<1>3. ApplyStop(r, ended, v) = [u EXCEPT !.reason = ended]
  BY <1>2, Zenon DEF ApplyStop
<1>4. ApplyStop(r, ended, v) \in Views /\ ApplyStop(r, ended, v).stop = u.stop
  <2>1. [u EXCEPT !.reason = ended] \in Views /\ [u EXCEPT !.reason = ended].stop = u.stop
    BY <1>1, ViewUpdates, Zenon
  <2> QED BY <1>3, <2>1, Zenon
<1>5. FixedOutcome(r, point, ended, "none") # NoOutcome =>
        r.kind = "Transform" \/ r.kind = "Gate" \/ r.failClosed
  BY Zenon DEF FixedOutcome
<1> QED BY <1>2, <1>4, <1>5, Zenon

(* The outcome that a terminal event fixes is a decision, a status and a   *)
(* reason.                                                                 *)
LEMMA FixedOutcomeType ==
  ASSUME NEW r, NEW point, NEW ended \in Outcomes, NEW answer
  PROVE  FixedOutcome(r, point, ended, answer) \in Verdicts
<1>1. TerminalReason(ended, answer) \in Reasons
  BY Zenon DEF TerminalReason, DenialReason, Reasons, Outcomes
<1>2. Neutral(point) \in Decisions /\ "Deny" \in Decisions
  BY Zenon DEF Neutral, Decisions
<1>3. /\ "TransformFailed" \in Statuses /\ "GateDenied" \in Statuses
      /\ "ObserverFailed" \in Statuses /\ "ObserverFailedClosed" \in Reasons
  BY Zenon DEF Statuses, Reasons
<1>4. /\ <<"Deny", "TransformFailed", TerminalReason(ended, answer)>> \in Verdicts
      /\ <<"Deny", "GateDenied", TerminalReason(ended, answer)>> \in Verdicts
      /\ <<Neutral(point), "ObserverFailed", "ObserverFailedClosed">> \in Verdicts
      /\ NoOutcome \in Verdicts
  BY <1>1, <1>2, <1>3, Zenon DEF Verdicts
<1> QED BY <1>4, Zenon DEF FixedOutcome

-----------------------------------------------------------------------------
(* Where a call goes when it turns to hook i: to a reservation only if     *)
(* nothing has stopped the point.                                          *)
LEMMA NextHookInv ==
  ASSUME NEW pt \in Points, NEW i \in Nat, NEW v \in Views, NEW n, n = NextHook(pt, i, v)
  PROVE  /\ (\A recorded : CallInv(n, recorded)) /\ n # Idle
         /\ n.pt = pt /\ n.at \in {"finalize", "skip", "reserve"}
         /\ n.at = "reserve" => ~v.stop
<1>1. NoSample \in Sample /\ "none" \in Replies \cup {"none"} /\ "none" \in Outcomes \cup {"none"}
  BY Zenon DEF NoSample, Sample
<1>2. ASSUME NEW at \in {"finalize", "skip", "reserve"}, NEW w \in Views, n = Doing(at, pt, i, w)
      PROVE  n \in Doings /\ n # Idle /\ n.at = at /\ n.pt = pt /\ n.i = i /\ n.view = w
  <2>1. at \in Appending \cup {"reserve", "invoke", "settle"}
    BY Zenon DEF Appending
  <2>2. n = [at |-> at, pt |-> pt, i |-> i, view |-> w, answer |-> "none", ended |-> "none",
             lease |-> NoSample, sample |-> NoSample, recovery |-> FALSE]
    BY <1>2, Zenon DEF Doing
  <2>3. n \in Doings /\ n.at = at /\ n.pt = pt /\ n.i = i /\ n.view = w
    BY <1>1, <2>1, <2>2 DEF Doings
  <2>4. n # Idle
    BY <2>3 DEF Idle
  <2> QED BY <2>3, <2>4, Zenon
<1>3. CASE i \notin Ordinals(pt)
  <2>1. PICK w \in Views : w = Conclude(pt, v)
    <3>1. "GateDenied" \in Statuses /\ "RequiredGateMissing" \in Reasons
      BY Zenon DEF Statuses, Reasons
    <3> QED BY <3>1, DeniesStops, Zenon DEF Conclude
  <2>2. n = Doing("finalize", pt, i, w)
    BY <1>3, <2>1, Zenon DEF NextHook
  <2>3. n \in Doings /\ n # Idle /\ n.at = "finalize" /\ n.pt = pt
    BY <1>2, <2>2, Zenon
  <2> QED BY <2>3, Zenon DEF CallInv
<1>4. CASE i \in Ordinals(pt)
  <2> DEFINE seen == IF i \in Ordinals(pt) /\ ~v.stop /\ Ordered[pt][i].kind = "Gate"
                          /\ RequiredGates(pt) = {}
                       THEN Denies(v, "GateDenied", "RequiredGateEmpty") ELSE v
  <2>1. PICK w \in Views : w = seen /\ (~w.stop => ~v.stop)
    <3>1. "GateDenied" \in Statuses /\ "RequiredGateEmpty" \in Reasons
      BY Zenon DEF Statuses, Reasons
    <3>2. PICK u \in Views : u = Denies(v, "GateDenied", "RequiredGateEmpty") /\ u.stop = TRUE
      BY <3>1, DeniesStops, Zenon
    <3>3. seen = u \/ seen = v
      BY <3>2, Zenon
    <3> QED BY <3>2, <3>3, Zenon
  <2>2. n = Doing(IF w.stop THEN "skip" ELSE "reserve", pt, i, w)
    BY <1>4, <2>1, Zenon DEF NextHook
  <2>3. CASE w.stop
    <3>1. n \in Doings /\ n # Idle /\ n.at = "skip" /\ n.pt = pt /\ n.i = i /\ n.view.stop
      BY <1>2, <2>2, <2>3, Zenon
    <3> QED BY <1>4, <3>1, Zenon DEF CallInv
  <2>4. CASE ~w.stop
    <3>1. n \in Doings /\ n # Idle /\ n.at = "reserve" /\ n.pt = pt /\ n.i = i /\ ~n.view.stop
      BY <1>2, <2>2, <2>4, Zenon
    <3> QED BY <1>4, <2>1, <2>4, <3>1, Zenon DEF CallInv
  <2> QED BY <2>3, <2>4, Zenon
<1> QED BY <1>3, <1>4, Zenon

(* Where an append leads: what holds of a call before it holds after it,   *)
(* and a call that is then about to run a hook or reports something first  *)
(* had no stop in its view.                                                *)
LEMMA AfterAppendInv ==
  ASSUME NEW r, NEW recorded, NEW later, CallInv(r, recorded), recorded \subseteq later,
         r.at \in Appending, r.at = "append-reserve" => Invocation(r.pt, r.i) \in later,
         NEW n, n = AfterAppend(r)
  PROVE  /\ n = Idle \/ CallInv(n, later)
         /\ n.at \in {"reserve", "append-reserve", "late", "rejected"} /\ ~n.view.stop =>
              /\ n.pt = r.pt /\ ~r.view.stop /\ (r.at = "append-terminal" => ~r.recovery)
              /\ r.at \in {"start", "append-terminal", "late", "rejected"}
<1>1. /\ r \in Doings /\ r.pt \in Points /\ r.i \in Nat /\ r.view \in Views
      /\ r.recovery \in BOOLEAN /\ 1 \in Nat /\ r.i + 1 \in Nat
  BY DEF CallInv, Doings
<1>0. ASSUME NEW k \in Nat, n = NextHook(r.pt, k, r.view)
      PROVE  /\ CallInv(n, later) /\ n.pt = r.pt /\ n.at \in {"finalize", "skip", "reserve"}
             /\ n.at = "reserve" => ~r.view.stop
  <2>1. PICK pt \in Points, v \in Views : pt = r.pt /\ v = r.view
    BY <1>1, Zenon
  <2>2. n = NextHook(pt, k, v)
    BY <1>0, <2>1, Zenon
  <2>3. PICK m \in {n} : m = NextHook(pt, k, v)
    BY <2>2, Zenon
  <2>4. /\ \A some : CallInv(m, some)
        /\ m.pt = pt /\ m.at \in {"finalize", "skip", "reserve"} /\ (m.at = "reserve" => ~v.stop)
    BY <2>3, NextHookInv
  <2> QED BY <2>1, <2>3, <2>4, Zenon
<1>2. CASE r.at = "start"
  <2>1. n = NextHook(r.pt, 1, r.view)
    BY <1>2, Zenon DEF AfterAppend
  <2>2. /\ CallInv(n, later) /\ n.pt = r.pt /\ n.at \in {"finalize", "skip", "reserve"}
        /\ n.at = "reserve" => ~r.view.stop
    BY <1>1, <1>0, <2>1, Zenon
  <2> QED BY <1>2, <2>2, Zenon
<1>3. CASE r.at = "append-reserve"
  <2>1. n = [r EXCEPT !.at = "invoke"]
    BY <1>3, Zenon DEF AfterAppend
  <2>2. n \in Doings /\ n.at = "invoke" /\ n.pt = r.pt /\ n.i = r.i
    BY <1>1, <2>1, Zenon DEF Doings
  <2> QED BY <1>3, <2>2, Zenon DEF CallInv
<1>4. CASE r.at \notin {"start", "append-reserve"} /\ (r.at = "finalize" \/ r.recovery)
  <2>1. n = Idle
    BY <1>4, Zenon DEF AfterAppend
  <2> QED BY <2>1 DEF Idle
<1>5. CASE r.at = "append-terminal" /\ ~r.recovery /\ n = [r EXCEPT !.at = "rejected"]
  <2>1. /\ n \in Doings /\ n.at = "rejected" /\ n.pt = r.pt /\ n.i = r.i /\ n.view = r.view
        /\ n.recovery = r.recovery
    BY <1>1, <1>5, Zenon DEF Doings, Appending
  <2> QED BY <1>5, <2>1, Zenon DEF CallInv
<1>6. CASE r.at = "append-terminal" /\ ~r.recovery /\ n = [r EXCEPT !.at = "late"]
  <2>1. /\ n \in Doings /\ n.at = "late" /\ n.pt = r.pt /\ n.i = r.i /\ n.view = r.view
        /\ n.recovery = r.recovery
    BY <1>1, <1>6, Zenon DEF Doings, Appending
  <2> QED BY <1>6, <2>1, Zenon DEF CallInv
<1>7. CASE /\ r.at \notin {"start", "append-reserve", "finalize"} /\ ~r.recovery
           /\ n = NextHook(r.pt, r.i + 1, r.view)
  <2>1. /\ CallInv(n, later) /\ n.pt = r.pt /\ n.at \in {"finalize", "skip", "reserve"}
        /\ n.at = "reserve" => ~r.view.stop
    BY <1>1, <1>0, <1>7, Zenon
  <2>2. r.at \in {"append-terminal", "skip", "late", "rejected"} /\ (r.at = "skip" => r.view.stop)
    BY <1>7, Zenon DEF Appending, CallInv
  <2>3. n.view.stop \/ ~n.view.stop
    BY Zenon
  <2> QED BY <1>7, <2>1, <2>2, Zenon
<1> QED BY <1>2, <1>3, <1>4, <1>5, <1>6, <1>7, ZenonT(60) DEF AfterAppend, Appending

(* What is on record stays on record, so what a call relies on stays.      *)
LEMMA CallInvGrows ==
  ASSUME NEW r, NEW recorded, NEW later, CallInv(r, recorded), recorded \subseteq later
  PROVE  CallInv(r, later)
  BY Zenon DEF CallInv

(* A call is at the cursor of the hook stream after a step only if it is   *)
(* between two points, has appended, or nothing was appended.              *)
LEMMA TrackedCursor ==
  ASSUME TrackCursors, NEW c \in Calls, AtCursor(c, "hook")'
  PROVE  \/ run'[c] = Idle
         \/ c \in echoes' \ echoes
         \/ run'[c] # run[c] /\ hookStream' # hookStream
         \/ AtCursor(c, "hook") /\ hookStream' = hookStream
<1>1. moved'[c] = IF run'[c] = Idle \/ c \in echoes' \ echoes THEN {}
        ELSE IF run'[c] # run[c] THEN IF hookStream' = hookStream THEN moved[c] \cap {"hook"} ELSE {}
        ELSE moved[c] \cup Appended
  BY Zenon DEF TrackCursors
<1>2. "hook" \notin moved'[c]
  BY Zenon DEF AtCursor
<1>3. hookStream' # hookStream => "hook" \in Appended
  BY Zenon DEF Appended
<1>4. "hook" \notin moved[c] <=> AtCursor(c, "hook")
  BY Zenon DEF AtCursor
<1> HIDE DEF hookStream
<1> QED BY <1>1, <1>2, <1>3, <1>4, Zenon

(* A call that moves without an append: it plans, runs a handler, ends, or *)
(* finds its event on record.                                              *)
LEMMA MoveCalls ==
  ASSUME CallsInv, TrackCursors, NEW c \in Calls, NEW next, run' = [run EXCEPT ![c] = next],
         echoes' = echoes \ {c}, UNCHANGED hookStream,
         next = Idle \/ CallInv(next, Recorded), AtCursor(c, "hook") => FollowsStream(next, open)
  PROVE  CallsInv'
<1>1. DOMAIN run = Calls /\ echoes \subseteq Calls /\ \A d \in echoes : run[d].at \in Appending
  BY Zenon DEF CallsInv
<1>2. /\ DOMAIN run' = Calls /\ run'[c] = next /\ \A d \in Calls : d # c => run'[d] = run[d]
      /\ DOMAIN moved' = Calls
  BY <1>1, Zenon DEF TrackCursors
<1>3. Recorded' = Recorded /\ open' = open
  BY Zenon DEF Recorded, hookStream
<1>4. Position(c)' = next /\ \A d \in Calls : d # c => Position(d)' = Position(d)
  BY <1>2, Zenon DEF Position
<1>5. echoes' \subseteq Calls /\ \A d \in echoes' : run'[d].at \in Appending
  BY <1>1, <1>2, Zenon
<1>6. \A d \in Calls : Position(d)' = Idle \/ CallInv(Position(d)', Recorded')
  BY <1>3, <1>4, Zenon DEF CallsInv
<1>7. ASSUME NEW d \in Calls, AtCursor(d, "hook")' PROVE FollowsStream(Position(d)', open')
  <2>1. run'[d] = Idle \/ AtCursor(d, "hook")
    BY <1>7, TrackedCursor, Zenon
  <2>2. CASE run'[d] = Idle
    <3>1. d \notin echoes'
      BY <1>5, <2>2 DEF Appending, Idle
    <3>2. Position(d)' = Idle
      BY <2>2, <3>1, Zenon DEF Position
    <3> QED BY <3>2 DEF FollowsStream, Idle
  <2>3. CASE AtCursor(d, "hook")
    BY <1>3, <1>4, <2>3, Zenon DEF CallsInv
  <2> QED BY <2>1, <2>2, <2>3, Zenon
<1> QED BY <1>2, <1>5, <1>6, <1>7, Zenon DEF CallsInv

(* A call that appends, and with it the calls that were about to append    *)
(* the same bytes.                                                         *)
LEMMA AppendCalls ==
  ASSUME CallsInv, TrackCursors, NEW c \in Calls, NEW at \in Appending, NEW streams,
         Appends(c, at, streams), Recorded \subseteq Recorded',
         at = "append-reserve" => Invocation(run[c].pt, run[c].i) \in Recorded',
         FollowsStream(AfterAppend(run[c]), open')
  PROVE  CallsInv'
<1>1. /\ DOMAIN run = Calls /\ echoes \subseteq Calls /\ \A d \in echoes : run[d].at \in Appending
      /\ \A d \in Calls : Position(d) = Idle \/ CallInv(Position(d), Recorded)
  BY Zenon DEF CallsInv
<1>2. /\ c \notin echoes /\ run[c].at = at /\ run' = [run EXCEPT ![c] = AfterAppend(run[c])]
      /\ echoes' = echoes \cup {d \in Calls : SameBytes(c, d, streams)}
  BY Zenon DEF Appends, Moves
<1>3. /\ DOMAIN run' = Calls /\ run'[c] = AfterAppend(run[c])
      /\ \A d \in Calls : d # c => run'[d] = run[d]
      /\ DOMAIN moved' = Calls
  BY <1>1, <1>2, Zenon DEF TrackCursors
<1>4. c \notin echoes' /\ \A d \in echoes' : d # c /\ (d \notin echoes => run[d] = run[c])
  BY <1>2, Zenon DEF SameBytes
<1>5. echoes' \subseteq Calls /\ \A d \in echoes' : run'[d].at \in Appending
  BY <1>1, <1>2, <1>3, <1>4, Zenon
<1>6. AfterAppend(run[c]) = Idle \/ CallInv(AfterAppend(run[c]), Recorded')
  <2>1. run[c] # Idle
    BY <1>2 DEF Idle, Appending
  <2>2. CallInv(run[c], Recorded)
    BY <1>1, <1>2, <2>1, Zenon DEF Position
  <2>3. PICK r \in {run[c]}, recorded \in {Recorded}, later \in {Recorded'}, n \in {AfterAppend(run[c])} :
          /\ CallInv(r, recorded) /\ recorded \subseteq later /\ r.at \in Appending
          /\ r.at = "append-reserve" => Invocation(r.pt, r.i) \in later
          /\ n = AfterAppend(r)
    BY <1>2, <2>2, Zenon
  <2>4. n = Idle \/ CallInv(n, later)
    BY <2>3, AfterAppendInv, Zenon
  <2> QED BY <2>3, <2>4, Zenon
<1>7. \A d \in Calls : Position(d)' = Position(d) \/ Position(d)' = AfterAppend(run[c])
  BY <1>2, <1>3, <1>4, Zenon DEF Position
<1>8. \A d \in Calls : Position(d)' = Idle \/ CallInv(Position(d)', Recorded')
  <2>1. SUFFICES ASSUME NEW d \in Calls, Position(d)' = Position(d), Position(d) # Idle
                 PROVE  CallInv(Position(d)', Recorded')
    BY <1>6, <1>7, Zenon
  <2>2. PICK r \in {Position(d)}, recorded \in {Recorded}, later \in {Recorded'} :
          CallInv(r, recorded) /\ recorded \subseteq later
    BY <1>1, <2>1, Zenon
  <2>3. CallInv(r, later)
    BY <2>2, CallInvGrows, Zenon
  <2> QED BY <2>1, <2>2, <2>3, Zenon
<1>9. ASSUME NEW d \in Calls, AtCursor(d, "hook")' PROVE FollowsStream(Position(d)', open')
  <2>1. \/ run'[d] = Idle \/ d \in echoes' \ echoes \/ run'[d] # run[d]
        \/ AtCursor(d, "hook") /\ UNCHANGED hookStream
    BY <1>9, TrackedCursor, Zenon
  <2>2. CASE d = c \/ d \in echoes' \ echoes
    <3>1. Position(d)' = AfterAppend(run[c])
      BY <2>2, <1>3, <1>4, ZenonT(60) DEF Position
    <3> QED BY <3>1, Zenon
  <2>3. CASE run'[d] = Idle
    <3>1. d \notin echoes'
      BY <1>5, <2>3, SMTT(60) DEF Appending, Idle
    <3>2. Position(d)' = Idle
      BY <2>3, <3>1, Zenon DEF Position
    <3> QED BY <3>2, SMTT(60) DEF FollowsStream, Idle
  <2>4. CASE d # c /\ d \notin echoes' \ echoes /\ AtCursor(d, "hook") /\ UNCHANGED hookStream
    <3>1. Position(d)' = Position(d)
      BY <2>4, <1>2, <1>3, Zenon DEF Position
    <3>2. open' = open
      BY <2>4, Zenon DEF hookStream
    <3> QED BY <2>4, <3>1, <3>2, Zenon DEF CallsInv
  <2> QED BY <2>1, <2>2, <2>3, <2>4, <1>3, Zenon
<1> QED BY <1>3, <1>5, <1>8, <1>9, Zenon DEF CallsInv

(* A step of another component, or one that records only a fact: the calls *)
(* stay where they are.                                                    *)
LEMMA RestingCalls ==
  ASSUME CallsInv, TrackCursors, UNCHANGED <<run, echoes, open, invocations>>
  PROVE  CallsInv'
<1>1. DOMAIN moved' = Calls
  BY Zenon DEF TrackCursors
<1>2. Recorded' = Recorded /\ \A d : Position(d)' = Position(d)
  BY Zenon DEF Recorded, Position
<1>3. ASSUME NEW d \in Calls, AtCursor(d, "hook")' PROVE FollowsStream(Position(d)', open')
  <2>1. run[d] = Idle \/ AtCursor(d, "hook")
    BY <1>3, TrackedCursor, Zenon
  <2>2. CASE run[d] = Idle
    <3>1. d \notin echoes
      BY <2>2 DEF CallsInv, Appending, Idle
    <3>2. Position(d)' = Idle
      BY <1>2, <2>2, <3>1, Zenon DEF Position
    <3> QED BY <3>2, SMTT(60) DEF FollowsStream, Idle
  <2>3. CASE AtCursor(d, "hook")
    BY <1>2, <2>3, Zenon DEF CallsInv
  <2> QED BY <2>1, <2>2, <2>3, Zenon
<1> QED BY <1>1, <1>2, <1>3, Zenon DEF CallsInv

(* What the invariant says of a call that has no event waiting for it.     *)
LEMMA CallOf ==
  ASSUME CallsInv, NEW c \in Calls, run[c].at # "idle", c \notin echoes
  PROVE  CallInv(run[c], Recorded) /\ (AtCursor(c, "hook") => FollowsStream(run[c], open))
<1>1. run[c] # Idle
  BY DEF Idle
<1>2. Position(c) = run[c]
  BY Zenon DEF Position
<1> QED BY <1>1, <1>2, Zenon DEF CallsInv

(* invocation_id (external): an invocation names one hook of one point.    *)
LEMMA InvocationsDiffer ==
  ASSUME NEW pt \in Points, NEW i \in Ordinals(pt), NEW o, o = Invocation(pt, i)
  PROVE  /\ o \in Paired /\ o # NoTask
         /\ \A qt \in Points : \A j \in Ordinals(qt) : Invocation(qt, j) = o => qt = pt /\ j = i
<1>1. o \in Paired /\ o # NoTask
  BY HookAssumption, SMTT(60) DEF Invocation
<1>2. ASSUME NEW qt \in Points, NEW j \in Ordinals(qt), Invocation(qt, j) = o
      PROVE  qt = pt /\ j = i
  BY <1>2, HookAssumption DEF Invocation
<1> QED BY <1>1, <1>2, Zenon

(* No handler has run for an operation that has no invocation on record.   *)
LEMMA NeverInvoked ==
  ASSUME StreamInv, NEW o \in Paired, o \notin Recorded
  PROVE  invoked[o] = 0
<1>1. invoked[o] \in Nat /\ ~(invoked[o] > 0)
  BY Zenon DEF StreamInv, HookTypeOK, HookPairsAgree
<1> QED BY <1>1

(* invoke: a handler that runs for an invocation on record leaves the      *)
(* count of runs within the recorded invocations.                          *)
LEMMA InvokedOnRecord ==
  ASSUME StreamInv, NEW o \in Paired, o \in Recorded, invoked' = [invoked EXCEPT ![o] = @ + 1]
  PROVE  invoked' \in [Paired -> Nat] /\ \A x \in Paired : invoked'[x] > 0 => x \in Recorded
<1>1. invoked \in [Paired -> Nat] /\ \A x \in Paired : invoked[x] > 0 => x \in Recorded
  BY Zenon DEF StreamInv, HookTypeOK, HookPairsAgree
<1> QED BY <1>1

(* A count that is not positive is zero.                                   *)
LEMMA NoNumberBelow ==
  ASSUME NEW n \in Nat, ~(n > 0)
  PROVE  n = 0
OBVIOUS

(* A step that leaves the invocations alone leaves what is read off them.  *)
LEMMA SameInvocations ==
  ASSUME UNCHANGED invocations
  PROVE  Recorded' = Recorded /\ (\A pt : Of(pt)' = Of(pt)) /\ \A pt, i : Stopped(pt, i)' <=> Stopped(pt, i)
BY Zenon DEF Recorded, Of, Stopped, Ended, Said

(* The fold of a point that was just started.                              *)
LEMMA FreshPoint ==
  ASSUME NEW pt \in Points, NEW p,
         p = [pt |-> pt, next |-> 1, active |-> NoTask, input |-> 0, allows |-> 0,
              outcome |-> NoOutcome, bareOutcome |-> NoOutcome]
  PROVE  /\ p \in OpenPoint /\ p # NoPoint
         /\ p.pt = pt /\ p.next = 1 /\ p.active = NoTask /\ p.outcome = NoOutcome
<1>1. p \in OpenPoint
  BY DEF OpenPoint, Verdicts
<1>2. p # NoPoint
  BY <1>1, HookAssumption, Zenon
<1> QED BY <1>1, <1>2, Zenon

(* The fold of a reservation makes the invocation the active one.          *)
WithActive(p, o) == [p EXCEPT !.active = o]

(* Of the point, nothing else changes.                                     *)
LEMMA ActivePoint ==
  ASSUME NEW p \in OpenPoint, NEW o \in Paired
  PROVE  /\ WithActive(p, o) \in OpenPoint /\ WithActive(p, o) # NoPoint
         /\ WithActive(p, o).active = o /\ WithActive(p, o).pt = p.pt
         /\ WithActive(p, o).next = p.next /\ WithActive(p, o).outcome = p.outcome
<1>1. PICK q \in {WithActive(p, o)} : q = [p EXCEPT !.active = o]
  BY Zenon DEF WithActive
<1>2. q \in OpenPoint /\ q.active = o /\ q.pt = p.pt /\ q.next = p.next /\ q.outcome = p.outcome
  BY <1>1, Zenon DEF OpenPoint
<1>3. q # NoPoint
  BY <1>2, HookAssumption, Zenon
<1> QED BY <1>1, <1>2, <1>3, Zenon

(* The record of a reserved invocation.                                    *)
LEMMA FreshInvocation ==
  ASSUME NEW n \in Nat, NEW x, x = [ended |-> "Reserved", answer |-> "none", input |-> n]
  PROVE  x \in InvocationRecord /\ x.ended = "Reserved"
BY Zenon DEF InvocationRecord

IsEnded(x, outcome, answer) == x \in InvocationRecord /\ x.ended = outcome /\ x.answer = answer

EndedAs(outcome, answer, n) == [ended |-> outcome, answer |-> answer, input |-> n]

(* The record of an invocation that has ended.                             *)
LEMMA EndedInvocation ==
  ASSUME NEW outcome \in Outcomes \cup {"Reserved"}, NEW answer \in Replies \cup {"none"},
         NEW n \in Nat
  PROVE  IsEnded(EndedAs(outcome, answer, n), outcome, answer)
BY Zenon DEF IsEnded, EndedAs, InvocationRecord

(* The number of the next hook, and the ordinals up to it.                 *)
LEMMA NextIsLater ==
  ASSUME NEW n \in Nat \ {0}, NEW S \in SUBSET Nat, \A i \in S : i <= n
  PROVE  n + 1 # 1 /\ \A i \in S : i < n + 1
OBVIOUS

(* One more invocation on record is one more of its point.                 *)
LEMMA OneMoreOf ==
  ASSUME NEW rt \in Points, NEW k \in Ordinals(rt), NEW o, o = Invocation(rt, k),
         Recorded' = Recorded \cup {o}
  PROVE  \A pt \in Points : Of(pt)' = IF pt = rt THEN Of(pt) \cup {k} ELSE Of(pt)
<1>1. \A pt \in Points : \A i \in Ordinals(pt) : Invocation(pt, i) = o => pt = rt /\ i = k
  BY InvocationsDiffer, Zenon
<1>2. \A pt \in Points : Of(pt)' = {i \in Ordinals(pt) : Invocation(pt, i) \in Recorded \/ Invocation(pt, i) = o}
  BY Zenon DEF Of
<1>3. ASSUME NEW pt \in Points
      PROVE  Of(pt)' = IF pt = rt THEN Of(pt) \cup {k} ELSE Of(pt)
  BY <1>1, <1>2, Zenon DEF Of
<1> QED BY <1>3, Zenon

(* What the invariant says of the invocations and of the point they are of *)
LEMMA OfThePoint ==
  ASSUME StreamInv
  PROVE  /\ \A o \in Recorded : \E pt \in Points : \E i \in Ordinals(pt) : Invocation(pt, i) = o
         /\ \A pt \in Points :
              Of(pt) # {} => pt \in DOMAIN finalized \/ (open # NoPoint /\ open.pt = pt)
BY Zenon DEF StreamInv, PointInv

(* What the invariant says of the operations of the invocations.           *)
LEMMA OfTheOperation ==
  ASSUME StreamInv, NEW o \in Recorded
  PROVE  /\ o \in Operating /\ o \in Paired /\ o # NoTask /\ invocations[o] \in InvocationRecord
         /\ ops[o].outcome = IF invocations[o].ended = "Reserved" THEN "Pending"
                                                                  ELSE invocations[o].ended
         /\ ops[o].outcome = "TimedOut" => ops[o].accounted = Envelope
         /\ invocations[o].ended = "Reserved" <=> open # NoPoint /\ open.active = o
<1>1. Recorded = Operating \cap Paired
  BY Zenon DEF StreamInv, HookPairsAgree
<1>2. o \in Operating /\ o \in Paired /\ o # NoTask
  BY <1>1, HookAssumption, Zenon
<1>3. invocations[o] \in InvocationRecord
  BY Zenon DEF StreamInv, HookTypeOK
<1> QED BY <1>2, <1>3, Zenon DEF StreamInv, HookPairsAgree

-----------------------------------------------------------------------------
(* A step that appends nothing to the hook stream but a fact, and changes  *)
(* no operation of a pair.                                                 *)
LEMMA StreamKept ==
  ASSUME StreamInv, OperationsTyped', PairsUntouched, UNCHANGED <<open, invocations, finalized>>,
         invoked' \in [Paired -> Nat], \A o \in Paired : invoked'[o] > 0 => o \in Recorded
  PROVE  StreamInv'
<1>1. Recorded' = Recorded /\ (\A pt : Of(pt)' = Of(pt)) /\ \A pt, i : Stopped(pt, i)' <=> Stopped(pt, i)
  BY SameInvocations, Zenon
<1>2. HookTypeOK'
  BY <1>1, Zenon DEF StreamInv, HookTypeOK
<1>3. HookPairsAgree'
  <2>1. /\ Recorded = Operating \cap Paired
        /\ \A o \in Recorded : ops[o].outcome = "TimedOut" => ops[o].accounted = Envelope
        /\ \A o \in Recorded : ops[o].outcome = IF invocations[o].ended = "Reserved" THEN "Pending"
                                                ELSE invocations[o].ended
        /\ \A o \in Recorded : invocations[o].ended = "Reserved" <=> open # NoPoint /\ open.active = o
    BY Zenon DEF StreamInv, HookPairsAgree
  <2>2. \A o \in Recorded : ops'[o].outcome = ops[o].outcome /\ ops'[o].accounted = ops[o].accounted
    BY <2>1, Zenon DEF PairsUntouched
  <2>3. Recorded' = Operating' \cap Paired
    BY <1>1, <2>1, Zenon DEF PairsUntouched
  <2>4. ASSUME NEW o \in Recorded'
        PROVE  /\ ops'[o].outcome = IF invocations'[o].ended = "Reserved" THEN "Pending"
                                                                          ELSE invocations'[o].ended
               /\ ops'[o].outcome = "TimedOut" => ops'[o].accounted = Envelope
    <3>1. o \in Recorded /\ invocations'[o] = invocations[o]
      BY <1>1, <2>4, Zenon
    <3>2. ops'[o].outcome = ops[o].outcome /\ ops'[o].accounted = ops[o].accounted
      BY <2>2, <3>1, Zenon
    <3>3. ops[o].outcome = IF invocations'[o].ended = "Reserved" THEN "Pending"
                                                                 ELSE invocations'[o].ended
      BY <2>1, <3>1, Zenon
    <3> QED BY <2>1, <3>1, <3>2, <3>3, Zenon
  <2>5. \A o \in Recorded' : invocations'[o].ended = "Reserved" <=> open' # NoPoint /\ open'.active = o
    BY <1>1, <2>1, Zenon
  <2> QED BY <1>1, <2>3, <2>4, <2>5, Zenon DEF HookPairsAgree
<1>4. PointInv'
  BY <1>1, Zenon DEF StreamInv, PointInv
<1>5. NothingRunsAfterStop'
  <2>1. \A pt \in Points : \A j \in Ordinals(pt) :
          j \notin Of(pt) => Invocation(pt, j) \in Paired /\ Invocation(pt, j) \notin Recorded
    BY HookAssumption, Zenon DEF Of, Invocation
  <2>2. \A o \in Paired : o \notin Recorded => invoked'[o] = 0
    <3>1. ASSUME NEW o \in Paired, o \notin Recorded PROVE invoked'[o] = 0
      <4>1. PICK n \in Nat : n = invoked'[o] /\ ~(n > 0)
        BY <3>1, Zenon
      <4>2. n = 0
        BY <4>1, NoNumberBelow, Zenon
      <4> QED BY <4>1, <4>2, Zenon
    <3> QED BY <3>1, Zenon
  <2> QED BY <1>1, <2>1, <2>2, Zenon DEF StreamInv, NothingRunsAfterStop
<1> QED BY <1>2, <1>3, <1>4, <1>5, Zenon DEF StreamInv

(* hook-point-started: the first event of a point that was never opened.   *)
LEMMA StartedStream ==
  ASSUME StreamInv, NEW pt \in Points, open = NoPoint, pt \notin DOMAIN finalized,
         open' = [pt |-> pt, next |-> 1, active |-> NoTask, input |-> 0, allows |-> 0,
                  outcome |-> NoOutcome, bareOutcome |-> NoOutcome],
         UNCHANGED <<ops, clock, samples, invocations, finalized, invoked>>
  PROVE  StreamInv' /\ open'.outcome = NoOutcome
<1>1. Recorded' = Recorded /\ (\A qt : Of(qt)' = Of(qt)) /\ \A qt, i : Stopped(qt, i)' <=> Stopped(qt, i)
  BY SameInvocations, Zenon
<1>2. /\ open' \in OpenPoint /\ open' # NoPoint
      /\ open'.pt = pt /\ open'.next = 1 /\ open'.active = NoTask /\ open'.outcome = NoOutcome
  BY FreshPoint, Zenon
<1>3. OperationsTyped' /\ HookTypeOK'
  BY <1>1, <1>2, Zenon DEF StreamInv, HookTypeOK, OperationsTyped, Operating
<1>4. HookPairsAgree'
  <2>1. Recorded = Operating \cap Paired /\ Operating' = Operating
    BY Zenon DEF StreamInv, HookPairsAgree, Operating
  <2>2. \A o \in Recorded :
          /\ o # NoTask /\ invocations[o].ended # "Reserved"
          /\ ops[o].outcome = IF invocations[o].ended = "Reserved" THEN "Pending"
                                                                   ELSE invocations[o].ended
          /\ ops[o].outcome = "TimedOut" => ops[o].accounted = Envelope
    BY OfTheOperation, Zenon
  <2>3. \A o \in Recorded' :
          /\ ops'[o].outcome = IF invocations'[o].ended = "Reserved" THEN "Pending"
                                                                     ELSE invocations'[o].ended
          /\ ops'[o].outcome = "TimedOut" => ops'[o].accounted = Envelope
    BY <1>1, <2>2, Zenon
  <2>4. \A o \in Recorded' : invocations'[o].ended = "Reserved" <=> open' # NoPoint /\ open'.active = o
    BY <1>1, <1>2, <2>2, Zenon
  <2>5. \A o \in Paired : invoked'[o] > 0 => o \in Recorded'
    BY <1>1, Zenon DEF StreamInv, HookPairsAgree
  <2> QED BY <1>1, <2>1, <2>3, <2>4, <2>5, Zenon DEF HookPairsAgree
<1>5. PointInv'
  <2>1. Of(pt) = {} /\ \A qt \in Points : Of(qt) # {} => qt \in DOMAIN finalized
    BY OfThePoint, Zenon
  <2>2. \A o \in Recorded : \E qt \in Points : \E i \in Ordinals(qt) : Invocation(qt, i) = o
    BY OfThePoint, Zenon
  <2> QED BY <1>1, <1>2, <2>1, <2>2, Zenon DEF PointInv
<1>6. NothingRunsAfterStop'
  BY <1>1, Zenon DEF StreamInv, NothingRunsAfterStop
<1> QED BY <1>2, <1>3, <1>4, <1>5, <1>6, Zenon DEF StreamInv

(* The reservation pair: one more invocation, the active one.  It stands   *)
(* behind no stop, for the call that reserves follows the stream.          *)
LEMMA ReservedStream ==
  ASSUME StreamInv, NEW r, r.pt \in Points, r.i \in Ordinals(r.pt), r.view.input \in Nat,
         NEW o, o = Invocation(r.pt, r.i), FoldReserved(r, o), open.outcome = NoOutcome,
         Operating' = Operating \cup {o}, \A x \in Operating : ops'[x] = ops[x],
         ops'[o].outcome = "Pending", OperationsTyped', UNCHANGED <<finalized, invoked>>
  PROVE  StreamInv' /\ Recorded' = Recorded \cup {o}
<1>1. /\ open # NoPoint /\ open.pt = r.pt /\ open.active = NoTask /\ open.next = r.i
      /\ o \notin Recorded /\ open' = [open EXCEPT !.active = o]
  BY Zenon DEF FoldReserved
<1>2. /\ o \in Paired /\ o # NoTask
      /\ \A pt \in Points : \A i \in Ordinals(pt) : Invocation(pt, i) = o => pt = r.pt /\ i = r.i
  BY InvocationsDiffer, Zenon
<1>3. /\ Recorded' = Recorded \cup {o} /\ \A x \in Recorded : invocations'[x] = invocations[x]
      /\ invocations'[o] = [ended |-> "Reserved", answer |-> "none", input |-> r.view.input]
  <2>1. invocations' = [x \in Recorded \cup {o} |-> IF x # o THEN invocations[x] ELSE
          [ended |-> "Reserved", answer |-> "none", input |-> r.view.input]]
    BY Zenon DEF FoldReserved
  <2> HIDE DEF Recorded
  <2>2. DOMAIN invocations' = Recorded \cup {o}
    BY <2>1, Zenon
  <2> QED BY <1>1, <2>1, <2>2, Zenon DEF Recorded
<1>4. open \in OpenPoint
  BY <1>1, Zenon DEF StreamInv, HookTypeOK
<1>5. /\ open' \in OpenPoint /\ open'.active = o /\ open'.pt = open.pt /\ open'.next = open.next
      /\ open'.outcome = NoOutcome /\ open' # NoPoint
  <2>1. open' = WithActive(open, o)
    BY <1>1, Zenon DEF WithActive
  <2> QED BY <1>2, <1>4, <2>1, ActivePoint, Zenon
<1>6. invocations'[o] \in InvocationRecord /\ invocations'[o].ended = "Reserved"
  BY <1>3, FreshInvocation, Zenon
<1>7. HookTypeOK'
  BY <1>3, <1>5, <1>6, Zenon DEF StreamInv, HookTypeOK
<1>8. HookPairsAgree'
  <2>1. Recorded = Operating \cap Paired /\ Recorded' = Operating' \cap Paired
    BY <1>2, <1>3, ZenonT(60) DEF StreamInv, HookPairsAgree
  <2>2. \A x \in Recorded :
          /\ x # o /\ x # NoTask /\ ops'[x] = ops[x] /\ invocations[x].ended # "Reserved"
          /\ ops[x].outcome = IF invocations[x].ended = "Reserved" THEN "Pending"
                                                                   ELSE invocations[x].ended
          /\ ops[x].outcome = "TimedOut" => ops[x].accounted = Envelope
    BY <1>1, OfTheOperation, Zenon
  <2>3. ASSUME NEW x \in Recorded'
        PROVE  /\ ops'[x].outcome = IF invocations'[x].ended = "Reserved" THEN "Pending"
                                                                          ELSE invocations'[x].ended
               /\ ops'[x].outcome = "TimedOut" => ops'[x].accounted = Envelope
               /\ invocations'[x].ended = "Reserved" <=> open' # NoPoint /\ open'.active = x
    <3>1. CASE x = o
      <4>1. "Pending" # "TimedOut"
        BY Zenon
      <4> QED BY <1>5, <1>6, <3>1, <4>1, Zenon
    <3>2. CASE x # o
      <4>1. x \in Recorded
        BY <1>3, <2>3, <3>2, Zenon
      <4> QED BY <1>3, <1>5, <2>2, <3>2, <4>1, Zenon
    <3> QED BY <3>1, <3>2, Zenon
  <2>4. \A x \in Paired : invoked'[x] > 0 => x \in Recorded'
    BY <1>3, Zenon DEF StreamInv, HookPairsAgree
  <2> QED BY <2>1, <2>3, <2>4, Zenon DEF HookPairsAgree
<1>9. \A pt \in Points :
        Of(pt)' = IF pt = r.pt THEN Of(pt) \cup {r.i} ELSE Of(pt)
  BY <1>3, OneMoreOf, Zenon
<1>10. \A pt \in Points : \A i \in Of(pt)' : Stopped(pt, i)' => i \in Of(pt) /\ Stopped(pt, i)
  <2>1. ASSUME NEW pt \in Points, NEW i \in Of(pt) PROVE Stopped(pt, i)' <=> Stopped(pt, i)
    <3>1. invocations'[Invocation(pt, i)] = invocations[Invocation(pt, i)]
      BY <1>3, Zenon DEF Of
    <3> QED BY <3>1, Zenon DEF Stopped, Ended, Said
  <2>2. ~Stopped(r.pt, r.i)'
    BY <1>6, Zenon DEF Stopped, Ended
  <2> QED BY <1>9, <2>1, <2>2, Zenon
<1>11. \A i \in Of(r.pt) : ~Stopped(r.pt, i) /\ i < open.next
  <2>1. \A i \in Of(open.pt) :
            /\ i < open.next \/ (i = open.next /\ open.active = Invocation(open.pt, i))
            /\ Stopped(open.pt, i) => open.outcome # NoOutcome
    BY <1>1, Zenon DEF StreamInv, PointInv
  <2>2. r.i \notin Of(r.pt)
    BY <1>1, Zenon DEF Of
  <2> QED BY <1>1, <2>1, <2>2, Zenon
<1>12. PointInv'
  <2>1. \A x \in Recorded' : \E pt \in Points : \E i \in Ordinals(pt) : Invocation(pt, i) = x
    BY <1>3, ZenonT(60) DEF StreamInv, PointInv
  <2>2. \A pt \in Points : Of(pt)' # {} => pt \in DOMAIN finalized' \/ open'.pt = pt
    BY <1>1, <1>5, <1>9, OfThePoint, Zenon
  <2>3. open.pt \notin DOMAIN finalized
    BY <1>1, Zenon DEF StreamInv, PointInv
  <2>4. \A i \in Of(r.pt)' : ~Stopped(r.pt, i)'
    BY <1>10, <1>11, Zenon
  <2>5. \A i \in Of(r.pt)' : i < open.next \/ i = r.i
    BY <1>9, <1>11, Zenon
  <2> QED BY <1>1, <1>5, <2>1, <2>2, <2>3, <2>4, <2>5, ZenonT(60) DEF PointInv
<1>13. NothingRunsAfterStop'
  <2>1. SUFFICES ASSUME NEW pt \in Points, NEW i \in Of(pt)', Stopped(pt, i)',
                        NEW j \in Ordinals(pt), j > i
                 PROVE  j \notin Of(pt)' /\ invoked'[Invocation(pt, j)] = 0
    BY Zenon DEF NothingRunsAfterStop
  <2>2. i \in Of(pt) /\ Stopped(pt, i)
    BY <1>10, <2>1, Zenon
  <2>3. j \notin Of(pt) /\ invoked[Invocation(pt, j)] = 0
    BY <2>1, <2>2, Zenon DEF StreamInv, NothingRunsAfterStop
  <2>4. pt # r.pt
    BY <1>11, <2>2, Zenon
  <2> QED BY <1>9, <2>3, <2>4, Zenon
<1> QED BY <1>3, <1>7, <1>8, <1>12, <1>13, Zenon DEF StreamInv

(* The settlement pair: the active invocation ends, as its operation does, *)
(* and the point has an outcome if that stops it.                          *)
LEMMA TerminalStream ==
  ASSUME StreamInv, NEW r, r.pt \in Points, r.i \in Ordinals(r.pt), r.i \in Nat,
         r.ended \in Outcomes, r.answer \in Replies \cup {"none"},
         NEW o, o = Invocation(r.pt, r.i), o \in Recorded, FoldTerminal(r, o),
         Operating' = Operating, \A x \in Operating : x # o => ops'[x] = ops[x],
         ops'[o].outcome = r.ended, r.ended = "TimedOut" => ops'[o].accounted = Envelope,
         OperationsTyped', UNCHANGED <<finalized, invoked>>
  PROVE  /\ StreamInv' /\ Recorded' = Recorded
         /\ ~FixesOutcome(r, r.ended) => open'.outcome = NoOutcome
<1> DEFINE hook == Ordered[r.pt][r.i]
           answer == IF r.ended = "Succeeded" THEN r.answer ELSE "none"
           fixed(h) == FixedOutcome(h, HookPoint[r.pt], r.ended, answer)
<1>1. /\ open # NoPoint /\ open.active = o
      /\ invocations' = [invocations EXCEPT ![o].ended = r.ended, ![o].answer = answer]
      /\ open' = [open EXCEPT
           !.active = NoTask, !.next = @ + 1,
           !.input = IF answer = "Transformed" THEN r.i ELSE open.input,
           !.allows = open.allows + (IF hook.required /\ answer = "Allow" THEN 1 ELSE 0),
           !.outcome = IF fixed(hook) = NoOutcome THEN open.outcome ELSE fixed(hook),
           !.bareOutcome = IF fixed(Unregistered(hook)) = NoOutcome THEN open.bareOutcome
                                                        ELSE fixed(Unregistered(hook))]
  BY Zenon DEF FoldTerminal
<1>2. /\ o \in Paired /\ o # NoTask
      /\ \A pt \in Points : \A i \in Ordinals(pt) : Invocation(pt, i) = o => pt = r.pt /\ i = r.i
  BY InvocationsDiffer, ZenonT(60)
<1>3. open \in OpenPoint
  BY <1>1, Zenon DEF StreamInv, HookTypeOK
<1>4. open.pt = r.pt /\ open.next = r.i /\ open.outcome = NoOutcome
  <2>1. open.pt \in Points
    BY <1>3, Zenon DEF OpenPoint
  <2> QED BY <1>1, <1>2, <2>1, SMTT(60) DEF StreamInv, PointInv
<1>5. /\ open' \in OpenPoint /\ open'.active = NoTask /\ open'.next = open.next + 1
      /\ open'.pt = r.pt /\ open'.outcome = fixed(hook)
  <2>1. fixed(hook) \in Verdicts /\ fixed(Unregistered(hook)) \in Verdicts
    BY FixedOutcomeType, Zenon
  <2>2. open.input \in Nat /\ open.allows \in Nat /\ open.outcome \in Verdicts /\ open.bareOutcome \in Verdicts
    BY <1>3, ZenonT(60) DEF OpenPoint
  <2> HIDE DEF fixed, hook, answer
  <2>3. PICK p \in OpenPoint : p = open
    BY <1>3, Zenon
  <2>4. PICK input \in Nat : input = IF answer = "Transformed" THEN r.i ELSE open.input
    BY <2>2, ZenonT(60)
  <2>5. PICK allows \in Nat :
          allows = open.allows + (IF hook.required /\ answer = "Allow" THEN 1 ELSE 0)
    BY <2>2
  <2>6. PICK outcome \in Verdicts :
          outcome = IF fixed(hook) = NoOutcome THEN open.outcome ELSE fixed(hook)
    BY <2>1, <2>2, Zenon
  <2>7. PICK bare \in Verdicts :
          bare = IF fixed(Unregistered(hook)) = NoOutcome THEN open.bareOutcome
                 ELSE fixed(Unregistered(hook))
    BY <2>1, <2>2, Zenon
  <2>8. PICK q \in {open'} :
          q = [p EXCEPT !.active = NoTask, !.next = @ + 1, !.input = input, !.allows = allows,
                        !.outcome = outcome, !.bareOutcome = bare]
    BY <1>1, <2>3, <2>4, <2>5, <2>6, <2>7, ZenonT(60)
  <2>9. q = [pt |-> p.pt, next |-> p.next + 1, active |-> NoTask, input |-> input,
             allows |-> allows, outcome |-> outcome, bareOutcome |-> bare]
    BY <2>8, ZenonT(60) DEF OpenPoint
  <2>10. p.pt \in Points /\ p.next + 1 \in Nat \ {0}
    BY DEF OpenPoint
  <2>11. /\ q \in OpenPoint /\ q.active = NoTask /\ q.next = p.next + 1 /\ q.pt = p.pt
         /\ q.outcome = outcome
    BY <2>9, <2>10, Zenon DEF OpenPoint
  <2> QED BY <1>4, <2>3, <2>6, <2>8, <2>11, ZenonT(60)
<1>6. open' # NoPoint
  BY <1>5, HookAssumption, ZenonT(60)
<1>7. /\ Recorded' = Recorded /\ \A x \in Recorded : x # o => invocations'[x] = invocations[x]
      /\ invocations'[o] \in InvocationRecord
      /\ invocations'[o].ended = r.ended /\ invocations'[o].answer = answer
  <2>1. invocations[o] \in InvocationRecord
    BY Zenon DEF StreamInv, HookTypeOK
  <2>2. answer \in Replies \cup {"none"} /\ r.ended \in Outcomes \cup {"Reserved"}
    BY Zenon
  <2> HIDE DEF answer
  <2>3. /\ DOMAIN invocations' = DOMAIN invocations
        /\ \A x \in Recorded : x # o => invocations'[x] = invocations[x]
        /\ invocations'[o] = [invocations[o] EXCEPT !.ended = r.ended, !.answer = answer]
    BY <1>1, Zenon DEF Recorded
  <2>4. invocations'[o] = [ended |-> r.ended, answer |-> answer, input |-> invocations[o].input]
    BY <2>1, <2>3, ZenonT(60) DEF InvocationRecord
  <2>5. invocations[o].input \in Nat
    BY <2>1, Zenon DEF InvocationRecord
  <2>6. /\ invocations'[o] \in InvocationRecord
        /\ invocations'[o].ended = r.ended /\ invocations'[o].answer = answer
    <3>1. invocations'[o] = EndedAs(r.ended, answer, invocations[o].input)
      BY <2>4, Zenon DEF EndedAs
    <3>2. IsEnded(EndedAs(r.ended, answer, invocations[o].input), r.ended, answer)
      BY <2>2, <2>5, EndedInvocation, Zenon
    <3> QED BY <3>1, <3>2, Zenon DEF IsEnded
  <2> QED BY <2>3, <2>6, Zenon DEF Recorded
<1> HIDE DEF hook, answer, fixed
<1>8. HookTypeOK'
  BY <1>5, <1>7, Zenon DEF StreamInv, HookTypeOK
<1>9. HookPairsAgree'
  <2>0. r.ended # "Reserved"
    BY Zenon DEF Outcomes
  <2>1. Recorded = Operating \cap Paired /\ Recorded' = Operating' \cap Paired
    BY <1>7, Zenon DEF StreamInv, HookPairsAgree
  <2>2. \A x \in Recorded : x # o => x # NoTask /\ ops'[x] = ops[x] /\ invocations[x].ended # "Reserved"
    BY <1>1, <2>1, HookAssumption, Zenon DEF StreamInv, HookPairsAgree
  <2>3. \A x \in Recorded' :
          /\ ops'[x].outcome = IF invocations'[x].ended = "Reserved" THEN "Pending"
                                                                     ELSE invocations'[x].ended
          /\ ops'[x].outcome = "TimedOut" => ops'[x].accounted = Envelope
    <3>1. ASSUME NEW x \in Recorded', x # o
          PROVE  /\ x \in Recorded /\ ops'[x] = ops[x] /\ invocations'[x] = invocations[x]
                 /\ ops[x].outcome = IF invocations[x].ended = "Reserved" THEN "Pending"
                                                                         ELSE invocations[x].ended
                 /\ ops[x].outcome = "TimedOut" => ops[x].accounted = Envelope
      BY <1>7, <2>2, <3>1, Zenon DEF StreamInv, HookPairsAgree
    <3>2. invocations'[o].ended = r.ended
      BY <1>7, Zenon
    <3> QED BY <2>0, <3>1, <3>2, ZenonT(60)
  <2>4. \A x \in Paired : invoked'[x] > 0 => x \in Recorded'
    BY <1>7, Zenon DEF StreamInv, HookPairsAgree
  <2>5. \A x \in Recorded' : invocations'[x].ended = "Reserved" <=> open' # NoPoint /\ open'.active = x
    BY <1>2, <1>5, <1>7, <2>0, <2>2, ZenonT(60)
  <2> QED BY <2>1, <2>3, <2>4, <2>5, Zenon DEF HookPairsAgree
<1>10. \A pt : Of(pt)' = Of(pt)
  BY <1>7, Zenon DEF Of
<1>11. \A pt \in Points : \A i \in Of(pt) :
         (pt # r.pt \/ i # r.i) => (Stopped(pt, i)' <=> Stopped(pt, i))
  <2>1. ASSUME NEW pt \in Points, NEW i \in Of(pt), pt # r.pt \/ i # r.i
        PROVE  Stopped(pt, i)' <=> Stopped(pt, i)
    <3>1. invocations'[Invocation(pt, i)] = invocations[Invocation(pt, i)]
      BY <1>2, <1>7, <2>1, ZenonT(60) DEF Of
    <3> QED BY <3>1, Zenon DEF Stopped, Ended, Said
  <2> QED BY <2>1, Zenon
<1>12. Stopped(r.pt, r.i)' => fixed(hook) # NoOutcome
  BY <1>7, ZenonT(60) DEF Stopped, Ended, Said, fixed, hook
<1>13. /\ r.i \in Of(r.pt)
       /\ \A i \in Of(r.pt) : i <= open.next /\ (i # r.i => ~Stopped(r.pt, i))
       /\ open.pt \notin DOMAIN finalized
  <2>1. open.next \in Nat /\ \A i \in Of(open.pt) : i \in Nat
    BY <1>3, OrdinalsAreNumbers, ZenonT(60) DEF OpenPoint, Of
  <2>2. /\ open.pt \notin DOMAIN finalized
        /\ \A i \in Of(open.pt) :
             /\ i < open.next \/ (i = open.next /\ open.active = Invocation(open.pt, i))
             /\ Stopped(open.pt, i) => open.outcome # NoOutcome
    BY <1>1, Zenon DEF StreamInv, PointInv
  <2>3. \A i, n \in Nat : i < n \/ i = n => i <= n
    OBVIOUS
  <2>4. r.i \in Of(r.pt)
    BY Zenon DEF Of
  <2> QED BY <1>4, <2>1, <2>2, <2>3, <2>4, Zenon
<1>14. PointInv'
  <2>1. \A x \in Recorded' : \E pt \in Points : \E i \in Ordinals(pt) : Invocation(pt, i) = x
    BY <1>7, Zenon DEF StreamInv, PointInv
  <2>2. \A pt \in Points : Of(pt)' # {} => pt \in DOMAIN finalized' \/ open'.pt = pt
    BY <1>4, <1>5, <1>10, ZenonT(60) DEF StreamInv, PointInv
  <2>3. open'.next # 1 /\ \A i \in Of(r.pt)' : i < open'.next
    <3>1. PICK n \in Nat \ {0} : n = open.next
      BY <1>3, Zenon DEF OpenPoint
    <3>2. PICK S \in SUBSET Nat : S = Of(r.pt)
      BY OrdinalsAreNumbers, Zenon DEF Of
    <3>3. \A i \in S : i <= n
      BY <1>13, <3>1, <3>2, Zenon
    <3>4. n + 1 # 1 /\ \A i \in S : i < n + 1
      BY <3>3, NextIsLater, Zenon
    <3> QED BY <1>5, <1>10, <3>1, <3>2, <3>4, Zenon
  <2>4. \A i \in Of(r.pt)' : Stopped(r.pt, i)' => open'.outcome # NoOutcome
    BY <1>5, <1>10, <1>11, <1>12, <1>13, ZenonT(60)
  <2> QED BY <1>4, <1>5, <1>6, <1>13, <2>1, <2>2, <2>3, <2>4, ZenonT(60) DEF PointInv
<1>15. NothingRunsAfterStop'
  <2>1. SUFFICES ASSUME NEW pt \in Points, NEW i \in Of(pt), Stopped(pt, i)',
                        NEW j \in Ordinals(pt), j > i
                 PROVE  j \notin Of(pt) /\ invoked[Invocation(pt, j)] = 0
    BY <1>10, Zenon DEF NothingRunsAfterStop
  <2>2. CASE pt # r.pt \/ i # r.i
    BY <1>11, <2>1, <2>2, ZenonT(60) DEF StreamInv, NothingRunsAfterStop
  <2>3. CASE pt = r.pt /\ i = r.i
    <3>1. j \in Nat /\ i \in Nat
      BY <2>1, OrdinalsAreNumbers, ZenonT(60) DEF Of
    <3>2. j \notin Of(pt)
      <4>1. j \in Of(pt) => j <= i
        BY <1>4, <1>13, <2>3, Zenon
      <4>2. \A m, n \in Nat : m > n => ~(m <= n)
        OBVIOUS
      <4> QED BY <2>1, <3>1, <4>1, <4>2, Zenon
    <3>3. Invocation(pt, j) \in Paired /\ Invocation(pt, j) \notin Recorded
      BY <2>1, <3>2, HookAssumption, Zenon DEF Of, Invocation
    <3>4. invoked[Invocation(pt, j)] = 0
      BY <3>3, NeverInvoked, Zenon
    <3> QED BY <3>2, <3>4, Zenon
  <2> QED BY <2>2, <2>3, Zenon
<1>16. ~FixesOutcome(r, r.ended) => open'.outcome = NoOutcome
  BY <1>5, Zenon DEF FixesOutcome, fixed, hook, answer
<1> QED BY <1>7, <1>8, <1>9, <1>14, <1>15, <1>16, ZenonT(60) DEF StreamInv

(* hook-invocation-skipped: the fold goes on to the next hook.             *)
LEMMA SkippedStream ==
  ASSUME StreamInv, open # NoPoint, open.active = NoTask, open' = [open EXCEPT !.next = @ + 1],
         UNCHANGED <<ops, clock, samples, invocations, finalized, invoked>>
  PROVE  StreamInv'
<1>1. Recorded' = Recorded /\ (\A qt : Of(qt)' = Of(qt)) /\ \A qt, i : Stopped(qt, i)' <=> Stopped(qt, i)
  BY Zenon DEF Recorded, Of, Stopped, Ended, Said
<1>2. open \in OpenPoint /\ open.pt \in Points /\ open.next \in Nat \ {0}
  BY Zenon DEF StreamInv, HookTypeOK, OpenPoint
<1>3. /\ open' \in OpenPoint /\ open'.pt = open.pt /\ open'.next = open.next + 1
      /\ open'.active = NoTask /\ open'.outcome = open.outcome
  BY <1>2 DEF OpenPoint
<1>4. open' # NoPoint
  BY <1>3, HookAssumption, Zenon
<1>5. OperationsTyped' /\ HookTypeOK'
  BY <1>1, <1>3, Zenon DEF StreamInv, HookTypeOK, OperationsTyped, Operating
<1>6. HookPairsAgree'
  BY <1>1, <1>3, <1>4, SMTT(60) DEF StreamInv, HookPairsAgree, Operating
<1>7. PointInv'
  <2>1. \A o \in Recorded : \E qt \in Points : \E i \in Ordinals(qt) : Invocation(qt, i) = o
    BY Zenon DEF StreamInv, PointInv
  <2>2. \A qt \in Points : Of(qt) # {} => qt \in DOMAIN finalized \/ open.pt = qt
    BY Zenon DEF StreamInv, PointInv
  <2>3. /\ open.pt \notin DOMAIN finalized
        /\ \A i \in Of(open.pt) :
             /\ i < open.next \/ i = open.next
             /\ Stopped(open.pt, i) => open.outcome # NoOutcome
    BY Zenon DEF StreamInv, PointInv
  <2>4. open'.next # 1 /\ \A i \in Of(open.pt) : i < open'.next
    <3>1. \A i \in Of(open.pt) : i \in Nat
      BY <1>2, OrdinalsAreNumbers, Zenon DEF Of
    <3> QED BY <1>2, <1>3, <2>3, <3>1, SMTT(60)
  <2> QED BY <1>1, <1>3, <1>4, <2>1, <2>2, <2>3, <2>4, ZenonT(60) DEF PointInv
<1>8. NothingRunsAfterStop'
  BY <1>1, Zenon DEF StreamInv, NothingRunsAfterStop
<1> QED BY <1>5, <1>6, <1>7, <1>8, Zenon DEF StreamInv

(* hook-point-finalized: no point is open, and the one that was is closed  *)
(* for good.                                                               *)
LEMMA FinalizedStream ==
  ASSUME StreamInv, open # NoPoint, open.active = NoTask, open' = NoPoint,
         DOMAIN finalized' = DOMAIN finalized \cup {open.pt},
         UNCHANGED <<ops, clock, samples, invocations, invoked>>
  PROVE  StreamInv'
<1>1. Recorded' = Recorded /\ (\A qt : Of(qt)' = Of(qt)) /\ \A qt, i : Stopped(qt, i)' <=> Stopped(qt, i)
  BY Zenon DEF Recorded, Of, Stopped, Ended, Said
<1>2. OperationsTyped' /\ HookTypeOK'
  BY <1>1, Zenon DEF StreamInv, HookTypeOK, OperationsTyped, Operating
<1>3. HookPairsAgree'
  <2>1. Recorded = Operating \cap Paired /\ Operating' = Operating
    BY Zenon DEF StreamInv, HookPairsAgree, Operating
  <2>2. \A o \in Recorded : invocations[o].ended # "Reserved"
    BY <2>1, HookAssumption, Zenon DEF StreamInv, HookPairsAgree
  <2> QED BY <1>1, <2>1, <2>2, Zenon DEF StreamInv, HookPairsAgree
<1>4. PointInv'
  <2>1. \A o \in Recorded : \E qt \in Points : \E i \in Ordinals(qt) : Invocation(qt, i) = o
    BY ZenonT(60) DEF StreamInv, PointInv
  <2>2. \A qt \in Points : Of(qt) # {} => qt \in DOMAIN finalized'
    BY Zenon DEF StreamInv, PointInv
  <2> QED BY <1>1, <2>1, <2>2, Zenon DEF PointInv
<1>5. NothingRunsAfterStop'
  BY <1>1, Zenon DEF StreamInv, NothingRunsAfterStop
<1> QED BY <1>2, <1>3, <1>4, <1>5, Zenon DEF StreamInv

-----------------------------------------------------------------------------
(* A step of a call that appends nothing; it may run a handler that is     *)
(* reserved.                                                               *)
LEMMA QuietMove ==
  ASSUME HookInv, TrackCursors, NEW c \in Calls, NEW next, run' = [run EXCEPT ![c] = next],
         echoes' = echoes \ {c}, UNCHANGED <<vars, hookStream>>,
         invoked' \in [Paired -> Nat], \A o \in Paired : invoked'[o] > 0 => o \in Recorded,
         next = Idle \/ CallInv(next, Recorded), AtCursor(c, "hook") => FollowsStream(next, open)
  PROVE  HookInv'
<1>1. UNCHANGED <<ops, clock, samples>> /\ UNCHANGED <<open, invocations, finalized>>
  BY Zenon DEF vars, controlVars, processVars, hookStream
<1>2. OperationsTyped /\ clock' \in Sample /\ samples' \subseteq Sample
  BY <1>1, Zenon DEF HookInv, StreamInv, OperationsTyped
<1>3. OperationsTyped' /\ PairsUntouched
  BY <1>1, <1>2, NoOperation, Zenon
<1>4. StreamInv'
  BY <1>1, <1>3, StreamKept, Zenon DEF HookInv
<1>5. CallsInv'
  BY MoveCalls, ZenonT(60) DEF HookInv
<1> QED BY <1>4, <1>5, Zenon DEF HookInv

(* The invariant of what was invoked, for a step that runs no handler.     *)
LEMMA InvokedKept ==
  ASSUME HookInv, UNCHANGED invoked
  PROVE  invoked' \in [Paired -> Nat] /\ \A o \in Paired : invoked'[o] > 0 => o \in Recorded
  BY Zenon DEF HookInv, StreamInv, HookTypeOK, HookPairsAgree

(* Only a call that appends can find its event on record.                  *)
LEMMA NotEchoed ==
  ASSUME CallsInv, NEW c \in Calls, run[c].at \notin Appending, UNCHANGED echoes
  PROVE  c \notin echoes /\ echoes' = echoes \ {c}
  BY Zenon DEF CallsInv

(* The view that execute_hook_point starts from.                           *)
LEMMA InitialViewTyped ==
  ASSUME NEW pt
  PROVE  InitialView(pt) \in Views
<1>1. /\ Neutral(HookPoint[pt]) \in Decisions /\ "Completed" \in Statuses /\ "Completed" \in Reasons
  BY Zenon DEF Neutral, Decisions, Statuses, Reasons
<1> QED BY <1>1, Zenon DEF InitialView, Views

(* A call begins: at the start of the point, or behind a start that is the *)
(* last event, when no outcome is fixed.                                   *)
LEMMA BeginInv ==
  ASSUME HookInv, TrackCursors, NEW c \in Calls, NEW pt \in Points, Begin(c, pt)
  PROVE  HookInv'
<1>1. /\ UNCHANGED <<vars, hookStream>> /\ UNCHANGED invoked /\ UNCHANGED echoes
      /\ run[c].at = "idle"
  BY Zenon DEF Begin, Moves
<1>2. echoes' = echoes \ {c}
  BY <1>1, NotEchoed, Zenon DEF HookInv, Appending
<1>3. invoked' \in [Paired -> Nat] /\ \A o \in Paired : invoked'[o] > 0 => o \in Recorded
  BY <1>1, InvokedKept, Zenon
<1>4. PICK v \in Views : v = InitialView(pt)
  BY InitialViewTyped, Zenon
<1>5. CASE open # NoPoint /\ open.pt = pt
  <2>1. PICK n \in {NextHook(pt, 1, v)} : n = NextHook(pt, 1, v)
    BY Zenon
  <2>2. run' = [run EXCEPT ![c] = n] /\ open.next = 1
    BY <1>4, <1>5, <2>1, Zenon DEF Begin, Moves, Untouched
  <2>3. CallInv(n, Recorded)
    BY <2>1, NextHookInv, Zenon
  <2>4. FollowsStream(n, open)
    BY <1>5, <2>2, Zenon DEF HookInv, StreamInv, PointInv, FollowsStream
  <2> QED BY <1>1, <1>2, <1>3, <2>2, <2>3, <2>4, QuietMove, Zenon
<1>6. CASE ~(open # NoPoint /\ open.pt = pt)
  <2>1. PICK n \in {Doing("start", pt, 0, v)} : n = Doing("start", pt, 0, v)
    BY Zenon
  <2>2. run' = [run EXCEPT ![c] = n]
    BY <1>4, <1>6, <2>1, ZenonT(60) DEF Begin, Moves
  <2>3. n \in Doings /\ n.at = "start"
    BY <2>1, Zenon DEF Doing, Doings, Appending, NoSample, Sample
  <2>4. CallInv(n, Recorded) /\ FollowsStream(n, open)
    BY <2>3, Zenon DEF CallInv, FollowsStream
  <2> QED BY <1>1, <1>2, <1>3, <2>2, <2>4, QuietMove, Zenon
<1> QED BY <1>5, <1>6, Zenon

(* A plan of a reservation: the call keeps what it knows.                  *)
LEMMA PlanReserveInv ==
  ASSUME HookInv, TrackCursors, NEW c \in Calls, NEW s \in samples, PlanReserve(c, s)
  PROVE  HookInv'
<1>1. /\ UNCHANGED <<vars, hookStream>> /\ UNCHANGED invoked /\ UNCHANGED echoes
      /\ run[c].at = "reserve"
      /\ run' = [run EXCEPT ![c] = [run[c] EXCEPT !.at = "append-reserve", !.lease = s]]
  BY Zenon DEF PlanReserve, Moves
<1>2. c \notin echoes /\ echoes' = echoes \ {c}
  BY <1>1, NotEchoed, Zenon DEF HookInv, Appending
<1>3. invoked' \in [Paired -> Nat] /\ \A o \in Paired : invoked'[o] > 0 => o \in Recorded
  BY <1>1, InvokedKept, Zenon
<1>4. PICK r \in {run[c]} : CallInv(r, Recorded) /\ (AtCursor(c, "hook") => FollowsStream(r, open))
  BY <1>1, <1>2, CallOf, Zenon DEF HookInv
<1>5. s \in Sample
  BY Zenon DEF HookInv, StreamInv, OperationsTyped
<1>6. PICK n \in {[r EXCEPT !.at = "append-reserve", !.lease = s]} :
        /\ n = [r EXCEPT !.at = "append-reserve", !.lease = s]
        /\ run' = [run EXCEPT ![c] = n]
  BY <1>1, Zenon
<1>7. /\ n \in Doings /\ n.at = "append-reserve" /\ n.pt = r.pt /\ n.i = r.i /\ n.view = r.view
      /\ r.at = "reserve"
  BY <1>1, <1>4, <1>5, <1>6, ZenonT(60) DEF CallInv, Doings, Appending
<1>8. CallInv(n, Recorded)
  BY <1>4, <1>7, Zenon DEF CallInv
<1>9. AtCursor(c, "hook") => FollowsStream(n, open)
  BY <1>4, <1>7, Zenon DEF FollowsStream
<1> QED BY <1>1, <1>2, <1>3, <1>6, <1>8, <1>9, QuietMove, ZenonT(60)

(* A handler runs, for an invocation on record, and its answer is applied  *)
(* to the view.                                                            *)
LEMMA InvokeInv ==
  ASSUME HookInv, TrackCursors, NEW c \in Calls,
         NEW answer \in UNION {Answers(q.kind) : q \in Registry}, InvokeHandler(c, answer)
  PROVE  HookInv'
<1>1. /\ UNCHANGED <<vars, hookStream>> /\ UNCHANGED echoes /\ run[c].at = "invoke"
      /\ run' = [run EXCEPT ![c] = [run[c] EXCEPT !.at = "settle", !.answer = answer,
           !.view = ApplyAnswer(Ordered[run[c].pt][run[c].i], run[c].i, answer, run[c].view)]]
      /\ invoked' = [invoked EXCEPT ![Invocation(run[c].pt, run[c].i)] = @ + 1]
  BY Zenon DEF InvokeHandler, Moves
<1>2. c \notin echoes /\ echoes' = echoes \ {c}
  BY <1>1, NotEchoed, Zenon DEF HookInv, Appending
<1>3. PICK r \in {run[c]} : CallInv(r, Recorded)
  BY <1>1, <1>2, CallOf, Zenon DEF HookInv
<1>4. /\ r \in Doings /\ r.pt \in Points /\ r.i \in Nat /\ r.view \in Views /\ r.at = "invoke"
      /\ r.i \in Ordinals(r.pt) /\ Invocation(r.pt, r.i) \in Recorded
  BY <1>1, <1>3, Zenon DEF CallInv, Doings
<1>5. answer \in Replies
  <2>1. PICK q \in Registry : answer \in Answers(q.kind)
    BY Zenon
  <2>2. q.kind \in {"Transform", "Gate", "Observer"}
    BY RegistryAssumption, Zenon DEF ValidRegistry
  <2> QED BY <2>1, <2>2, Zenon DEF Answers, Replies
<1>6. invoked' \in [Paired -> Nat] /\ \A o \in Paired : invoked'[o] > 0 => o \in Recorded
  <2>1. PICK o \in Paired : o = Invocation(r.pt, r.i) /\ o \in Recorded
    BY <1>4, HookAssumption, Zenon DEF Invocation
  <2>2. invoked' = [invoked EXCEPT ![o] = @ + 1]
    BY <1>1, <1>3, <2>1, Zenon
  <2> QED BY <2>1, <2>2, InvokedOnRecord, Zenon DEF HookInv
<1>7. PICK w \in Views :
        /\ w = ApplyAnswer(Ordered[r.pt][r.i], r.i, answer, r.view)
        /\ answer \in Failing =>
             (FixedOutcome(Ordered[r.pt][r.i], HookPoint[r.pt], "Failed", "none") # NoOutcome => w.stop)
        /\ answer \notin Failing =>
             (FixedOutcome(Ordered[r.pt][r.i], HookPoint[r.pt], "Succeeded", answer) # NoOutcome => w.stop)
  BY <1>4, <1>5, AnswerStops, Zenon
<1>8. PICK n \in {[r EXCEPT !.at = "settle", !.answer = answer, !.view = w]} :
        /\ n = [r EXCEPT !.at = "settle", !.answer = answer, !.view = w]
        /\ run' = [run EXCEPT ![c] = n]
  BY <1>1, <1>3, <1>7, Zenon
<1>9. /\ n \in Doings /\ n.at = "settle" /\ n.pt = r.pt /\ n.i = r.i /\ n.view = w
      /\ n.answer = answer
  BY <1>4, <1>5, <1>8, ZenonT(60) DEF Doings, Appending
<1>10. FixesOutcome(n, IF answer \in Failing THEN "Failed" ELSE "Succeeded") => w.stop
  BY <1>7, <1>9, Zenon DEF FixesOutcome
<1>11. CallInv(n, Recorded) /\ FollowsStream(n, open)
  BY <1>4, <1>9, <1>10, Zenon DEF CallInv, FollowsStream
<1> QED BY <1>1, <1>2, <1>6, <1>8, <1>11, QuietMove, ZenonT(60)

(* A plan of a settlement, as the handler answered or for a cancellation   *)
(* or the deadline: the view is stopped if the fold will fix an outcome.   *)
LEMMA PlanTerminalInv ==
  ASSUME HookInv, TrackCursors, NEW c \in Calls, NEW s \in samples, PlanTerminal(c, s)
  PROVE  HookInv'
<1>1. /\ UNCHANGED <<vars, hookStream>> /\ UNCHANGED invoked /\ UNCHANGED echoes
      /\ run[c].at = "settle"
  BY Zenon DEF PlanTerminal
<1>2. c \notin echoes /\ echoes' = echoes \ {c}
  BY <1>1, NotEchoed, Zenon DEF HookInv, Appending
<1>3. invoked' \in [Paired -> Nat] /\ \A o \in Paired : invoked'[o] > 0 => o \in Recorded
  BY <1>1, InvokedKept, Zenon
<1>4. PICK r \in {run[c]} : CallInv(r, Recorded)
  BY <1>1, <1>2, CallOf, Zenon DEF HookInv
<1>5. /\ r \in Doings /\ r.pt \in Points /\ r.i \in Nat /\ r.view \in Views /\ r.at = "settle"
      /\ r.i \in Ordinals(r.pt) /\ Invocation(r.pt, r.i) \in Recorded /\ s \in Sample
      /\ FixesOutcome(r, IF r.answer \in Failing THEN "Failed" ELSE "Succeeded") => r.view.stop
  BY <1>1, <1>4, Zenon DEF CallInv, Doings, HookInv, StreamInv, OperationsTyped
<1>6. PICK ended \in {"TimedOut", "Cancelled", IF r.answer \in Failing THEN "Failed" ELSE "Succeeded"} :
        run' = [run EXCEPT ![c] = [r EXCEPT !.at = "append-terminal", !.ended = ended,
                  !.view = IF ended \in {"Cancelled", "TimedOut"}
                             THEN ApplyStop(Ordered[r.pt][r.i], ended, r.view) ELSE r.view,
                  !.sample = s]]
  <2> DEFINE e == IF ~BeforeDeadline(LeaseOf(Invocation(r.pt, r.i), EpochOf[c], r.lease), s)
                    THEN "TimedOut"
                  ELSE IF CancellationApplies(PointTask[r.pt], Invocation(r.pt, r.i)) THEN "Cancelled"
                  ELSE IF r.answer \in Failing THEN "Failed"
                  ELSE "Succeeded"
  <2>1. run' = [run EXCEPT ![c] = [r EXCEPT !.at = "append-terminal", !.ended = e,
                  !.view = IF e \in {"Cancelled", "TimedOut"}
                             THEN ApplyStop(Ordered[r.pt][r.i], e, r.view) ELSE r.view,
                  !.sample = s]]
    BY <1>4, Zenon DEF PlanTerminal, Moves
  <2>2. e \in {"TimedOut", "Cancelled", IF r.answer \in Failing THEN "Failed" ELSE "Succeeded"}
    BY Zenon
  <2> HIDE DEF e
  <2> QED BY <2>1, <2>2, Zenon
<1>7. ended \in Outcomes /\ ended # "none"
  BY <1>6, Zenon DEF Outcomes
<1>8. PICK w \in Views :
        /\ w = IF ended \in {"Cancelled", "TimedOut"}
                 THEN ApplyStop(Ordered[r.pt][r.i], ended, r.view) ELSE r.view
        /\ FixesOutcome(r, ended) => w.stop
  <2>1. CASE ended \in {"Cancelled", "TimedOut"}
    <3>1. PICK w \in Views :
            /\ w = ApplyStop(Ordered[r.pt][r.i], ended, r.view)
            /\ FixedOutcome(Ordered[r.pt][r.i], HookPoint[r.pt], ended, "none") # NoOutcome => w.stop
      BY <1>5, <2>1, EndingStops, Zenon
    <3>2. ended # "Succeeded"
      BY <2>1, Zenon
    <3> QED BY <2>1, <3>1, <3>2, Zenon DEF FixesOutcome
  <2>2. CASE ended \notin {"Cancelled", "TimedOut"}
    BY <1>5, <1>6, <2>2, Zenon
  <2> QED BY <2>1, <2>2, Zenon
<1>9. PICK n \in {[r EXCEPT !.at = "append-terminal", !.ended = ended, !.view = w, !.sample = s]} :
        /\ n = [r EXCEPT !.at = "append-terminal", !.ended = ended, !.view = w, !.sample = s]
        /\ run' = [run EXCEPT ![c] = n]
  BY <1>6, <1>8, Zenon
<1>10. /\ n \in Doings /\ n.at = "append-terminal" /\ n.pt = r.pt /\ n.i = r.i /\ n.view = w
       /\ n.answer = r.answer /\ n.ended = ended
  <2>1. PICK m \in {[r EXCEPT !.at = "append-terminal", !.ended = ended]} :
          m = [r EXCEPT !.at = "append-terminal", !.ended = ended]
    BY Zenon
  <2>2. /\ m \in Doings /\ m.at = "append-terminal" /\ m.pt = r.pt /\ m.i = r.i
        /\ m.answer = r.answer /\ m.ended = ended
    BY <1>5, <1>7, <2>1, ZenonT(60) DEF Doings, Appending
  <2>3. n = [m EXCEPT !.view = w, !.sample = s]
    BY <1>9, <2>1, Zenon
  <2> QED BY <1>5, <2>2, <2>3, Zenon DEF Doings
<1>11. FixesOutcome(n, ended) => w.stop
  BY <1>8, <1>10, Zenon DEF FixesOutcome
<1>12. CallInv(n, Recorded) /\ FollowsStream(n, open)
  BY <1>5, <1>7, <1>10, <1>11, Zenon DEF CallInv, FollowsStream
<1> QED BY <1>1, <1>2, <1>3, <1>9, <1>12, QuietMove, ZenonT(60)

(* A plan of a recovery, for any invocation on record.                     *)
LEMMA PlanRecoveryInv ==
  ASSUME HookInv, TrackCursors, NEW c \in Calls, NEW o \in Paired, NEW s \in samples,
         PlanRecovery(c, o, s)
  PROVE  HookInv'
<1>1. /\ UNCHANGED <<vars, hookStream>> /\ UNCHANGED invoked /\ UNCHANGED echoes
      /\ run[c].at = "idle" /\ o \in Recorded
      /\ run' = [run EXCEPT ![c] =
           [Doing("append-terminal", PointOf(o), OrdinalOf(o), InitialView(PointOf(o)))
              EXCEPT !.ended = "TimedOut", !.sample = s, !.recovery = TRUE]]
  BY Zenon DEF PlanRecovery, Moves
<1>2. echoes' = echoes \ {c}
  BY <1>1, NotEchoed, Zenon DEF HookInv, Appending
<1>3. invoked' \in [Paired -> Nat] /\ \A x \in Paired : invoked'[x] > 0 => x \in Recorded
  BY <1>1, InvokedKept, Zenon
<1>4. PICK pt \in Points : pt = PointOf(o) /\ \E i \in Ordinals(pt) : Invocation(pt, i) = o
  <2>1. \E qt \in Points : \E i \in Ordinals(qt) : Invocation(qt, i) = o
    BY <1>1, Zenon DEF HookInv, StreamInv, PointInv
  <2> QED BY <2>1, Zenon DEF PointOf
<1>5. PICK i \in Ordinals(pt) : i = OrdinalOf(o) /\ Invocation(pt, i) = o
  BY <1>4, Zenon DEF OrdinalOf
<1>6. PICK v \in Views : v = InitialView(pt)
  BY InitialViewTyped, Zenon
<1>7. i \in Nat /\ s \in Sample /\ NoSample \in Sample
  BY <1>5, OrdinalsAreNumbers, Zenon DEF HookInv, StreamInv, OperationsTyped, NoSample, Sample
<1>8. PICK d \in {Doing("append-terminal", pt, i, v)} :
        d \in Doings /\ d.at = "append-terminal" /\ d.pt = pt /\ d.i = i
  BY <1>7, Zenon DEF Doing, Doings, Appending
<1>9. PICK n \in {[d EXCEPT !.ended = "TimedOut", !.sample = s, !.recovery = TRUE]} :
        /\ n = [d EXCEPT !.ended = "TimedOut", !.sample = s, !.recovery = TRUE]
        /\ run' = [run EXCEPT ![c] = n]
  BY <1>1, <1>4, <1>5, <1>6, <1>8, ZenonT(60)
<1>10. /\ n \in Doings /\ n.at = "append-terminal" /\ n.pt = pt /\ n.i = i /\ n.ended = "TimedOut"
       /\ n.recovery = TRUE
  BY <1>7, <1>8, <1>9, Zenon DEF Doings, Outcomes
<1>11. CallInv(n, Recorded) /\ FollowsStream(n, open)
  BY <1>1, <1>5, <1>10, Zenon DEF CallInv, FollowsStream
<1> QED BY <1>1, <1>2, <1>3, <1>9, <1>11, QuietMove, ZenonT(60)

(* A call that finds its event on record is where the append has led; one  *)
(* that ends is nowhere.                                                   *)
LEMMA EchoInv ==
  ASSUME HookInv, TrackCursors, NEW c \in Calls, Echo(c)
  PROVE  HookInv'
<1>1. /\ UNCHANGED <<vars, hookStream>> /\ UNCHANGED invoked /\ echoes' = echoes \ {c}
      /\ c \in echoes /\ run' = [run EXCEPT ![c] = AfterAppend(run[c])]
  BY Zenon DEF Echo
<1>2. invoked' \in [Paired -> Nat] /\ \A x \in Paired : invoked'[x] > 0 => x \in Recorded
  BY <1>1, InvokedKept, Zenon
<1>3. PICK n \in {AfterAppend(run[c])} : n = Position(c) /\ run' = [run EXCEPT ![c] = n]
  BY <1>1, Zenon DEF Position
<1>4. n = Idle \/ CallInv(n, Recorded)
  BY <1>3, Zenon DEF HookInv, CallsInv
<1>5. AtCursor(c, "hook") => FollowsStream(n, open)
  BY <1>3, Zenon DEF HookInv, CallsInv
<1> QED BY <1>1, <1>2, <1>3, <1>4, <1>5, QuietMove, ZenonT(60)

(* A call ends, with an error or with its process.                         *)
LEMMA EndInv ==
  ASSUME HookInv, TrackCursors, NEW c \in Calls, EndCall(c)
  PROVE  HookInv'
<1>1. /\ UNCHANGED <<vars, hookStream>> /\ UNCHANGED invoked /\ echoes' = echoes \ {c}
      /\ run' = [run EXCEPT ![c] = Idle]
  BY Zenon DEF EndCall
<1>2. invoked' \in [Paired -> Nat] /\ \A x \in Paired : invoked'[x] > 0 => x \in Recorded
  BY <1>1, InvokedKept, Zenon
<1>3. FollowsStream(Idle, open)
  BY Zenon DEF FollowsStream, Idle
<1> QED BY <1>1, <1>2, <1>3, QuietMove, ZenonT(60)

-----------------------------------------------------------------------------
(* An append, once the streams are known to keep their invariant: the call *)
(* and those with the same bytes go on, and those that go on to a hook     *)
(* without a stop still follow the stream.                                 *)
LEMMA AppendInv ==
  ASSUME HookInv, TrackCursors, NEW c \in Calls, NEW at \in Appending, NEW streams,
         Appends(c, at, streams), StreamInv', Recorded \subseteq Recorded',
         at = "append-reserve" => Invocation(run[c].pt, run[c].i) \in Recorded',
         /\ ~run[c].view.stop /\ at \in {"start", "append-terminal", "late", "rejected"}
         /\ at = "append-terminal" => ~run[c].recovery
         /\ open' # NoPoint /\ open'.pt = run[c].pt
         => open'.outcome = NoOutcome
  PROVE  HookInv'
<1>1. c \notin echoes /\ run[c].at = at /\ at # "idle"
  BY Zenon DEF Appends, Moves, Appending
<1>2. CallInv(run[c], Recorded)
  BY <1>1, CallOf, Zenon DEF HookInv
<1>3. PICK r \in {run[c]}, recorded \in {Recorded}, later \in {Recorded'}, n \in {AfterAppend(run[c])} :
        /\ CallInv(r, recorded) /\ recorded \subseteq later /\ r.at \in Appending
        /\ r.at = "append-reserve" => Invocation(r.pt, r.i) \in later
        /\ n = AfterAppend(r)
  BY <1>1, <1>2, Zenon
<1>4. n.at \in {"reserve", "append-reserve", "late", "rejected"} /\ ~n.view.stop =>
        /\ n.pt = r.pt /\ ~r.view.stop /\ (r.at = "append-terminal" => ~r.recovery)
        /\ r.at \in {"start", "append-terminal", "late", "rejected"}
  BY <1>3, AfterAppendInv, Zenon
<1>5. FollowsStream(n, open')
  BY <1>1, <1>3, <1>4, Zenon DEF FollowsStream
<1>6. FollowsStream(AfterAppend(run[c]), open')
  BY <1>3, <1>5, Zenon
<1>7. CallsInv'
  BY <1>6, AppendCalls, Zenon DEF HookInv
<1> QED BY <1>7, Zenon DEF HookInv

(* The call that appends: what its record is.                              *)
LEMMA Appender ==
  ASSUME HookInv, NEW c \in Calls, NEW at \in Appending, NEW streams, Appends(c, at, streams)
  PROVE  /\ run[c].at = at /\ run[c] \in Doings /\ CallInv(run[c], Recorded)
         /\ FollowsStream(run[c], open)
<1>1. c \notin echoes /\ run[c].at = at /\ at # "idle" /\ AtCursor(c, "hook")
  BY Zenon DEF Appends, Moves, Appending
<1>2. CallInv(run[c], Recorded) /\ FollowsStream(run[c], open)
  BY <1>1, CallOf, Zenon DEF HookInv
<1> QED BY <1>1, <1>2, Zenon DEF CallInv

(* hook-point-started.                                                     *)
LEMMA AppendStartedInv ==
  ASSUME HookInv, TrackCursors, NEW c \in Calls, AppendPointStarted(c)
  PROVE  HookInv'
<1>1. "start" \in Appending /\ Appends(c, "start", {"hook"})
  BY Zenon DEF AppendPointStarted, AppendsFact, Appending
<1>2. PICK pt \in Points : pt = run[c].pt
  BY <1>1, Appender, Zenon DEF Doings
<1>3. /\ open = NoPoint /\ pt \notin DOMAIN finalized
      /\ open' = [pt |-> pt, next |-> 1, active |-> NoTask, input |-> 0, allows |-> 0,
                  outcome |-> NoOutcome, bareOutcome |-> NoOutcome]
      /\ UNCHANGED <<ops, clock, samples, invocations, finalized, invoked>>
  BY <1>2, ZenonT(60) DEF AppendPointStarted, vars, controlVars, processVars
<1>4. StreamInv' /\ open'.outcome = NoOutcome
  BY <1>3, StartedStream, Zenon DEF HookInv
<1>5. Recorded' = Recorded
  BY <1>3, Zenon DEF Recorded
<1> QED BY <1>1, <1>4, <1>5, AppendInv, Zenon

(* hook-invocation-skipped: the call has a stop.                           *)
LEMMA AppendSkippedInv ==
  ASSUME HookInv, TrackCursors, NEW c \in Calls, AppendSkipped(c)
  PROVE  HookInv'
<1>1. "skip" \in Appending /\ Appends(c, "skip", {"hook"})
  BY Zenon DEF AppendSkipped, AppendsFact, Appending
<1>2. /\ open # NoPoint /\ open.active = NoTask /\ open' = [open EXCEPT !.next = @ + 1]
      /\ UNCHANGED <<ops, clock, samples, invocations, finalized, invoked>>
  BY Zenon DEF AppendSkipped, vars, controlVars, processVars
<1>3. StreamInv'
  BY <1>2, SkippedStream, Zenon DEF HookInv
<1>4. Recorded' = Recorded
  BY <1>2, Zenon DEF Recorded
<1>5. "skip" \notin {"start", "append-terminal", "late", "rejected"} /\ "skip" # "append-reserve"
  BY Zenon
<1> QED BY <1>1, <1>3, <1>4, <1>5, AppendInv, ZenonT(60)

(* A late result or a rejection: a fact, which the fold of the point       *)
(* passes over.                                                            *)
LEMMA AppendFactInv ==
  ASSUME HookInv, TrackCursors, NEW c \in Calls, AppendLateResult(c) \/ AppendMessageRejected(c)
  PROVE  HookInv'
<1>1. PICK at \in {"late", "rejected"} : Appends(c, at, {"hook"})
  BY Zenon DEF AppendLateResult, AppendMessageRejected, AppendsFact
<1>2. /\ UNCHANGED <<ops, clock, samples>> /\ UNCHANGED <<open, invocations, finalized>>
      /\ UNCHANGED invoked
  BY Zenon DEF AppendLateResult, AppendMessageRejected, vars, controlVars, processVars
<1>3. OperationsTyped /\ clock' \in Sample /\ samples' \subseteq Sample
  BY <1>2, Zenon DEF HookInv, StreamInv, OperationsTyped
<1>4. OperationsTyped' /\ PairsUntouched
  BY <1>2, <1>3, NoOperation, Zenon
<1>5. invoked' \in [Paired -> Nat] /\ \A x \in Paired : invoked'[x] > 0 => x \in Recorded
  BY <1>2, InvokedKept, Zenon
<1>6. StreamInv'
  BY <1>2, <1>4, <1>5, StreamKept, Zenon DEF HookInv
<1>7. Recorded' = Recorded
  BY <1>2, Zenon DEF Recorded
<1>8. at \in Appending /\ at # "append-reserve"
  BY Zenon DEF Appending
<1>9. run[c].at = at /\ FollowsStream(run[c], open)
  BY <1>1, <1>8, Appender, ZenonT(60)
<1>10. ~run[c].view.stop /\ open # NoPoint /\ open.pt = run[c].pt => open.outcome = NoOutcome
  BY <1>9, Zenon DEF FollowsStream
<1> QED BY <1>1, <1>2, <1>6, <1>7, <1>8, <1>10, AppendInv, ZenonT(60)

(* hook-point-finalized.                                                   *)
LEMMA AppendFinalizedInv ==
  ASSUME HookInv, TrackCursors, NEW c \in Calls, AppendPointFinalized(c)
  PROVE  HookInv'
<1>1. "finalize" \in Appending /\ Appends(c, "finalize", {"hook"})
  BY Zenon DEF AppendPointFinalized, AppendsFact, Appending
<1>2. /\ open # NoPoint /\ open.active = NoTask /\ open' = NoPoint
      /\ DOMAIN finalized' = DOMAIN finalized \cup {open.pt}
      /\ UNCHANGED <<ops, clock, samples, invocations, invoked>>
  BY Zenon DEF AppendPointFinalized, vars, controlVars, processVars
<1>3. StreamInv'
  BY <1>2, FinalizedStream, ZenonT(60) DEF HookInv
<1>4. Recorded' = Recorded
  BY <1>2, Zenon DEF Recorded
<1> QED BY <1>1, <1>2, <1>3, <1>4, AppendInv, Zenon

(* The reservation pair: the call follows the stream, so the point has no  *)
(* outcome.                                                                *)
LEMMA AppendReserveInv ==
  ASSUME HookInv, TrackCursors, NEW c \in Calls, AppendReservePair(c)
  PROVE  HookInv'
<1>1. /\ "append-reserve" \in Appending
      /\ Appends(c, "append-reserve", {"hook", "control", "lifecycle"})
  BY Zenon DEF AppendReservePair, AppendsPair, Appending
<1>2. PICK r \in {run[c]} :
        /\ r.at = "append-reserve" /\ r \in Doings /\ CallInv(r, Recorded) /\ FollowsStream(r, open)
  BY <1>1, Appender, Zenon
<1>3. /\ r.pt \in Points /\ r.i \in Ordinals(r.pt) /\ r.view.input \in Nat /\ r.lease.wall \in Nat
      /\ ~r.view.stop
  BY <1>2, Zenon DEF CallInv, Doings, Views, Sample
<1>4. PICK o \in Paired : o = Invocation(r.pt, r.i)
  BY <1>3, HookAssumption, Zenon DEF Invocation
<1>5. /\ FoldReserved(r, o) /\ o \notin Operating
      /\ RecordReservation(o, Owner, PointTask[r.pt], PointDeadline[r.pt], EpochOf[c], r.lease.wall)
      /\ UNCHANGED <<clock, samples, finalized, invoked>>
  BY <1>2, <1>4, Zenon DEF AppendReservePair, PrepareReservation, processVars
<1>6. /\ PointTask[r.pt] \in Parents /\ PointDeadline[r.pt] \in Nat /\ EpochOf[c] \in Processes
      /\ Owner \in Actors /\ OperationsTyped
  BY <1>3, HookAssumption, CapabilityAssumption, Zenon DEF HookInv, StreamInv
<1>7. /\ Operating' = Operating \cup {o} /\ (\A x \in Operating : ops'[x] = ops[x])
      /\ ops'[o].outcome = "Pending" /\ OperationsTyped'
  <2>1. PICK t \in Parents, d \in Nat, p \in Processes, wall \in Nat :
          t = PointTask[r.pt] /\ d = PointDeadline[r.pt] /\ p = EpochOf[c] /\ wall = r.lease.wall
    BY <1>3, <1>6, Zenon
  <2>2. RecordReservation(o, Owner, t, d, p, wall) /\ UNCHANGED <<clock, samples>>
    BY <1>5, <2>1, Zenon
  <2> QED BY <1>5, <1>6, <2>2, ReservedRecord, Zenon
<1>8. open.outcome = NoOutcome
  BY <1>2, <1>3, <1>5, Zenon DEF FollowsStream, FoldReserved
<1>9. StreamInv' /\ Recorded' = Recorded \cup {o}
  BY <1>3, <1>4, <1>5, <1>7, <1>8, ReservedStream, Zenon DEF HookInv
<1>10. Recorded \subseteq Recorded' /\ Invocation(run[c].pt, run[c].i) \in Recorded'
  BY <1>2, <1>4, <1>9, Zenon
<1>11. "append-reserve" \notin {"start", "append-terminal", "late", "rejected"}
  BY Zenon
<1> QED BY <1>1, <1>9, <1>10, <1>11, AppendInv, Zenon

(* The settlement pair, by the call that reserved or by a recovery.        *)
LEMMA AppendTerminalInv ==
  ASSUME HookInv, TrackCursors, NEW c \in Calls, AppendTerminalPair(c)
  PROVE  HookInv'
<1>1. /\ "append-terminal" \in Appending
      /\ Appends(c, "append-terminal", {"hook", "control", "lifecycle"})
  BY Zenon DEF AppendTerminalPair, AppendsPair, Appending
<1>2. PICK r \in {run[c]} : r.at = "append-terminal" /\ r \in Doings /\ CallInv(r, Recorded)
  BY <1>1, Appender, Zenon
<1>3. /\ r.pt \in Points /\ r.i \in Ordinals(r.pt) /\ r.i \in Nat /\ r.ended \in Outcomes
      /\ r.answer \in Replies \cup {"none"} /\ Invocation(r.pt, r.i) \in Recorded
      /\ ~r.recovery /\ FixesOutcome(r, r.ended) => r.view.stop
  BY <1>2, Zenon DEF CallInv, Doings
<1>4. PICK o \in Paired : o = Invocation(r.pt, r.i) /\ o \in Recorded
  BY <1>3, HookAssumption, Zenon DEF Invocation
<1>5. PICK meter \in {1, NoMeter}, ks \in SUBSET Callbacks :
        /\ r.ended = "TimedOut" => meter = NoMeter
        /\ RecordSettlement(o, r.ended, meter, ks)
  <2>1. {CHOOSE k \in Callbacks : TRUE} \in SUBSET Callbacks /\ {} \in SUBSET Callbacks
    BY HookAssumption, Zenon
  <2>2. RecordSettlement(o, r.ended, IF r.ended # "TimedOut" THEN 1 ELSE NoMeter,
                         IF r.ended # "TimedOut" THEN {CHOOSE k \in Callbacks : TRUE} ELSE {})
    BY <1>2, <1>4, Zenon DEF AppendTerminalPair
  <2>3. CASE r.ended = "TimedOut"
    BY <2>1, <2>2, <2>3, Zenon
  <2>4. CASE r.ended # "TimedOut"
    BY <2>1, <2>2, <2>4, Zenon
  <2> QED BY <2>3, <2>4, Zenon
<1>6. FoldTerminal(r, o) /\ UNCHANGED <<clock, samples, finalized, invoked>>
  BY <1>2, <1>4, Zenon DEF AppendTerminalPair, processVars
<1>7. o \in Operating /\ ops[o] \in Operation /\ OperationsTyped
  BY <1>4, Zenon DEF HookInv, StreamInv, HookPairsAgree, OperationsTyped
<1>8. PICK n \in 0..Envelope : n = Accounted(meter) /\ (r.ended = "TimedOut" => n = Envelope)
  <2>1. Accounted(meter) \in 0..Envelope /\ (meter = NoMeter => Accounted(meter) = Envelope)
    BY ControlAssumption, CapabilityAssumption, HookAssumption, SMTT(60) DEF Accounted
  <2> QED BY <1>5, <2>1, ZenonT(60)
<1>9. /\ Operating' = Operating /\ \A x \in Operating : x # o => ops'[x] = ops[x]
      /\ ops'[o] = WithSettlement(ops[o], r.ended, n, ks)
  BY <1>5, <1>7, <1>8, Zenon DEF RecordSettlement, Operating, WithSettlement
<1>10. ops'[o] \in Operation /\ ops'[o].outcome = r.ended /\ ops'[o].accounted = n
  <2>1. PICK p \in Operation, q \in {ops'[o]}, outcome \in Outcomes :
          /\ p = ops[o] /\ outcome = r.ended /\ q = WithSettlement(p, outcome, n, ks)
    BY <1>3, <1>7, <1>9, ZenonT(60)
  <2>2. q \in Operation /\ q.outcome = outcome /\ q.accounted = n
    <3>1. SettledFrom(WithSettlement(p, outcome, n, ks), p, outcome, n)
      BY SettledRecord, Zenon
    <3> QED BY <2>1, <3>1, Zenon DEF SettledFrom
  <2> QED BY <2>1, <2>2, Zenon
<1>11. OperationsTyped'
  BY <1>6, <1>7, <1>9, <1>10, Zenon DEF OperationsTyped
<1>12. /\ StreamInv' /\ Recorded' = Recorded
       /\ ~FixesOutcome(r, r.ended) => open'.outcome = NoOutcome
  BY <1>3, <1>4, <1>6, <1>8, <1>9, <1>10, <1>11, TerminalStream, ZenonT(60) DEF HookInv
<1>13. "append-terminal" # "append-reserve"
  BY Zenon
<1> QED BY <1>1, <1>2, <1>3, <1>12, <1>13, AppendInv, ZenonT(60)

-----------------------------------------------------------------------------
(* The step of another component: no invocation, no call, and of the       *)
(* operations of pairs nothing that the hook stream tells.                 *)
LEMMA OthersInv ==
  ASSUME HookInv, TrackCursors, UNCHANGED <<open, invocations, finalized, invoked, run, echoes>>,
         OperationsTyped', PairsUntouched
  PROVE  HookInv'
<1>1. invoked' \in [Paired -> Nat] /\ \A x \in Paired : invoked'[x] > 0 => x \in Recorded
  BY InvokedKept, Zenon
<1>2. StreamInv'
  BY <1>1, StreamKept, Zenon DEF HookInv
<1>3. CallsInv'
  BY RestingCalls, Zenon DEF HookInv
<1> QED BY <1>2, <1>3, Zenon DEF HookInv

(* A new run: no hook, no operation, no call.                              *)
LEMMA HookInitInv ==
  ASSUME HookRuntimeInit
  PROVE  HookInv
<1>1. /\ DOMAIN ops = {} /\ clock \in Sample /\ samples \subseteq Sample
      /\ open = NoPoint /\ Recorded = {}
  BY ControlAssumption, SMTT(60) DEF HookRuntimeInit, HookInit, Init, ControlInit, Recorded, Sample, NoSample
<1>2. run = [c \in Calls |-> Idle] /\ moved = [c \in Calls |-> {}] /\ echoes = {}
      /\ invoked = [o \in Paired |-> 0]
  BY Zenon DEF HookRuntimeInit, HookInit
<1>3. OperationsTyped /\ HookTypeOK
  BY <1>1, <1>2, Zenon DEF OperationsTyped, Operating, HookTypeOK
<1>4. HookPairsAgree
  BY <1>1, <1>2, SMTT(60) DEF HookPairsAgree, Operating
<1>5. \A pt : Of(pt) = {}
  BY <1>1, Zenon DEF Of
<1>6. PointInv /\ NothingRunsAfterStop
  BY <1>1, <1>5, Zenon DEF PointInv, NothingRunsAfterStop
<1>7. CallsInv
  <2>1. \A c \in Calls : Position(c) = Idle
    BY <1>2, Zenon DEF Position
  <2>2. FollowsStream(Idle, open)
    BY Zenon DEF FollowsStream, Idle
  <2> QED BY <1>2, <2>1, <2>2, Zenon DEF CallsInv
<1> QED BY <1>3, <1>4, <1>6, <1>7, Zenon DEF HookInv, StreamInv

(* Every step of every actor.                                              *)
LEMMA HookNextInv ==
  ASSUME HookInv, [HookNext]_allVars
  PROVE  HookInv'
<1>0. OperationsTyped /\ clock \in Sample /\ samples \subseteq Sample
  BY Zenon DEF HookInv, StreamInv, OperationsTyped
<1>1. ASSUME NEW c \in Calls, HookStep(c), TrackCursors PROVE HookInv'
  <2>1. CASE \/ \E pt \in Points : Begin(c, pt)
             \/ \E s \in samples : PlanReserve(c, s) \/ PlanTerminal(c, s)
             \/ \E answer \in UNION {Answers(q.kind) : q \in Registry} : InvokeHandler(c, answer)
             \/ \E o \in Paired, s \in samples : PlanRecovery(c, o, s)
             \/ Echo(c) \/ EndCall(c)
    BY <1>1, <2>1, BeginInv, PlanReserveInv, PlanTerminalInv, InvokeInv, PlanRecoveryInv, EchoInv,
       EndInv, ZenonT(60)
  <2>2. CASE \/ AppendPointStarted(c) \/ AppendReservePair(c) \/ AppendTerminalPair(c)
             \/ AppendSkipped(c) \/ AppendLateResult(c) \/ AppendMessageRejected(c)
             \/ AppendPointFinalized(c)
    BY <1>1, <2>2, AppendStartedInv, AppendReserveInv, AppendTerminalInv, AppendSkippedInv,
       AppendFactInv, AppendFinalizedInv, ZenonT(60)
  <2> QED BY <1>1, <2>1, <2>2, Zenon DEF HookStep
<1>2. CASE InitializeHookStream /\ TrackCursors
  <2>1. UNCHANGED <<ops, clock, samples>>
        /\ UNCHANGED <<open, invocations, finalized, invoked, run, echoes>>
    BY <1>2, Zenon DEF InitializeHookStream, vars, controlVars, processVars
  <2>2. OperationsTyped' /\ PairsUntouched
    BY <1>0, <2>1, NoOperation, Zenon
  <2> QED BY <1>2, <2>1, <2>2, OthersInv, Zenon
<1>3. CASE Next /\ UNCHANGED hookVars /\ TrackCursors
  <2>1. UNCHANGED <<open, invocations, finalized, invoked, run, echoes>>
    BY <1>3, Zenon DEF hookVars, hookStream
  <2>2. CASE ControlStep
    BY <1>0, <1>3, <2>1, <2>2, ControlKeepsPairs, OthersInv, ZenonT(60)
  <2>3. CASE UNCHANGED <<processVars, controlVars>>
    <3>1. UNCHANGED <<ops, clock, samples>>
      BY <2>3, Zenon DEF processVars, controlVars
    <3>2. OperationsTyped' /\ PairsUntouched
      BY <1>0, <3>1, NoOperation, Zenon
    <3> QED BY <1>3, <2>1, <3>2, OthersInv, Zenon
  <2> QED BY <1>3, <2>2, <2>3, Zenon DEF Next
<1>4. CASE UNCHANGED allVars
  <2>1. UNCHANGED <<ops, clock, samples>> /\ UNCHANGED hookStream
        /\ UNCHANGED <<invoked, run, echoes, moved>>
    BY <1>4, Zenon DEF allVars, vars, controlVars, processVars, hookVars
  <2>2. UNCHANGED <<open, invocations, finalized>>
    BY <2>1, Zenon DEF hookStream
  <2>3. OperationsTyped' /\ PairsUntouched
    BY <1>0, <2>1, NoOperation, Zenon
  <2>4. invoked' \in [Paired -> Nat] /\ \A x \in Paired : invoked'[x] > 0 => x \in Recorded
    BY <2>1, InvokedKept, Zenon
  <2>5. StreamInv'
    BY <2>2, <2>3, <2>4, StreamKept, Zenon DEF HookInv
  <2>6. /\ Recorded' = Recorded /\ \A c : Position(c)' = Position(c)
        /\ \A c : AtCursor(c, "hook")' <=> AtCursor(c, "hook")
    BY <2>1, <2>2, Zenon DEF Recorded, Position, AtCursor
  <2>7. CallsInv'
    BY <2>1, <2>2, <2>6, Zenon DEF HookInv, CallsInv
  <2> QED BY <2>5, <2>7, Zenon DEF HookInv
<1> QED BY <1>1, <1>2, <1>3, <1>4, ZenonT(60) DEF HookNext

(* The hook runtime keeps its invariant in every interleaving of calls,    *)
(* ends of calls, recoveries and steps of the rest of the kernel.          *)
THEOREM HookCorrect == HookSpec => []HookInv
<1>1. HookRuntimeInit => HookInv
  BY HookInitInv, Zenon
<1>2. HookInv /\ [HookNext]_allVars => HookInv'
  BY HookNextInv, Zenon
<1> QED BY <1>1, <1>2, PTL DEF HookSpec

(* The hook and the control stream tell one story of every invocation:     *)
(* what append_hook_reserve_pair and append_hook_terminal_pair are for.    *)
THEOREM HookStreamsAgree == HookSpec => []HookPairsAgree
<1>1. HookInv => HookPairsAgree
  BY Zenon DEF HookInv, StreamInv
<1> QED BY <1>1, HookCorrect, PTL

(* Behind a hook that stopped its point nothing is reserved or run, by any *)
(* call of execute_hook_point.                                             *)
THEOREM NothingBehindAStop == HookSpec => []NothingRunsAfterStop
<1>1. HookInv => NothingRunsAfterStop
  BY Zenon DEF HookInv, StreamInv
<1> QED BY <1>1, HookCorrect, PTL
=============================================================================
