---------------------------- MODULE EffectOutcome ----------------------------
(***************************************************************************)
(* What the effect runtime promises about each effect, without streams,    *)
(* cursors, leases or processes: it is attempted at most once, never       *)
(* before it is requested and never after a verdict that says how it       *)
(* ended; such a verdict is true; and a verdict stands, except that an     *)
(* uncertain one is resolved once.                                         *)
(***************************************************************************)
EXTENDS Naturals

CONSTANT Effects

VARIABLES
  verdict,   \* what is on record about the effect
  attempts,  \* how often it was attempted
  happened   \* what it did to the world

outcomeVars == <<verdict, attempts, happened>>

OutcomeInit ==
  /\ verdict = [e \in Effects |-> "None"]
  /\ attempts = [e \in Effects |-> 0]
  /\ happened = [e \in Effects |-> "Untouched"]

Request(e) ==
  /\ verdict[e] = "None"
  /\ verdict' = [verdict EXCEPT ![e] = "Open"]
  /\ UNCHANGED <<attempts, happened>>

Attempt(e, w) ==
  /\ attempts[e] = 0
  /\ verdict[e] \in {"Open", "Uncertain", "Resolved"}
  /\ attempts' = [attempts EXCEPT ![e] = 1]
  /\ happened' = [happened EXCEPT ![e] = w]
  /\ UNCHANGED verdict

Decide(e, v) ==
  /\ verdict[e] = "Open"
  /\ v = "Applied" => happened[e] = "Applied"
  /\ v = "NotApplied" => happened[e] = "Untouched"
  /\ verdict' = [verdict EXCEPT ![e] = v]
  /\ UNCHANGED <<attempts, happened>>

Resolve(e) ==
  /\ verdict[e] = "Uncertain"
  /\ verdict' = [verdict EXCEPT ![e] = "Resolved"]
  /\ UNCHANGED <<attempts, happened>>

OutcomeNext ==
  \E e \in Effects :
    \/ Request(e)
    \/ \E w \in {"Untouched", "Applied", "Partial"} : Attempt(e, w)
    \/ \E v \in {"Applied", "NotApplied", "Uncertain"} : Decide(e, v)
    \/ Resolve(e)

OutcomeSpec == OutcomeInit /\ [][OutcomeNext]_outcomeVars
=============================================================================
