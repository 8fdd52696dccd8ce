---------------------------- MODULE MCHookRuntime ----------------------------
(* TLC instances of HookRuntime: one point before a proposal is admitted,  *)
(* with registries that differ in their hooks.                             *)
EXTENDS HookRuntime

MCInitialGrants ==
  [id \in GrantIds |->
     [issuer |-> Owner, subject |-> Owner, parent |-> NoGrant, task |-> CHOOSE t \in Tasks : TRUE,
      operations |-> {Invoke}, notBefore |-> 0, expires |-> MaxTime + 1,
      usage |-> Envelope, delegable |-> FALSE, depth |-> 0]]

Room == [a \in {RunScope, Owner} \cup Tasks |-> 2 * Envelope * Cardinality(Paired)]

Hook(id, kind, required, failClosed) ==
  [id |-> id, kind |-> kind, points |-> {"BeforeProposalAdmission"}, priority |-> 5 - id,
   required |-> required, failClosed |-> failClosed]

(* A transformation, a required and an optional gate, an observer that     *)
(* fails closed.                                                           *)
AllKinds ==
  {Hook(1, "Transform", FALSE, FALSE), Hook(2, "Gate", TRUE, FALSE),
   Hook(3, "Gate", FALSE, FALSE), Hook(4, "Observer", FALSE, TRUE)}

GateOnly == {Hook(2, "Gate", TRUE, FALSE)}

OnePoint == [pt \in Points |-> "BeforeProposalAdmission"]

MCInvocations == [pt \in Points |-> [i \in 1..Cardinality(Registry) |-> <<"o1", "o2", "o3", "o4">>[i]]]

MCPointTask == [pt \in Points |-> CHOOSE t \in Tasks : TRUE]

MCPointDeadline == [pt \in Points |-> MaxTime]

OneEpoch == [c \in Calls |-> CHOOSE p \in Processes : TRUE]
===============================================================================
