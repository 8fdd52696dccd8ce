---------------------------- MODULE MCEffectRuntime ----------------------------
(* TLC instances of EffectRuntime: the owner of the run holds a grant for  *)
(* the effect's operation; the budget has room for one operation, or for   *)
(* the effect and an ordinary operation next to it.                        *)
EXTENDS EffectRuntime, TLC

MCInitialGrants ==
  [id \in GrantIds |->
     [issuer |-> Owner, subject |-> Owner, parent |-> NoGrant, task |-> CHOOSE t \in Tasks : TRUE,
      operations |-> {Invoke}, notBefore |-> 0, expires |-> MaxTime + 1,
      usage |-> Envelope, delegable |-> FALSE, depth |-> 0]]

OneAtATime == [a \in {RunScope, Owner} \cup Tasks |-> Envelope]

TwoAtATime == [a \in {RunScope, Owner} \cup Tasks |-> 2 * Envelope]

ProcessSymmetry == Permutations(Processes)
===============================================================================
