--------------------------- MODULE MCRuntimeControl ---------------------------
(* TLC instance of RuntimeControl: the owner has granted `ann' the one    *)
(* operation of the retained contract; budgets of the run, of `ann' and of *)
(* every task.                                                             *)
EXTENDS RuntimeControl

MCInitialGrants ==
  [id \in GrantIds |->
     [issuer |-> Owner, subject |-> "ann", parent |-> NoGrant, task |-> NoTask,
      operations |-> {Invoke}, notBefore |-> 0, expires |-> MaxTime + 1,
      usage |-> Envelope, delegable |-> FALSE, depth |-> 0]]

(* The run and the actor have room for two operations at a time; a task    *)
(* has room for a second one only after the first used less than reserved. *)
TwoAtATime == [a \in {RunScope, "ann"} \cup Tasks |->
                 IF a \in Tasks THEN 2 * Envelope - 1 ELSE 2 * Envelope]
=============================================================================
