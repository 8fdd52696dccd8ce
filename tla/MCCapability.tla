----------------------------- MODULE MCCapability -----------------------------
(* TLC instance of Capability: one root grant of the owner to `ann', who   *)
(* may delegate to `bob' and so on, two more grants of any parent, issuer  *)
(* and subject.  The profiles hold a grant as wide as the root, ones that  *)
(* narrow it in one respect, and one that exceeds it.                      *)
EXTENDS Capability, TLC

Profile(task, from, until, usage, depth) ==
  [task |-> task, operations |-> {"invoke"}, notBefore |-> from, expires |-> until,
   usage |-> usage, delegable |-> TRUE, depth |-> depth]

MCProfiles ==
  {Profile(NoTask, 0, MaxTime, Envelope, 1),
   Profile(NoTask, 0, MaxTime - 1, Envelope, 0),
   Profile(CHOOSE t \in Tasks : TRUE, 0, MaxTime, Envelope, 1),
   Profile(NoTask, 1, MaxTime + 1, Envelope + 1, 2)}

Link(parentGrant, issuer, subject) ==
  [parent |-> parentGrant, issuer |-> issuer, subject |-> subject]

MCInitialGrants ==
  [id \in {"g1"} |-> Link(NoGrant, Owner, "ann") @@ Profile(NoTask, 0, MaxTime, Envelope, 2)]

MCCandidates ==
  {Link(p, i, s) @@ profile :
     p \in {"g1", "g2", NoGrant}, i \in Actors, s \in Actors \ {Owner}, profile \in MCProfiles}
=============================================================================
