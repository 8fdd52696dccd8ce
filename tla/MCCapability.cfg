CONSTANTS
  Tasks = {t1}
  NoTask = NoTask
  Actors = {"owner", "ann", "bob"}
  Owner = "owner"
  GrantIds = {"g1", "g2", "g3"}
  NoGrant = NoGrant
  Operations = {"invoke"}
  MaxTime = 2
  Envelope = 1
  InitialGrants <- MCInitialGrants
  Candidates <- MCCandidates
  Revocable = {"g1", "g2", "g3"}
SPECIFICATION CapabilitySpec
INVARIANTS
  DelegationNarrows
  AuthorityStemsFromOwner
PROPERTIES
  AuthorityIsConserved
  AuthorityNeverReturns
CHECK_DEADLOCK FALSE
