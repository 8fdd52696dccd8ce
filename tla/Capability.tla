----------------------------- MODULE Capability -----------------------------
(***************************************************************************)
(* The capability grants of a run's runtime-control stream: initialization *)
(* with the owner's root grants, delegation, revocation, and the decision  *)
(* whether an actor may perform an operation (authorize).                  *)
(*                                                                         *)
(* Time is the canonical UTC string of the code, which compares like its   *)
(* instant.  issue_capability takes its time from the command              *)
(* (occurred_at), authorize from a clock sample: both are inputs.  The     *)
(* resource of a grant is part of `operations'.                            *)
(***************************************************************************)
EXTENDS Lifecycle, Naturals

CONSTANTS
  Actors,         \* agent identifiers
  Owner,          \* scope.agent_id, the owner of the run
  GrantIds,       \* capability identifiers
  NoGrant,        \* parent_grant_id = None
  Operations,     \* operation names a grant can list
  MaxTime,        \* bound on time
  Envelope,       \* tokens of the retained operation contract
  InitialGrants,  \* the grants of runtime-control-initialized
  Candidates,     \* the grants that issue_capability is asked to append
  Revocable       \* the grants that revoke_capability is asked to revoke

Times == 0..MaxTime

Grant ==
  [issuer: Actors, subject: Actors, parent: GrantIds \cup {NoGrant},
   task: Parents, operations: SUBSET Operations,
   notBefore: Nat, expires: Nat, usage: Nat,
   delegable: BOOLEAN, depth: Nat]

ASSUME CapabilityAssumption ==
  /\ Owner \in Actors
  /\ NoGrant \notin GrantIds
  /\ MaxTime \in Nat /\ Envelope \in Nat
  /\ Candidates \subseteq Grant
  /\ Revocable \subseteq GrantIds

(***************************************************************************)
(* validate_initialization: the initial grants are roots of the owner.     *)
(***************************************************************************)
ValidGrantShape(g) == g.notBefore < g.expires /\ g.operations # {}

ASSUME InitialGrantsAssumption ==
  /\ InitialGrants \in [DOMAIN InitialGrants -> Grant]
  /\ DOMAIN InitialGrants \in SUBSET GrantIds \ {{}}
  /\ \A id \in DOMAIN InitialGrants :
       /\ ValidGrantShape(InitialGrants[id])
       /\ InitialGrants[id].issuer = Owner
       /\ InitialGrants[id].parent = NoGrant

VARIABLES
  initialized,  \* the runtime-control stream has its first event
  grants,       \* RuntimeControlState.grants, a partial function
  revoked       \* RuntimeControlState.revoked

capabilityVars == <<initialized, grants, revoked>>

-----------------------------------------------------------------------------
(***************************************************************************)
(* The chain that active_grant walks: the grant and all its ancestors, the *)
(* least set that holds the grant and the parent of each of its members.   *)
(***************************************************************************)
ParentClosed(S) ==
  \A id \in S \cap DOMAIN grants :
    grants[id].parent # NoGrant => grants[id].parent \in S

Chain(id) == {x \in GrantIds :
                \A S \in SUBSET GrantIds : id \in S /\ ParentClosed(S) => x \in S}

ActiveGrant(id, now) ==
  \A x \in Chain(id) :
    /\ x \in DOMAIN grants
    /\ x \notin revoked
    /\ grants[x].notBefore <= now
    /\ now < grants[x].expires

GrantIsSubset(child, par) ==
  /\ par.task # NoTask => child.task = par.task
  /\ child.operations \subseteq par.operations
  /\ child.notBefore >= par.notBefore
  /\ child.expires <= par.expires
  /\ child.usage <= par.usage
  /\ child.depth < par.depth

(* Variants: the grant is not compared with its parent; anybody delegates; *)
(* an identifier can be used again.                                        *)
UncomparedDelegation(id, g, now) ==
  /\ ValidGrantShape(g)
  /\ id \notin DOMAIN grants
  /\ IF g.parent = NoGrant
       THEN g.issuer = Owner
       ELSE /\ g.parent \in DOMAIN grants
            /\ ActiveGrant(g.parent, now)
            /\ grants[g.parent].subject = g.issuer
            /\ grants[g.parent].delegable

AnyIssuer(id, g, now) ==
  /\ ValidGrantShape(g)
  /\ id \notin DOMAIN grants
  /\ g.parent # NoGrant => /\ g.parent \in DOMAIN grants
                           /\ ActiveGrant(g.parent, now)
                           /\ GrantIsSubset(g, grants[g.parent])

ReissuedId(id, g, now) ==
  /\ ValidGrantShape(g)
  /\ IF g.parent = NoGrant
       THEN g.issuer = Owner
       ELSE /\ g.parent \in DOMAIN grants
            /\ ActiveGrant(g.parent, now)
            /\ grants[g.parent].subject = g.issuer
            /\ GrantIsSubset(g, grants[g.parent])

ValidDelegation(id, g, now) ==
  /\ ValidGrantShape(g)
  /\ id \notin DOMAIN grants
  /\ IF g.parent = NoGrant
       THEN g.issuer = Owner
       ELSE /\ g.parent \in DOMAIN grants
            /\ ActiveGrant(g.parent, now)
            /\ grants[g.parent].subject = g.issuer
            /\ grants[g.parent].delegable
            /\ grants[g.parent].depth # 0
            /\ GrantIsSubset(g, grants[g.parent])

(***************************************************************************)
(* authorize: some grant of the actor covers the task and the operation,   *)
(* is active, and allows at least the envelope of the contract.            *)
(***************************************************************************)
Authorized(actor, task, operation, now) ==
  \E id \in DOMAIN grants :
    /\ grants[id].subject = actor
    /\ grants[id].task \in {NoTask, task}
    /\ operation \in grants[id].operations
    /\ ActiveGrant(id, now)
    /\ Envelope <= grants[id].usage

ManagementState == runState \in LiveStates

-----------------------------------------------------------------------------
CapabilityInit ==
  /\ initialized = FALSE
  /\ grants = [id \in {} |-> 0]
  /\ revoked = {}

InitializeControl ==
  /\ ~initialized
  /\ runState = "Created"
  /\ initialized' = TRUE
  /\ grants' = InitialGrants
  /\ UNCHANGED revoked

(***************************************************************************)
(* capability-issued and capability-revoked, as the fold applies them      *)
(***************************************************************************)
RecordGrant(id, g) ==
  grants' = [x \in DOMAIN grants \cup {id} |-> IF x = id THEN g ELSE grants[x]]

RecordRevocation(id) == revoked' = revoked \cup {id}

IssueCapability(id, g, now) ==
  /\ initialized
  /\ ManagementState
  /\ g.task # NoTask => taskState[g.task] \notin TerminalStates \cup {Absent}
  /\ ValidDelegation(id, g, now)
  /\ RecordGrant(id, g)
  /\ UNCHANGED <<initialized, revoked>>

RevokeCapability(principal, id) ==
  /\ initialized
  /\ id \in DOMAIN grants
  /\ principal \in {Owner, grants[id].issuer}
  /\ id \notin revoked
  /\ ManagementState
  /\ RecordRevocation(id)
  /\ UNCHANGED <<initialized, grants>>

CapabilityStep ==
  \/ InitializeControl
  \/ \E id \in GrantIds, g \in Candidates, now \in Times : IssueCapability(id, g, now)
  \/ \E a \in Actors, id \in Revocable : RevokeCapability(a, id)

CapabilityNext ==
  \/ CapabilityStep /\ UNCHANGED lifecycleVars
  \/ LifecycleNext /\ UNCHANGED capabilityVars

CapabilitySpec ==
  /\ LifecycleInit /\ CapabilityInit
  /\ [][CapabilityNext]_<<lifecycleVars, capabilityVars>>

-----------------------------------------------------------------------------
(* Type invariant of the folded grants.                                    *)
CapabilityTypeOK ==
  /\ initialized \in BOOLEAN
  /\ DOMAIN grants \subseteq GrantIds
  /\ \A id \in DOMAIN grants : grants[id] \in Grant
  /\ revoked \subseteq DOMAIN grants

(* Delegation never widens: along the whole chain of a grant, however long *)
(* and in whatever order the grants were issued, revoked and expired, the  *)
(* grant stays inside the task, operations, time window and usage of every *)
(* ancestor and has strictly less depth left (validate_delegation and      *)
(* grant_is_subset look at the direct parent only).                        *)
DelegationNarrows ==
  \A id \in DOMAIN grants : \A x \in Chain(id) \ {id} :
    x \in DOMAIN grants /\ GrantIsSubset(grants[id], grants[x])

(* Every grant descends from a root that the owner issued, and each link   *)
(* was issued by the subject of the grant above it: nobody delegates what  *)
(* was given to somebody else.                                             *)
AuthorityStemsFromOwner ==
  \A id \in DOMAIN grants :
    /\ \E x \in Chain(id) : grants[x].parent = NoGrant /\ grants[x].issuer = Owner
    /\ grants[id].parent # NoGrant => grants[id].issuer = grants[grants[id].parent].subject

(* Authority is conserved: an actor comes to be authorized for a task, an  *)
(* operation and a time only by a root grant of the owner or by a grant    *)
(* whose issuer was authorized for exactly that already; so delegation can *)
(* hand authority on but not create it.                                    *)
AuthorityIsConserved ==
  [][\A a \in Actors, t \in Parents, o \in Operations, now \in Times :
       ~Authorized(a, t, o, now) /\ Authorized(a, t, o, now)' =>
         \E id \in DOMAIN grants' \ DOMAIN grants :
           /\ grants'[id].subject = a
           /\ grants'[id].parent = NoGrant \/ Authorized(grants'[id].issuer, t, o, now)
    ]_<<grants, revoked>>

(* Revocation cuts the whole subtree for good: a grant that is inactive at *)
(* some instant because of a revoked ancestor is never active at that      *)
(* instant again, whatever is issued or revoked later.                     *)
AuthorityNeverReturns ==
  [][\A id \in DOMAIN grants, now \in Times :
       ~ActiveGrant(id, now) => ~ActiveGrant(id, now)']_<<grants, revoked>>
=============================================================================
