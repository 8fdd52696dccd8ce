------------------------ MODULE RuntimeControlProofs ------------------------
(***************************************************************************)
(* Proofs about the lifecycle, for every set of tasks, about the           *)
(* capability grants on top of it, for every set of actors, grants,        *)
(* operations and tasks, and about protected operations under runtime      *)
(* control, for every number of operations, processes, callbacks, accounts *)
(* and tasks, every budget plan and every behaviour of the clocks.         *)
(*                                                                         *)
(* LifecycleInv is the inductive invariant of the first: the four safety   *)
(* invariants, the two facts about the task hierarchy they need, and       *)
(* PhaseInv, which says which task states each phase of the run admits.    *)
(*                                                                         *)
(* CapabilityInv is that of the second: it says of every grant what        *)
(* validate_delegation checked of it and its direct parent; the properties *)
(* speak of whole chains.  A chain is a least parent-closed set, so that a *)
(* fact about all its members follows from a parent-closed set in which    *)
(* the fact holds, without induction.                                      *)
(*                                                                         *)
(* The composed specification implements the lifecycle (its steps only     *)
(* restrict the lifecycle's), so the lifecycle invariants carry over.      *)
(* ControlInv, the inductive invariant of the third part, adds the types   *)
(* of the control state and the safety properties, each of which the       *)
(* others make inductive; one lemma per kind of event shows that it is     *)
(* kept and that no decision is taken back.                                *)
(***************************************************************************)
EXTENDS RuntimeControl, TLAPS

USE DEF Absent, LiveStates, TerminalStates, RunStates, TaskStates, Parents

(* Create_run establishes the invariant's initial phase.                   *)
LEMMA LifecycleInitInv == LifecycleInit => LifecycleInv
  BY Zenon DEF LifecycleInit, LifecycleInv, LifecycleTypeOK, RunningIsNested,
         TerminalIsClosedDownward, RunOutcomeMatchesTasks,
         StartedRunIsPrepared, ParentsExist, PhaseInv, Known, Children,
         AllTerminal, SomeTask, Quiescent

(* create_run keeps the invariant: nothing but the run's phase changes.    *)
LEMMA CreateRunInv == LifecycleInv /\ CreateRun => LifecycleInv'
  BY DEF CreateRun, LifecycleInv, LifecycleTypeOK, RunningIsNested,
         TerminalIsClosedDownward, RunOutcomeMatchesTasks,
         StartedRunIsPrepared, ParentsExist, PhaseInv, Known, Children,
         AllTerminal, SomeTask, Quiescent

(* create_task keeps the invariant: the new task has no children yet, as   *)
(* every task's parent already exists, and its own parent is live.         *)
LEMMA CreateTaskInv ==
  ASSUME NEW t \in Tasks, NEW p \in Parents, LifecycleInv, CreateTask(t, p)
  PROVE  LifecycleInv'
<1> USE DEF CreateTask, ValidTaskCreation, LifecycleInv, Known
<1>1. LifecycleTypeOK'
  BY Zenon DEF LifecycleTypeOK
<1>2. RunningIsNested'
  BY Zenon DEF LifecycleTypeOK, RunningIsNested, PhaseInv
<1>3. ParentsExist'
  BY NoTaskAssumption DEF LifecycleTypeOK, ParentsExist
<1>4. TerminalIsClosedDownward'
  BY NoTaskAssumption
     DEF LifecycleTypeOK, TerminalIsClosedDownward, ParentsExist, Children
<1>5. (RunOutcomeMatchesTasks /\ StartedRunIsPrepared /\ PhaseInv)'
  BY Zenon DEF LifecycleTypeOK, RunOutcomeMatchesTasks, StartedRunIsPrepared, PhaseInv
<1> QED
  BY <1>1, <1>2, <1>3, <1>4, <1>5, Zenon

(* transition_run keeps the invariant: its guard looks at every task.      *)
LEMMA TransitionRunInv ==
  ASSUME NEW to \in RunStates, LifecycleInv, TransitionRun(to)
  PROVE  LifecycleInv'
<1> USE DEF TransitionRun, ValidRunTransition, IsRunEdge, LifecycleInv, Known,
            AllTerminal, SomeTask, Quiescent, CancelledOutcome
<1>1. LifecycleTypeOK'
  BY Zenon DEF LifecycleTypeOK
<1>2. RunningIsNested'
  BY Zenon DEF LifecycleTypeOK, RunningIsNested, PhaseInv, StartedRunIsPrepared
<1>3. (ParentsExist /\ TerminalIsClosedDownward)'
  BY DEF ParentsExist, TerminalIsClosedDownward, Children
<1>4. RunOutcomeMatchesTasks'
  BY Zenon DEF LifecycleTypeOK, RunOutcomeMatchesTasks
<1>5. (StartedRunIsPrepared /\ PhaseInv)'
  BY Zenon DEF LifecycleTypeOK, StartedRunIsPrepared, PhaseInv
<1> QED
  BY <1>1, <1>2, <1>3, <1>4, <1>5, Zenon

(* transition_task keeps the invariant: its guard looks at the run, the    *)
(* parent and the children of the task that moves.                         *)
LEMMA TransitionTaskInv ==
  ASSUME NEW t \in Tasks, NEW to \in TaskStates, LifecycleInv,
         TransitionTask(t, to)
  PROVE  LifecycleInv'
<1> USE DEF TransitionTask, ValidTaskTransition, IsTaskEdge, LifecycleInv, Known
<1>1. LifecycleTypeOK'
  BY Zenon DEF LifecycleTypeOK
<1>2. RunningIsNested'
  <2> SUFFICES ASSUME NEW u \in Tasks, taskState'[u] = "Running"
               PROVE  /\ runState = "Running"
                      /\ parent[u] # NoTask => taskState'[parent[u]] = "Running"
    BY DEF RunningIsNested
  <2>1. CASE u = t
    BY <2>1, Zenon DEF LifecycleTypeOK
  <2>2. CASE u # t
    <3>1. taskState[u] = "Running"
      BY <2>2, Zenon DEF LifecycleTypeOK
    <3>2. parent[u] = t => to = "Running"
      BY <3>1, Zenon DEF LifecycleTypeOK, RunningIsNested, Children
    <3> QED
      BY <3>1, <3>2 DEF LifecycleTypeOK, RunningIsNested
  <2> QED
    BY <2>1, <2>2, Zenon
<1>3. ParentsExist'
  BY NoTaskAssumption DEF LifecycleTypeOK, ParentsExist
<1>4. TerminalIsClosedDownward'
  <2> SUFFICES ASSUME NEW u \in Tasks, NEW c \in Tasks,
                      taskState'[c] # Absent, parent[c] = u
               PROVE  /\ taskState'[u] \in TerminalStates
                           => taskState'[c] \in TerminalStates
                      /\ taskState'[u] = "Succeeded"
                           => taskState'[c] = "Succeeded"
    BY DEF TerminalIsClosedDownward, Children
  <2>1. taskState[c] # Absent
    BY Zenon DEF LifecycleTypeOK
  <2>2. taskState[t] \notin TerminalStates
    BY Zenon
  <2>3. CASE u = t
    BY <2>1, <2>2, <2>3 DEF LifecycleTypeOK, Children
  <2>4. CASE u # t
    BY <2>1, <2>2, <2>4 DEF LifecycleTypeOK, TerminalIsClosedDownward, Children
  <2> QED
    BY <2>3, <2>4, Zenon
<1>5. RunOutcomeMatchesTasks'
  BY Zenon DEF LifecycleTypeOK, RunOutcomeMatchesTasks
<1>6. (StartedRunIsPrepared /\ PhaseInv)'
  BY DEF LifecycleTypeOK, StartedRunIsPrepared, PhaseInv, SomeTask, Quiescent
<1> QED
  BY <1>1, <1>2, <1>3, <1>4, <1>5, <1>6, Zenon

(* Every reachable state of a run satisfies LifecycleInv: running tasks    *)
(* are nested, terminal tasks are closed downward, and the run's outcome   *)
(* is the one its tasks justify, for any number of tasks in any hierarchy. *)
THEOREM LifecycleCorrect == LifecycleSpec => []LifecycleInv
<1>1. LifecycleInv /\ [LifecycleNext]_lifecycleVars => LifecycleInv'
  <2> SUFFICES ASSUME LifecycleInv, [LifecycleNext]_lifecycleVars
               PROVE  LifecycleInv'
    BY Zenon
  <2>1. CASE LifecycleNext
    BY <2>1, CreateRunInv, CreateTaskInv, TransitionRunInv, TransitionTaskInv
      , Zenon DEF LifecycleNext
  <2>2. CASE UNCHANGED lifecycleVars
    BY <2>2 DEF lifecycleVars, LifecycleInv, LifecycleTypeOK, RunningIsNested,
                TerminalIsClosedDownward, RunOutcomeMatchesTasks,
                StartedRunIsPrepared, ParentsExist, PhaseInv, Known, Children,
                AllTerminal, SomeTask, Quiescent
  <2> QED
    BY <2>1, <2>2, Zenon
<1> QED
  BY <1>1, LifecycleInitInv, PTL DEF LifecycleSpec

(* Whatever the hierarchy, a task runs only in a running run and under a   *)
(* running parent (validate_task_transition, validate_run_transition).     *)
THEOREM RunningNested == LifecycleSpec => []RunningIsNested
<1>1. LifecycleInv => RunningIsNested
  BY Zenon DEF LifecycleInv
<1> QED
  BY <1>1, LifecycleCorrect, PTL

(* Nothing below a terminal task is live, and nothing below a succeeded    *)
(* one failed: validate_task_transition, which looks one level down and up *)
(* only, closes the whole hierarchy.                                       *)
THEOREM TerminalClosedDownward == LifecycleSpec => []TerminalIsClosedDownward
<1>1. LifecycleInv => TerminalIsClosedDownward
  BY Zenon DEF LifecycleInv
<1> QED
  BY <1>1, LifecycleCorrect, PTL

(* The outcome that validate_run_transition admitted for a run is that of  *)
(* its tasks, and stays so.                                                *)
THEOREM OutcomeMatchesTasks == LifecycleSpec => []RunOutcomeMatchesTasks
<1>1. LifecycleInv => RunOutcomeMatchesTasks
  BY Zenon DEF LifecycleInv
<1> QED
  BY <1>1, LifecycleCorrect, PTL

(* No task is left unprepared in a run that has started, although tasks    *)
(* are created and the run is started by separate commands                 *)
(* (validate_task_creation, validate_run_transition).                      *)
THEOREM StartedPrepared == LifecycleSpec => []StartedRunIsPrepared
<1>1. LifecycleInv => StartedRunIsPrepared
  BY Zenon DEF LifecycleInv
<1> QED
  BY <1>1, LifecycleCorrect, PTL

(* Terminal runs and tasks never change again and a task keeps its parent, *)
(* whatever commands follow.                                               *)
THEOREM TerminalStatesAreFinal == LifecycleSpec => TerminalIsFinal
<1> DEFINE Final ==
      /\ runState \in TerminalStates => UNCHANGED lifecycleVars
      /\ \A t \in Tasks :
           /\ taskState[t] \in TerminalStates => taskState'[t] = taskState[t]
           /\ taskState[t] # Absent => parent'[t] = parent[t]
                                       /\ taskState'[t] # Absent
<1>1. LifecycleTypeOK /\ [LifecycleNext]_lifecycleVars => [Final]_lifecycleVars
  <2> SUFFICES ASSUME LifecycleTypeOK, LifecycleNext
               PROVE  Final
    BY Zenon
  <2> USE DEF LifecycleTypeOK
  <2>1. CASE CreateRun
    BY <2>1, Zenon DEF CreateRun
  <2>2. ASSUME NEW t \in Tasks, NEW p \in Parents, CreateTask(t, p)
        PROVE  Final
    BY <2>2, Zenon DEF CreateTask, ValidTaskCreation
  <2>3. ASSUME NEW to \in RunStates, TransitionRun(to)
        PROVE  Final
    BY <2>3, Zenon DEF TransitionRun, ValidRunTransition, IsRunEdge
  <2>4. ASSUME NEW t \in Tasks, NEW to \in TaskStates, TransitionTask(t, to)
        PROVE  Final
    BY <2>4 DEF TransitionTask, ValidTaskTransition, IsTaskEdge
  <2> QED
    BY <2>1, <2>2, <2>3, <2>4, Zenon DEF LifecycleNext
<1>2. LifecycleInv => LifecycleTypeOK
  BY Zenon DEF LifecycleInv
<1> QED
  BY <1>1, <1>2, LifecycleCorrect, PTL DEF LifecycleSpec, TerminalIsFinal

(* Task ownership never has a cycle: a task is created without children,   *)
(* below a task that exists, and no command changes a parent.              *)
THEOREM OwnershipIsForest == LifecycleSpec => []TaskHierarchyIsForest
<1> USE DEF TaskHierarchyIsForest, Known
<1>1. LifecycleInit => TaskHierarchyIsForest
  BY Zenon DEF LifecycleInit
<1>2. LifecycleInv /\ TaskHierarchyIsForest /\ [LifecycleNext]_lifecycleVars
        => TaskHierarchyIsForest'
  <2> SUFFICES ASSUME LifecycleInv, TaskHierarchyIsForest,
                      [LifecycleNext]_lifecycleVars,
                      NEW S \in SUBSET Known(taskState'), S # {}
               PROVE  \E t \in S : \A c \in S : parent'[c] # t
    BY Zenon
  <2>1. ASSUME NEW t \in Tasks, NEW p \in Parents, CreateTask(t, p)
        PROVE  \E u \in S : \A c \in S : parent'[c] # u
    <3> USE <2>1 DEF CreateTask, ValidTaskCreation, LifecycleInv, LifecycleTypeOK
    <3>1. \A c \in S : parent'[c] # t
      BY NoTaskAssumption DEF ParentsExist
    <3>2. CASE t \in S
      BY <3>1, <3>2, Zenon
    <3>3. CASE t \notin S
      BY <3>3
    <3> QED
      BY <3>2, <3>3, Zenon
  <2>2. CASE \/ CreateRun
             \/ \E to \in RunStates : TransitionRun(to)
             \/ \E t \in Tasks, to \in TaskStates : TransitionTask(t, to)
             \/ UNCHANGED lifecycleVars
    <3>1. parent' = parent
      BY <2>2, Zenon DEF CreateRun, TransitionRun, TransitionTask, lifecycleVars
    <3>2. Known(taskState') \subseteq Known(taskState)
      BY <2>2 DEF CreateRun, TransitionRun, TransitionTask, lifecycleVars,
                  LifecycleInv, LifecycleTypeOK, ValidTaskTransition, IsTaskEdge
    <3> QED
      BY <3>1, <3>2
  <2> QED
    BY <2>1, <2>2, Zenon DEF LifecycleNext
<1> QED
  BY <1>1, <1>2, LifecycleCorrect, PTL DEF LifecycleSpec

(* A live run can always be moved further by some command, unless it was   *)
(* paused after all its tasks had succeeded: if a task is live, a deepest  *)
(* live task can be failed; otherwise the outcomes of the tasks select an  *)
(* edge of the run.                                                        *)
THEOREM NoOtherDeadEnd == LifecycleSpec => []OnlyStuckAfterSuccess
<1>1. LifecycleInv /\ TaskHierarchyIsForest => OnlyStuckAfterSuccess
  <2> SUFFICES ASSUME LifecycleInv, TaskHierarchyIsForest,
                      runState \notin TerminalStates, ~CanAdvance
               PROVE  StuckAfterSuccess
    BY Zenon DEF OnlyStuckAfterSuccess
  <2> USE DEF LifecycleInv, LifecycleTypeOK, Known
  <2> DEFINE Live == {t \in Tasks : taskState[t] \notin TerminalStates \cup {Absent}}
  <2>1. Live = {}
    <3> SUFFICES ASSUME Live # {} PROVE FALSE
      BY Zenon
    <3>1. PICK t \in Live : \A c \in Live : parent[c] # t
      BY Zenon DEF TaskHierarchyIsForest
    <3>2. ValidTaskTransition(runState, taskState, parent, t, taskState[t], "Failed")
      BY <3>1, Zenon DEF ValidTaskTransition, IsTaskEdge, Children
    <3> QED
      BY <3>2, Zenon DEF CanAdvance
  <2>2. AllTerminal(taskState)
    BY <2>1, Zenon DEF AllTerminal
  <2>3. \A to \in RunStates : ~ValidRunTransition(taskState, runState, to)
    BY Zenon DEF CanAdvance
  <2>4. runState # "Running"
    BY <2>2, <2>3 DEF ValidRunTransition, IsRunEdge, Quiescent, AllTerminal
  <2>5. ~SomeTask(taskState, "Failed")
    BY <2>2, <2>3, <2>4 DEF ValidRunTransition, IsRunEdge, CanAdvance
  <2>6. ~SomeTask(taskState, "Cancelled")
    BY <2>2, <2>3, <2>4, <2>5
       DEF ValidRunTransition, IsRunEdge, CancelledOutcome, CanAdvance
  <2>7. \A t \in Known(taskState) : taskState[t] = "Succeeded"
    BY <2>2, <2>5, <2>6, Zenon DEF AllTerminal, SomeTask
  <2>8. runState # "Created"
    BY <2>3, <2>7, Zenon DEF PhaseInv, ValidRunTransition, IsRunEdge
  <2> QED
    BY <2>4, <2>7, <2>8, Zenon DEF StuckAfterSuccess, CanAdvance
<1> QED
  BY <1>1, LifecycleCorrect, OwnershipIsForest, PTL

HIDE DEF Absent, LiveStates, TerminalStates, RunStates, TaskStates, Parents

-----------------------------------------------------------------------------
ChainsExist ==
  \A id \in DOMAIN grants : grants[id].parent # NoGrant => grants[id].parent \in DOMAIN grants

LinksNarrow ==
  \A id \in DOMAIN grants : grants[id].parent # NoGrant =>
    /\ GrantIsSubset(grants[id], grants[grants[id].parent])
    /\ grants[id].issuer = grants[grants[id].parent].subject

RootsAreOwned ==
  \A id \in DOMAIN grants :
    \E x \in Chain(id) : grants[x].parent = NoGrant /\ grants[x].issuer = Owner

CapabilityInv ==
  /\ CapabilityTypeOK
  /\ ~initialized => DOMAIN grants = {}
  /\ ChainsExist
  /\ LinksNarrow
  /\ RootsAreOwned

(* Between two states grants are only added.                               *)
GrantsAreKept ==
  /\ DOMAIN grants \subseteq DOMAIN grants'
  /\ \A x \in DOMAIN grants : grants'[x] = grants[x]

-----------------------------------------------------------------------------
(* A grant belongs to its own chain, and the chain of its parent to it.    *)
LEMMA ChainContains ==
  ASSUME NEW id \in GrantIds
  PROVE  /\ id \in Chain(id)
         /\ id \in DOMAIN grants /\ grants[id].parent # NoGrant =>
              Chain(grants[id].parent) \subseteq Chain(id)
  BY Zenon DEF Chain, ParentClosed

(* The chain of a grant stays among the grants that were issued.           *)
LEMMA ChainIsIssued ==
  ASSUME CapabilityTypeOK, ChainsExist, NEW id \in DOMAIN grants
  PROVE  Chain(id) \subseteq DOMAIN grants
<1>1. DOMAIN grants \in SUBSET GrantIds
  BY Zenon DEF CapabilityTypeOK
<1>2. ParentClosed(DOMAIN grants)
  BY Zenon DEF ParentClosed, ChainsExist
<1> QED BY <1>1, <1>2, Zenon DEF Chain

(* Chains never lose a member while grants are only added.                 *)
LEMMA ChainIsKept ==
  ASSUME GrantsAreKept, NEW id
  PROVE  Chain(id) \subseteq Chain(id)'
<1>1. ASSUME NEW S \in SUBSET GrantIds, ParentClosed(S)'
      PROVE  ParentClosed(S)
  BY <1>1, Zenon DEF ParentClosed, GrantsAreKept
<1> QED BY <1>1, Zenon DEF Chain

(* Narrowing is transitive.                                                *)
LEMMA NarrowingIsTransitive ==
  ASSUME NEW g \in Grant, NEW h \in Grant, NEW k \in Grant,
         GrantIsSubset(g, h), GrantIsSubset(h, k)
  PROVE  GrantIsSubset(g, k)
  BY DEF GrantIsSubset, Grant

-----------------------------------------------------------------------------
(* Before initialize_control there are no grants to chain.                 *)
LEMMA CapabilityInitInv ==
  CapabilityInit => CapabilityInv
  BY Zenon DEF CapabilityInit, CapabilityInv, CapabilityTypeOK, ChainsExist, LinksNarrow, RootsAreOwned

(* initialize_control records the initial grants, whole and for the first  *)
(* time.                                                                   *)
LEMMA InitializeControlInv ==
  ASSUME CapabilityInv, InitializeControl
  PROVE  CapabilityInv' /\ GrantsAreKept
<1> USE InitialGrantsAssumption DEF InitializeControl, CapabilityInv
<1>1. CapabilityTypeOK'
  BY Zenon DEF CapabilityTypeOK
<1>2. ChainsExist' /\ LinksNarrow'
  BY Zenon DEF ChainsExist, LinksNarrow
<1>3. RootsAreOwned'
  <2> SUFFICES ASSUME NEW id \in DOMAIN grants'
               PROVE  \E x \in Chain(id)' : grants'[x].parent = NoGrant /\ grants'[x].issuer = Owner
    BY Zenon DEF RootsAreOwned
  <2>1. id \in Chain(id)'
    BY Zenon DEF Chain
  <2> QED BY <2>1, Zenon
<1>4. (~initialized => DOMAIN grants = {})' /\ GrantsAreKept
  BY Zenon DEF GrantsAreKept
<1> QED BY <1>1, <1>2, <1>3, <1>4, Zenon

(* issue_capability adds one grant under a new identifier, inside its      *)
(* parent grant, and leaves the others as they were.                       *)
LEMMA IssueCapabilityInv ==
  ASSUME CapabilityInv, NEW id \in GrantIds, NEW g \in Candidates, NEW now \in Times,
         IssueCapability(id, g, now)
  PROVE  /\ CapabilityInv' /\ GrantsAreKept
         /\ DOMAIN grants' = DOMAIN grants \cup {id} /\ grants'[id] = g
<1> USE CapabilityAssumption DEF CapabilityInv
<1>1. /\ initialized /\ initialized' = initialized /\ revoked' = revoked
      /\ id \notin DOMAIN grants
      /\ g.parent = NoGrant => g.issuer = Owner
      /\ g.parent # NoGrant => /\ g.parent \in DOMAIN grants
                               /\ grants[g.parent].subject = g.issuer
                               /\ GrantIsSubset(g, grants[g.parent])
  BY Zenon DEF IssueCapability, ValidDelegation
<1>2. /\ DOMAIN grants' = DOMAIN grants \cup {id}
      /\ grants'[id] = g
      /\ \A x \in DOMAIN grants : grants'[x] = grants[x]
  BY <1>1, Zenon DEF IssueCapability, RecordGrant
<1>3. GrantsAreKept
  BY <1>2, Zenon DEF GrantsAreKept
<1>4. CapabilityTypeOK'
  BY <1>1, <1>2, Zenon DEF CapabilityTypeOK
<1>5. ChainsExist'
  BY <1>1, <1>2, Zenon DEF ChainsExist
<1>6. LinksNarrow'
  BY <1>1, <1>2 DEF LinksNarrow, ChainsExist
<1>7. RootsAreOwned'
  <2> SUFFICES ASSUME NEW y \in DOMAIN grants'
               PROVE  \E x \in Chain(y)' : grants'[x].parent = NoGrant /\ grants'[x].issuer = Owner
    BY Zenon DEF RootsAreOwned
  <2>1. CASE y \in DOMAIN grants
    <3>1. PICK x \in Chain(y) : grants[x].parent = NoGrant /\ grants[x].issuer = Owner
      BY <2>1, Zenon DEF RootsAreOwned
    <3>2. x \in DOMAIN grants /\ x \in Chain(y)'
      BY <2>1, <3>1, <1>3, ChainIsIssued, ChainIsKept, Zenon
    <3> QED BY <3>1, <3>2, <1>2, Zenon
  <2>2. CASE y = id /\ g.parent = NoGrant
    <3>1. id \in Chain(id)'
      BY Zenon DEF Chain
    <3> QED BY <2>2, <3>1, <1>1, <1>2, Zenon
  <2>3. CASE y = id /\ g.parent # NoGrant
    <3>1. PICK x \in Chain(g.parent) : grants[x].parent = NoGrant /\ grants[x].issuer = Owner
      BY <2>3, <1>1, Zenon DEF RootsAreOwned
    <3>2. x \in DOMAIN grants /\ x \in Chain(g.parent)'
      BY <2>3, <1>1, <3>1, <1>3, ChainIsIssued, ChainIsKept, Zenon
    <3>3. Chain(g.parent)' \subseteq Chain(id)'
      BY <2>3, <1>2, Zenon DEF Chain, ParentClosed
    <3> QED BY <2>3, <3>1, <3>2, <3>3, <1>2, Zenon
  <2> QED BY <2>1, <2>2, <2>3, <1>2, Zenon
<1> QED BY <1>1, <1>2, <1>3, <1>4, <1>5, <1>6, <1>7, Zenon

(* revoke_capability only adds to the set of revoked grants.               *)
LEMMA RevokeCapabilityInv ==
  ASSUME CapabilityInv, NEW principal \in Actors, NEW id \in GrantIds,
         RevokeCapability(principal, id)
  PROVE  CapabilityInv' /\ GrantsAreKept /\ revoked \subseteq revoked' /\ grants' = grants
<1>1. /\ grants' = grants /\ initialized' = initialized
      /\ revoked' = revoked \cup {id} /\ id \in DOMAIN grants
  BY Zenon DEF RevokeCapability, RecordRevocation
<1>2. CapabilityTypeOK'
  BY <1>1, Zenon DEF CapabilityInv, CapabilityTypeOK
<1>3. \A x : Chain(x)' = Chain(x)
  BY <1>1, Zenon DEF Chain, ParentClosed
<1>4. (ChainsExist /\ LinksNarrow /\ RootsAreOwned)'
  BY <1>1, <1>3, Zenon DEF CapabilityInv, ChainsExist, LinksNarrow, RootsAreOwned
<1> QED BY <1>1, <1>2, <1>4, Zenon DEF CapabilityInv, GrantsAreKept

(* The steps of the other components leave the grants alone.               *)
LEMMA CapabilityStutterInv ==
  ASSUME CapabilityInv, UNCHANGED capabilityVars
  PROVE  CapabilityInv'
<1>1. \A x : Chain(x)' = Chain(x)
  BY Zenon DEF Chain, ParentClosed, capabilityVars
<1> QED BY <1>1, Zenon DEF CapabilityInv, CapabilityTypeOK, ChainsExist, LinksNarrow,
                    RootsAreOwned, capabilityVars

(* Every operation on capabilities keeps the invariant, every recorded     *)
(* grant and every revocation.                                             *)
LEMMA CapabilityStepInv ==
  ASSUME CapabilityInv, CapabilityStep
  PROVE  CapabilityInv' /\ GrantsAreKept /\ revoked \subseteq revoked'
<1>1. CASE InitializeControl
  BY <1>1, InitializeControlInv, Zenon DEF InitializeControl
<1>2. CASE \E id \in GrantIds, g \in Candidates, now \in Times : IssueCapability(id, g, now)
  BY <1>2, IssueCapabilityInv, Zenon DEF IssueCapability
<1>3. CASE \E a \in Actors, id \in Revocable : RevokeCapability(a, id)
  BY <1>3, RevokeCapabilityInv, CapabilityAssumption, Zenon
<1> QED BY <1>1, <1>2, <1>3, Zenon DEF CapabilityStep

(* Every grant keeps its type, an issued parent that it narrows and whose  *)
(* subject issued it, and a root of the owner above it, over all sequences *)
(* of initialize, issue, revoke and lifecycle commands.                    *)
THEOREM CapabilityCorrect == CapabilitySpec => []CapabilityInv
<1>1. LifecycleInit /\ CapabilityInit => CapabilityInv
  BY CapabilityInitInv, Zenon
<1>2. CapabilityInv /\ [CapabilityNext]_<<lifecycleVars, capabilityVars>> => CapabilityInv'
  BY CapabilityStepInv, CapabilityStutterInv, Zenon DEF CapabilityNext
<1> QED BY <1>1, <1>2, PTL DEF CapabilitySpec

(* The folded grants keep their types (fold_control).                      *)
THEOREM CapabilityTypesHold == CapabilitySpec => []CapabilityTypeOK
<1>1. CapabilityInv => CapabilityTypeOK
  BY Zenon DEF CapabilityInv
<1> QED BY <1>1, CapabilityCorrect, PTL

(* Delegation narrows along whole chains: the ancestors that a grant       *)
(* narrows form a parent-closed set, by the transitivity of                *)
(* grant_is_subset, so the chain lies inside it.                           *)
THEOREM ChainsNarrow == CapabilitySpec => []DelegationNarrows
<1>1. CapabilityInv => DelegationNarrows
  <2> SUFFICES ASSUME CapabilityInv, NEW id \in DOMAIN grants
               PROVE  \A x \in Chain(id) \ {id} :
                        x \in DOMAIN grants /\ GrantIsSubset(grants[id], grants[x])
    BY Zenon DEF DelegationNarrows
  <2> DEFINE Above == {x \in DOMAIN grants : x = id \/ GrantIsSubset(grants[id], grants[x])}
  <2>1. Above \in SUBSET GrantIds /\ id \in Above
    BY Zenon DEF CapabilityInv, CapabilityTypeOK
  <2>2. ParentClosed(Above)
    <3> SUFFICES ASSUME NEW y \in Above, grants[y].parent # NoGrant
                 PROVE  grants[y].parent \in Above
      BY Zenon DEF ParentClosed
    <3>1. /\ grants[y].parent \in DOMAIN grants
          /\ GrantIsSubset(grants[y], grants[grants[y].parent])
      BY Zenon DEF CapabilityInv, ChainsExist, LinksNarrow
    <3>2. \A z \in DOMAIN grants : grants[z] \in Grant
      BY Zenon DEF CapabilityInv, CapabilityTypeOK
    <3> QED BY <3>1, <3>2, NarrowingIsTransitive, Zenon
  <2>3. Chain(id) \subseteq Above
    BY <2>1, <2>2, Zenon DEF Chain
  <2> QED BY <2>3, Zenon
<1> QED BY <1>1, CapabilityCorrect, PTL

(* Every chain ends in a root of the owner, and every link was issued by   *)
(* the subject of the grant above it (validate_delegation).                *)
THEOREM ChainsStartAtOwner == CapabilitySpec => []AuthorityStemsFromOwner
<1>1. CapabilityInv => AuthorityStemsFromOwner
  BY Zenon DEF CapabilityInv, RootsAreOwned, LinksNarrow, AuthorityStemsFromOwner
<1> QED BY <1>1, CapabilityCorrect, PTL

-----------------------------------------------------------------------------
(* An active chain was active before: adding grants and revocations only   *)
(* takes activity away from the grants there are.                          *)
LEMMA ActivityShrinks ==
  ASSUME CapabilityInv, GrantsAreKept, revoked \subseteq revoked',
         NEW id \in DOMAIN grants, NEW now, ActiveGrant(id, now)'
  PROVE  ActiveGrant(id, now)
<1>1. Chain(id) \subseteq DOMAIN grants /\ Chain(id) \subseteq Chain(id)'
  BY ChainIsIssued, ChainIsKept, Zenon DEF CapabilityInv
<1> QED BY <1>1, Zenon DEF ActiveGrant, GrantsAreKept

(* A grant that is inactive at an instant (revoked, expired or not yet     *)
(* valid anywhere in its chain) never becomes active at that instant.      *)
THEOREM RevocationIsFinal == CapabilitySpec => AuthorityNeverReturns
<1> DEFINE A == \A id \in DOMAIN grants, now \in Times :
                  ~ActiveGrant(id, now) => ~ActiveGrant(id, now)'
<1>1. CapabilityInv /\ [CapabilityNext]_<<lifecycleVars, capabilityVars>>
        => [A]_<<grants, revoked>>
  <2> SUFFICES ASSUME CapabilityInv, CapabilityStep PROVE A
    BY Zenon DEF CapabilityNext, capabilityVars
  <2> QED BY CapabilityStepInv, ActivityShrinks, Zenon
<1> QED BY <1>1, CapabilityCorrect, PTL DEF CapabilitySpec, AuthorityNeverReturns

-----------------------------------------------------------------------------
(* What a new grant below a parent authorizes, its issuer was authorized   *)
(* for.                                                                    *)
LEMMA IssuerWasAuthorized ==
  ASSUME CapabilityInv, NEW id \in GrantIds, NEW g \in Candidates, NEW at \in Times,
         IssueCapability(id, g, at), g.parent # NoGrant,
         NEW t, NEW o, NEW now,
         g.task \in {NoTask, t}, o \in g.operations, ActiveGrant(id, now)',
         Envelope <= g.usage
  PROVE  Authorized(g.issuer, t, o, now)
<1>1. /\ GrantsAreKept /\ CapabilityInv' /\ revoked' = revoked
      /\ DOMAIN grants' = DOMAIN grants \cup {id} /\ grants'[id] = g
  BY IssueCapabilityInv, Zenon DEF IssueCapability
<1>2. /\ g.parent \in DOMAIN grants /\ grants[g.parent].subject = g.issuer
      /\ GrantIsSubset(g, grants[g.parent])
  BY Zenon DEF IssueCapability, ValidDelegation
<1>3. Chain(g.parent)' \subseteq Chain(id)'
  BY <1>1, Zenon DEF Chain, ParentClosed
<1>4. ActiveGrant(g.parent, now)'
  BY <1>3, Zenon DEF ActiveGrant
<1>5. ActiveGrant(g.parent, now)
  BY <1>1, <1>2, <1>4, ActivityShrinks, Zenon
<1>6. g \in Grant /\ grants[g.parent] \in Grant
  BY <1>2, CapabilityAssumption, Zenon DEF CapabilityInv, CapabilityTypeOK
<1>7. /\ grants[g.parent].task \in {NoTask, t} /\ o \in grants[g.parent].operations
      /\ Envelope <= grants[g.parent].usage
  BY <1>2, <1>6, CapabilityAssumption DEF GrantIsSubset, Grant
<1> QED BY <1>2, <1>5, <1>7, Zenon DEF Authorized

(* Delegation hands authority on and creates none: whoever becomes         *)
(* authorized does so by a new grant that is a root of the owner or whose  *)
(* issuer was authorized for the same task, operation and instant.         *)
THEOREM DelegationConserves == CapabilitySpec => AuthorityIsConserved
<1> DEFINE A == \A a \in Actors, t \in Parents, o \in Operations, now \in Times :
       ~Authorized(a, t, o, now) /\ Authorized(a, t, o, now)' =>
         \E id \in DOMAIN grants' \ DOMAIN grants :
           /\ grants'[id].subject = a
           /\ grants'[id].parent = NoGrant \/ Authorized(grants'[id].issuer, t, o, now)
<1>1. CapabilityInv /\ [CapabilityNext]_<<lifecycleVars, capabilityVars>>
        => [A]_<<grants, revoked>>
  <2> SUFFICES ASSUME CapabilityInv, CapabilityStep PROVE A
    BY Zenon DEF CapabilityNext, capabilityVars
  <2> SUFFICES ASSUME NEW a \in Actors, NEW t \in Parents, NEW o \in Operations,
                      NEW now \in Times, ~Authorized(a, t, o, now), Authorized(a, t, o, now)'
               PROVE  \E id \in DOMAIN grants' \ DOMAIN grants :
                        /\ grants'[id].subject = a
                        /\ \/ grants'[id].parent = NoGrant
                           \/ Authorized(grants'[id].issuer, t, o, now)
    OBVIOUS
  <2>1. PICK id \in DOMAIN grants' :
          /\ grants'[id].subject = a /\ grants'[id].task \in {NoTask, t}
          /\ o \in grants'[id].operations /\ ActiveGrant(id, now)'
          /\ Envelope <= grants'[id].usage
    BY Zenon DEF Authorized
  <2>2. GrantsAreKept /\ revoked \subseteq revoked'
    BY CapabilityStepInv, Zenon
  <2>3. id \notin DOMAIN grants
    BY <2>1, <2>2, ActivityShrinks, Zenon DEF Authorized, GrantsAreKept
  <2>4. CASE InitializeControl
    BY <2>1, <2>3, <2>4, InitialGrantsAssumption, Zenon DEF InitializeControl
  <2>5. CASE \E i \in GrantIds, g \in Candidates, at \in Times : IssueCapability(i, g, at)
    <3>1. PICK i \in GrantIds, g \in Candidates, at \in Times : IssueCapability(i, g, at)
      BY <2>5, Zenon
    <3>2. i = id /\ grants'[id] = g
      BY <3>1, <2>1, <2>3, IssueCapabilityInv, ZenonT(60)
    <3>3. g.parent # NoGrant => Authorized(g.issuer, t, o, now)
      BY <3>1, <3>2, <2>1, IssuerWasAuthorized, SMTT(60)
    <3> QED BY <3>2, <3>3, <2>1, <2>3, Zenon
  <2>6. CASE \E p \in Actors, i \in Revocable : RevokeCapability(p, i)
    BY <2>6, <2>1, <2>3, Zenon DEF RevokeCapability
  <2> QED BY <2>4, <2>5, <2>6, Zenon DEF CapabilityStep
<1> QED BY <1>1, CapabilityCorrect, PTL DEF CapabilitySpec, AuthorityIsConserved

-----------------------------------------------------------------------------
(* The inductive invariant of the runtime control.                         *)
DeniedIsNotReserved == denied \cap Operating = {}

ControlInv ==
  /\ ControlTypeOK
  /\ PendingHoldsRun
  /\ BudgetNeverOversold
  /\ OperationCancellationIsDecisive
  /\ DeniedIsNotReserved

(* The step formula of DecisionIsFinal.                                    *)
KeepsDecisions ==
  /\ \A o \in Operating :
       /\ o \in DOMAIN ops' /\ o \notin denied'
       /\ Settled(o) => /\ ops'[o].outcome = ops[o].outcome
                        /\ ops'[o].accounted = ops[o].accounted
                        /\ ops'[o].refunded >= ops[o].refunded
  /\ denied \subseteq denied' /\ denied \cap DOMAIN ops' = {}

-----------------------------------------------------------------------------
(* Under runtime control a run takes lifecycle steps only, fewer of them:  *)
(* the checks for pending operations restrict transition_run and           *)
(* transition_task, and no control command touches the lifecycle stream.   *)
THEOREM ControlImplementsLifecycle == Spec => LifecycleSpec
<1>1. Init => LifecycleInit
  BY Zenon DEF Init
<1>2. [Next]_vars => [LifecycleNext]_lifecycleVars
  BY Zenon DEF Next, vars, lifecycleVars, ControlledLifecycle, LifecycleNext
<1> QED BY <1>1, <1>2, PTL DEF Spec, LifecycleSpec

-----------------------------------------------------------------------------
(* A step that leaves the operations, the accounts, the decisions and the  *)
(* lifecycle alone keeps the invariant as long as it keeps the types.      *)
LEMMA FrameInv ==
  ASSUME ControlInv, ControlTypeOK', UNCHANGED <<ops, totals, cancellations, denied, lifecycleVars>>
  PROVE  ControlInv' /\ KeepsDecisions
  BY DEF ControlInv, PendingHoldsRun, BudgetNeverOversold, OperationCancellationIsDecisive,
         DeniedIsNotReserved, KeepsDecisions, Pending, Settled, Operating, Committed,
         lifecycleVars, ControlTypeOK, Operation

(* A denial is recorded for an operation that was never reserved.          *)
LEMMA DenyInv ==
  ASSUME ControlInv, NEW o \in Ops, NEW a \in Actors, NEW t \in Parents, NEW d \in Deadlines,
         NEW s \in samples, Deny(o, a, t, d, s), UNCHANGED lifecycleVars
  PROVE  ControlInv' /\ KeepsDecisions
<1>1. o \notin Operating /\ denied' = denied \cup {o}
      /\ UNCHANGED <<ops, totals, cancellations, acks, corrupt, processVars>>
  BY Zenon DEF Deny, RecordDenial
<1>2. ControlTypeOK'
  BY <1>1, Zenon DEF ControlInv, ControlTypeOK, processVars, Operating
<1> QED BY <1>1, <1>2 DEF ControlInv, PendingHoldsRun, BudgetNeverOversold,
         OperationCancellationIsDecisive, DeniedIsNotReserved, KeepsDecisions, Pending,
         Settled, Operating, Committed, lifecycleVars, ControlTypeOK, Operation

(* operation-reserved: the guards of reserve_protected_operation.          *)
LEMMA ReserveInv ==
  ASSUME ControlInv, NEW o \in Ops, NEW a \in Actors, NEW t \in Parents, NEW d \in Deadlines,
         NEW p \in Processes, NEW s \in samples, NEW delivered \in BOOLEAN,
         Reserve(o, a, t, d, p, s, delivered), UNCHANGED lifecycleVars
  PROVE  ControlInv' /\ KeepsDecisions
<1> USE DEF ControlInv, Operating
<1>1. /\ o \notin DOMAIN ops /\ o \notin denied
      /\ EnsureReserveLifecycle(t) /\ ~CancellationApplies(t, o) /\ AllocationsFit(t, a)
      /\ UNCHANGED <<denied, cancellations, acks, corrupt, clock, samples>>
  BY Zenon DEF Reserve
<1>2. /\ DOMAIN ops' = DOMAIN ops \cup {o}
      /\ \A x \in DOMAIN ops : ops'[x] = ops[x]
      /\ ops'[o] = [subject |-> a, task |-> t, deadline |-> d,
                    reservedAt |-> s.wall, epoch |-> p, outcome |-> "Pending",
                    accounted |-> 0, refunded |-> 0, callbacks |-> {}]
  BY <1>1, Zenon DEF Reserve, RecordReservation
<1>3. totals' = [x \in Accounts |->
        IF x \in Charged(t, a) THEN [totals[x] EXCEPT !.reserved = @ + Envelope] ELSE totals[x]]
  BY Zenon DEF Reserve, RecordReservation
<1>4. leases' \subseteq leases \cup {LeaseOf(o, p, s)}
  BY Zenon DEF Reserve
<1>5. s \in Sample /\ Envelope \in Nat /\ d \in Nat
  BY CapabilityAssumption, ControlAssumption, Zenon DEF ControlTypeOK
<1>6. ops'[o] \in Operation
  BY <1>2, <1>5 DEF Operation, Sample, Outcomes
<1>7. totals' \in [Accounts -> [reserved: Nat, gross: Nat, refunded: Nat]]
  BY <1>3, <1>5 DEF ControlTypeOK
<1>8. leases' \subseteq Lease /\ \A l \in leases' : l.op \in DOMAIN ops'
  BY <1>2, <1>4, <1>5 DEF ControlTypeOK, Lease, LeaseOf, Sample
<1>9. ControlTypeOK'
  BY <1>1, <1>2, <1>6, <1>7, <1>8, Zenon DEF ControlTypeOK
<1>10. PendingHoldsRun'
  BY <1>1, <1>2, SMTT(60) DEF PendingHoldsRun, Pending, EnsureReserveLifecycle, lifecycleVars
<1>11. BudgetNeverOversold'
  <2> SUFFICES ASSUME NEW x \in Accounts
               PROVE  Committed(x)' + totals'[x].reserved <= HardLimit[x]
    BY Zenon DEF BudgetNeverOversold
  <2>1. totals[x] \in [reserved: Nat, gross: Nat, refunded: Nat] /\ HardLimit[x] \in Nat
    BY ControlAssumption, Zenon DEF ControlTypeOK
  <2>2. CASE x \in Charged(t, a)
    BY <2>1, <2>2, <1>1, <1>3, <1>5 DEF AllocationsFit, Committed
  <2>3. CASE x \notin Charged(t, a)
    BY <2>1, <2>3, <1>3, Zenon DEF BudgetNeverOversold, Committed
  <2> QED BY <2>2, <2>3, Zenon
<1>12. OperationCancellationIsDecisive' /\ DeniedIsNotReserved'
  BY <1>1, <1>2, SMTT(60) DEF OperationCancellationIsDecisive, DeniedIsNotReserved, Settled
<1>13. KeepsDecisions
  BY <1>1, <1>2 DEF KeepsDecisions, Settled, DeniedIsNotReserved, ControlTypeOK, Operation
<1> QED BY <1>9, <1>10, <1>11, <1>12, <1>13, Zenon

(* Replacing a reserved envelope by at most as much consumption fits.      *)
LEMMA ReleaseFits ==
  ASSUME NEW r \in [reserved: Nat, gross: Nat, refunded: Nat], NEW e \in Nat, NEW c \in 0..e,
         NEW limit \in Nat, e <= r.reserved, r.gross - r.refunded + r.reserved <= limit,
         NEW q, q = [r EXCEPT !.reserved = @ - e, !.gross = @ + c]
  PROVE  /\ q \in [reserved: Nat, gross: Nat, refunded: Nat]
         /\ q.gross - q.refunded + q.reserved <= limit
<1>1. r.reserved \in Nat /\ r.gross \in Nat /\ r.refunded \in Nat /\ c \in Nat /\ c <= e
  OBVIOUS
<1>2. q = [reserved |-> r.reserved - e, gross |-> r.gross + c, refunded |-> r.refunded]
  BY Zenon
<1>3. r.reserved - e \in Nat /\ r.gross + c \in Nat
  BY <1>1
<1>4. r.gross + c - r.refunded + (r.reserved - e) <= limit
  BY <1>1
<1> QED BY <1>1, <1>2, <1>3, <1>4

(* operation-settled, by settle_operation or recover_timeout: what is      *)
(* released is the envelope, what is accounted at most that.               *)
LEMMA SettlementInv ==
  ASSUME ControlInv, NEW o \in Ops, NEW outcome \in Outcomes, NEW meter \in Meters,
         NEW wall, NEW callbacks \in SUBSET Callbacks, NEW authority,
         Settlement(o, outcome, meter, wall, callbacks, authority),
         UNCHANGED <<denied, cancellations, acks, processVars, lifecycleVars>>
  PROVE  ControlInv' /\ KeepsDecisions
<1> USE DEF ControlInv, Operating
<1>1. CASE corrupt' = TRUE /\ UNCHANGED <<ops, totals>>
  <2>1. ControlTypeOK'
    BY <1>1, Zenon DEF ControlTypeOK, processVars
  <2> QED BY <1>1, <2>1, FrameInv, Zenon
<1>2. CASE /\ SettlementFolds(o, outcome, wall) /\ UNCHANGED corrupt
           /\ RecordSettlement(o, outcome, meter, callbacks)
  <2>1. Pending(o) /\ o \in DOMAIN ops /\ ops[o] \in Operation
    BY <1>2, Zenon DEF SettlementFolds, Pending, ControlTypeOK
  <2>2. Accounted(meter) \in 0..Envelope /\ Envelope \in Nat
    BY CapabilityAssumption, ControlAssumption DEF Accounted
  <2>3. /\ DOMAIN ops' = DOMAIN ops
        /\ \A x \in DOMAIN ops \ {o} : ops'[x] = ops[x]
        /\ ops'[o] = [ops[o] EXCEPT !.outcome = outcome, !.accounted = Accounted(meter),
                                    !.callbacks = @ \cup callbacks]
    BY <1>2, <2>1, Zenon DEF RecordSettlement
  <2>4. ops'[o] \in Operation /\ ops'[o].outcome = outcome /\ ops'[o].task = ops[o].task
    BY <2>1, <2>2, <2>3, ZenonT(60) DEF Operation
  <2>5. ASSUME NEW x \in Accounts
        PROVE  /\ totals'[x] \in [reserved: Nat, gross: Nat, refunded: Nat]
               /\ Committed(x)' + totals'[x].reserved <= HardLimit[x]
    <3>1. /\ totals[x] \in [reserved: Nat, gross: Nat, refunded: Nat] /\ HardLimit[x] \in Nat
          /\ totals[x].gross - totals[x].refunded + totals[x].reserved <= HardLimit[x]
      BY ControlAssumption, Zenon DEF ControlTypeOK, BudgetNeverOversold, Committed
    <3>2. CASE x \in Charged(ops[o].task, ops[o].subject)
      <4>1. totals'[x] = [totals[x] EXCEPT !.reserved = @ - Envelope, !.gross = @ + Accounted(meter)]
        BY <1>2, <3>2, Zenon DEF RecordSettlement
      <4>2. Envelope <= totals[x].reserved
        BY <1>2, <3>2, Zenon DEF SettlementFolds
      <4> QED BY <4>1, <4>2, <3>1, <2>2, ReleaseFits, Zenon DEF Committed
    <3>3. CASE x \notin Charged(ops[o].task, ops[o].subject)
      <4>1. totals'[x] = totals[x]
        BY <1>2, <3>3, Zenon DEF RecordSettlement
      <4> QED BY <4>1, <3>1, Zenon DEF Committed
    <3> QED BY <3>2, <3>3, Zenon
  <2>6. totals' \in [Accounts -> [reserved: Nat, gross: Nat, refunded: Nat]]
    BY <1>2, <2>5, Zenon DEF RecordSettlement
  <2>7. ControlTypeOK'
    <3>1. \A x \in DOMAIN ops' : ops'[x] \in Operation
      BY <2>3, <2>4, Zenon DEF ControlTypeOK
    <3> QED BY <1>2, <2>3, <3>1, <2>6, Zenon DEF ControlTypeOK, processVars
  <2>8. PendingHoldsRun'
    <3>1. \A x \in DOMAIN ops' : Pending(x)' => x # o /\ Pending(x) /\ ops'[x] = ops[x]
      BY <2>3, <2>4, Zenon DEF Pending, Outcomes
    <3> QED BY <3>1, Zenon DEF PendingHoldsRun, Pending, lifecycleVars
  <2>9. BudgetNeverOversold'
    BY <2>5, Zenon DEF BudgetNeverOversold
  <2>10. OperationCancellationIsDecisive'
    <3>1. o \in cancellations => outcome \in {"Cancelled", "TimedOut"}
      BY <1>2, Zenon DEF SettlementFolds, CancellationApplies, CancelTargetMatches
    <3> QED BY <3>1, <2>3, <2>4, Zenon DEF OperationCancellationIsDecisive, Settled
  <2>11. DeniedIsNotReserved' /\ KeepsDecisions
    BY <2>1, <2>3 DEF DeniedIsNotReserved, KeepsDecisions, Settled, Pending, ControlTypeOK, Operation
  <2> QED BY <2>7, <2>8, <2>9, <2>10, <2>11, Zenon
<1> QED BY <1>1, <1>2, Zenon DEF Settlement

(* late-result-observed adds to the callbacks of a settled operation.      *)
LEMMA LateResultInv ==
  ASSUME ControlInv, NEW l \in leases, NEW k \in Callbacks, NEW s \in samples, NEW at,
         ObserveLateResult(l, k, s, at), UNCHANGED lifecycleVars
  PROVE  ControlInv' /\ KeepsDecisions
<1> USE DEF ControlInv, Operating
<1>1. /\ Settled(l.op) /\ UNCHANGED <<denied, totals, cancellations, acks, processVars>>
      /\ RecordLateCallback(l, k, s, at)
  BY Zenon DEF ObserveLateResult
<1>2. CASE corrupt' = TRUE /\ UNCHANGED ops
  <2>1. ControlTypeOK'
    BY <1>1, <1>2, Zenon DEF ControlTypeOK, processVars
  <2> QED BY <1>1, <1>2, <2>1, FrameInv, Zenon
<1>3. CASE ops' = [ops EXCEPT ![l.op].callbacks = @ \cup {k}] /\ UNCHANGED corrupt
  <2>1. l.op \in DOMAIN ops /\ ops[l.op] \in Operation
    BY <1>1, Zenon DEF Settled, ControlTypeOK
  <2>2. /\ DOMAIN ops' = DOMAIN ops
        /\ \A x \in DOMAIN ops \ {l.op} : ops'[x] = ops[x]
        /\ ops'[l.op] = [ops[l.op] EXCEPT !.callbacks = @ \cup {k}]
    BY <1>3, <2>1, Zenon
  <2>3. /\ \A x \in DOMAIN ops : ops'[x] \in Operation
        /\ \A x \in DOMAIN ops : /\ ops'[x].outcome = ops[x].outcome /\ ops'[x].task = ops[x].task
                                /\ ops'[x].accounted = ops[x].accounted
                                /\ ops'[x].refunded = ops[x].refunded /\ ops[x].refunded \in Nat
    BY <2>1, <2>2, CapabilityAssumption, SMTT(20) DEF ControlTypeOK, Operation
  <2>4. ControlTypeOK'
    BY <1>1, <1>3, <2>2, <2>3, Zenon DEF ControlTypeOK, processVars
  <2>5. (PendingHoldsRun /\ BudgetNeverOversold)'
    BY <1>1, <2>2, <2>3 DEF PendingHoldsRun, BudgetNeverOversold, Pending, Committed, lifecycleVars
  <2>6. (OperationCancellationIsDecisive /\ DeniedIsNotReserved)' /\ KeepsDecisions
    BY <1>1, <2>2, <2>3 DEF OperationCancellationIsDecisive, DeniedIsNotReserved, KeepsDecisions, Settled
  <2> QED BY <2>4, <2>5, <2>6, Zenon
<1> QED BY <1>1, <1>2, <1>3, Zenon DEF RecordLateCallback

(* cancellation-requested: an operation is cancelled while it is pending.  *)
LEMMA RequestCancellationInv ==
  ASSUME ControlInv, NEW a \in Actors, NEW target \in CancelTargets,
         RequestCancellation(a, target), UNCHANGED lifecycleVars
  PROVE  ControlInv' /\ KeepsDecisions
<1> USE DEF ControlInv, Operating
<1>1. /\ target \in Ops => Pending(target)
      /\ cancellations' = cancellations \cup {target}
      /\ UNCHANGED <<ops, denied, totals, acks, corrupt, processVars>>
  BY Zenon DEF RequestCancellation, RecordCancellation
<1>2. ControlTypeOK'
  BY <1>1, ControlAssumption, Zenon DEF ControlTypeOK, processVars, Targets
<1>3. (PendingHoldsRun /\ BudgetNeverOversold /\ DeniedIsNotReserved)'
  BY <1>1, Zenon DEF PendingHoldsRun, BudgetNeverOversold, DeniedIsNotReserved, Pending, Committed, lifecycleVars
<1>4. OperationCancellationIsDecisive'
  BY <1>1, Zenon DEF OperationCancellationIsDecisive, Settled, Pending, ControlTypeOK
<1>5. KeepsDecisions
  BY <1>1, CapabilityAssumption DEF KeepsDecisions, DeniedIsNotReserved, ControlTypeOK, Operation
<1> QED BY <1>2, <1>3, <1>4, <1>5, Zenon

(* budget-refunded: refunds stay within what was accounted and only lower  *)
(* what an account has committed.                                          *)
LEMMA RefundInv ==
  ASSUME ControlInv, NEW o \in Ops, NEW amount \in 1..Envelope, RefundBudget(o, amount),
         UNCHANGED lifecycleVars
  PROVE  ControlInv' /\ KeepsDecisions
<1> USE DEF ControlInv, Operating
<1>1. /\ Settled(o) /\ o \in DOMAIN ops /\ ops[o] \in Operation
      /\ ops[o].refunded + amount <= ops[o].accounted
      /\ RecordRefund(o, amount)
      /\ UNCHANGED <<denied, cancellations, acks, corrupt, processVars>>
  BY Zenon DEF RefundBudget, Settled, ControlTypeOK
<1>2. /\ DOMAIN ops' = DOMAIN ops
      /\ \A x \in DOMAIN ops \ {o} : ops'[x] = ops[x]
      /\ ops'[o] = [ops[o] EXCEPT !.refunded = @ + amount]
  BY <1>1, Zenon DEF RecordRefund
<1>3. \A x \in DOMAIN ops :
        /\ ops'[x] \in Operation
        /\ ops'[x].outcome = ops[x].outcome /\ ops'[x].task = ops[x].task
        /\ ops'[x].accounted = ops[x].accounted /\ ops'[x].refunded >= ops[x].refunded
  BY <1>1, <1>2, CapabilityAssumption DEF ControlTypeOK, Operation
<1>4. ASSUME NEW x \in Accounts
      PROVE  /\ totals'[x] \in [reserved: Nat, gross: Nat, refunded: Nat]
             /\ Committed(x)' + totals'[x].reserved <= HardLimit[x]
  <2>1. /\ totals[x] \in [reserved: Nat, gross: Nat, refunded: Nat] /\ HardLimit[x] \in Nat
        /\ totals[x].gross - totals[x].refunded + totals[x].reserved <= HardLimit[x]
    BY ControlAssumption, Zenon DEF ControlTypeOK, BudgetNeverOversold, Committed
  <2>2. \/ totals'[x] = [totals[x] EXCEPT !.refunded = @ + amount]
        \/ totals'[x] = totals[x]
    BY <1>1, Zenon DEF RecordRefund
  <2> QED BY <2>1, <2>2, CapabilityAssumption, SMTT(60) DEF Committed
<1>5. totals' \in [Accounts -> [reserved: Nat, gross: Nat, refunded: Nat]]
  BY <1>1, <1>4, Zenon DEF RecordRefund
<1>6. ControlTypeOK'
  BY <1>1, <1>2, <1>3, <1>5, Zenon DEF ControlTypeOK, processVars
<1>7. (PendingHoldsRun /\ BudgetNeverOversold)'
  BY <1>2, <1>3, <1>4, SMTT(60) DEF PendingHoldsRun, BudgetNeverOversold, Pending, lifecycleVars
<1>8. (OperationCancellationIsDecisive /\ DeniedIsNotReserved)' /\ KeepsDecisions
  BY <1>1, <1>2, <1>3, Zenon DEF OperationCancellationIsDecisive, DeniedIsNotReserved, KeepsDecisions, Settled
<1> QED BY <1>6, <1>7, <1>8, Zenon

(* rebind_operation_lease, cancellation-acknowledged, the clocks and the   *)
(* loss of leases change neither operations nor accounts.                  *)
LEMMA RebindInv ==
  ASSUME ControlInv, NEW o \in Ops, NEW p \in Processes, NEW s \in samples,
         RebindOperationLease(o, p, s), UNCHANGED lifecycleVars
  PROVE  ControlInv' /\ KeepsDecisions
<1>1. /\ o \in Operating /\ leases' \subseteq leases \cup {LeaseOf(o, p, s)}
      /\ UNCHANGED <<controlVars, clock, samples>>
  BY Zenon DEF RebindOperationLease, Pending
<1>2. LeaseOf(o, p, s) \in Lease /\ LeaseOf(o, p, s).op = o
  BY Zenon DEF ControlInv, ControlTypeOK, LeaseOf, Lease, Sample
<1>3. ControlTypeOK'
  BY <1>1, <1>2, Zenon DEF ControlInv, ControlTypeOK, controlVars, Operating
<1> QED BY <1>1, <1>3, FrameInv, Zenon DEF controlVars

(* acknowledge_cancellation records the acknowledgement, or finds the fold *)
(* corrupt, and touches no operation.                                      *)
LEMMA AcknowledgeInv ==
  ASSUME ControlInv, NEW l \in leases, NEW target \in cancellations, NEW s \in samples,
         AcknowledgeCancellation(l, target, s), UNCHANGED lifecycleVars
  PROVE  ControlInv' /\ KeepsDecisions
<1>1. UNCHANGED <<ops, denied, totals, cancellations, processVars>>
  BY Zenon DEF AcknowledgeCancellation
<1>2. acks' \subseteq Targets \X Ops /\ corrupt' \in BOOLEAN
  <2>1. \/ acks' = acks \cup {<<target, l.op>>} /\ UNCHANGED corrupt
        \/ corrupt' = TRUE /\ UNCHANGED acks
    BY Zenon DEF AcknowledgeCancellation, RecordAck
  <2>2. <<target, l.op>> \in Targets \X Ops
    BY Zenon DEF ControlInv, ControlTypeOK, Lease
  <2> QED BY <2>1, <2>2, ZenonT(60) DEF ControlInv, ControlTypeOK
<1>3. ControlTypeOK'
  BY <1>1, <1>2, Zenon DEF ControlInv, ControlTypeOK, processVars, Operating
<1> QED BY <1>1, <1>3, FrameInv, Zenon

(* Time passing, a corrected clock and a process that loses its leases     *)
(* change nothing that is recorded.                                        *)
LEMMA EnvironmentInv ==
  ASSUME ControlInv, UNCHANGED lifecycleVars,
         \/ Tick
         \/ \E wall \in Times : Correct(wall)
         \/ \E p \in Processes : LoseLeases(p)
  PROVE  ControlInv' /\ KeepsDecisions
<1>1. UNCHANGED controlVars /\ leases' \subseteq leases
  BY Zenon DEF Tick, Correct, LoseLeases
<1>2. clock' \in Sample /\ samples' \subseteq Sample
  <2>1. clock \in Sample /\ samples \subseteq Sample /\ Times \subseteq Nat
    BY CapabilityAssumption, SMTT(60) DEF ControlInv, ControlTypeOK, Times
  <2>2. CASE Tick
    BY <2>1, <2>2 DEF Tick, Sample
  <2>3. CASE \E wall \in Times : Correct(wall)
    BY <2>1, <2>3, Zenon DEF Correct, Sample
  <2>4. CASE \E p \in Processes : LoseLeases(p)
    BY <2>1, <2>4, Zenon DEF LoseLeases
  <2> QED BY <2>2, <2>3, <2>4, Zenon
<1>3. ControlTypeOK'
  BY <1>1, <1>2, Zenon DEF ControlInv, ControlTypeOK, controlVars, Operating
<1> QED BY <1>1, <1>3, FrameInv, Zenon DEF controlVars

(* A lifecycle step waits for the operations it would leave behind: every  *)
(* edge out of Running pauses or ends the run or the task.                 *)
LEMMA LifecycleStepInv ==
  ASSUME ControlInv, LifecycleTypeOK, ControlledLifecycle, UNCHANGED <<processVars, controlVars>>
  PROVE  ControlInv' /\ KeepsDecisions
<1>1. ControlTypeOK' /\ BudgetNeverOversold' /\ OperationCancellationIsDecisive'
      /\ DeniedIsNotReserved' /\ KeepsDecisions
  BY SMTT(60) DEF ControlInv, ControlTypeOK, BudgetNeverOversold, OperationCancellationIsDecisive,
         DeniedIsNotReserved, KeepsDecisions, Settled, Operating, Committed, controlVars,
         processVars, Operation
<1>2. PendingHoldsRun'
  <2> SUFFICES ASSUME NEW o \in Operating, Pending(o)
               PROVE  /\ runState' = "Running"
                      /\ ops[o].task # NoTask => taskState'[ops[o].task] = "Running"
    BY Zenon DEF PendingHoldsRun, Pending, Operating, controlVars
  <2>1. /\ runState = "Running" /\ ~Settled(o) /\ ops[o].task \in Parents
        /\ ops[o].task # NoTask => taskState[ops[o].task] = "Running"
    BY Zenon DEF ControlInv, ControlTypeOK, PendingHoldsRun, Pending, Settled, Operation
  <2>2. CASE CreateRun
    BY <2>1, <2>2, Zenon DEF CreateRun, Absent
  <2>3. CASE \E t \in Tasks, p \in Parents : CreateTask(t, p)
    BY <2>1, <2>3, Zenon DEF CreateTask, ValidTaskCreation
  <2>4. CASE \E to \in RunStates : EnsureNoPendingForRun(to) /\ TransitionRun(to)
    BY <2>1, <2>4, Zenon DEF EnsureNoPendingForRun, TransitionRun, ValidRunTransition, IsRunEdge,
                      Stops, TerminalStates
  <2>5. CASE \E t \in Tasks, to \in TaskStates :
               EnsureNoPendingForTask(t, to) /\ TransitionTask(t, to)
    <3>1. PICK t \in Tasks, to \in TaskStates :
            EnsureNoPendingForTask(t, to) /\ TransitionTask(t, to)
      BY <2>5, Zenon
    <3>2. /\ runState' = runState /\ taskState' = [taskState EXCEPT ![t] = to]
          /\ IsTaskEdge(taskState[t], to)
      BY <3>1, Zenon DEF TransitionTask, ValidTaskTransition
    <3>3. ops[o].task # t
      BY <3>1, <3>2, <2>1, NoTaskAssumption
     , Zenon DEF EnsureNoPendingForTask, IsTaskEdge, Stops, TerminalStates
    <3> QED BY <3>2, <3>3, <2>1, Zenon DEF LifecycleTypeOK, Parents
  <2> QED BY <2>2, <2>3, <2>4, <2>5, Zenon DEF ControlledLifecycle
<1> QED BY <1>1, <1>2, Zenon DEF ControlInv

(* Every operation of the runtime control keeps the invariant and every    *)
(* decision taken.                                                         *)
LEMMA ControlStepInv ==
  ASSUME ControlInv, ControlStep, UNCHANGED lifecycleVars
  PROVE  ControlInv' /\ KeepsDecisions
<1>1. CASE \E o \in Ops, a \in Actors, t \in Parents, d \in Deadlines, s \in samples :
             \/ Deny(o, a, t, d, s)
             \/ \E p \in Processes, delivered \in BOOLEAN : Reserve(o, a, t, d, p, s, delivered)
  BY <1>1, DenyInv, ReserveInv, Zenon
<1>2. CASE \E o \in Ops, p \in Processes, s \in samples : RebindOperationLease(o, p, s)
  BY <1>2, RebindInv, Zenon
<1>3. CASE \E l \in leases, k \in Callbacks, s \in samples :
             \E outcome \in Outcomes, meter \in Meters : SettleOperation(l, k, outcome, meter, s)
  <2>1. PICK l \in leases, k \in Callbacks, s \in samples, outcome \in Outcomes, meter \in Meters :
          SettleOperation(l, k, outcome, meter, s)
    BY <1>3, Zenon
  <2>2. l.op \in Ops /\ SettledOutcome(outcome, meter) \in Outcomes /\ {k} \in SUBSET Callbacks
    BY Zenon DEF ControlInv, ControlTypeOK, Lease, SettledOutcome, Outcomes
  <2>3. /\ Settlement(l.op, SettledOutcome(outcome, meter), meter, s.wall, {k},
                      CallbackAuthorityFolds(l, s) /\ s.mono < DeadlineMono(l))
        /\ UNCHANGED <<denied, cancellations, acks, processVars>>
    BY <2>1, Zenon DEF SettleOperation
  <2> QED BY <2>2, <2>3, SettlementInv, Zenon
<1>4. CASE \E l \in leases, k \in Callbacks, s \in samples :
             \/ SettleLate(l, k, s)
             \/ \E at \in CallerStamps \cup {s.wall} : ObserveLateResult(l, k, s, at)
  BY <1>4, LateResultInv, Zenon DEF SettleLate
<1>5. CASE \E a \in Actors, target \in CancelTargets : RequestCancellation(a, target)
  BY <1>5, RequestCancellationInv, Zenon
<1>6. CASE \E l \in leases, target \in cancellations, s \in samples :
             AcknowledgeCancellation(l, target, s)
  BY <1>6, AcknowledgeInv, Zenon
<1>7. CASE \E o \in Ops, amount \in Refunds : RefundBudget(o, amount)
  BY <1>7, RefundInv, ControlAssumption, Zenon
<1>8. CASE \E o \in Ops : TimeoutStep(o)
  <2>1. PICK o \in Ops, meter \in Meters, s \in samples : RecoverTimeout(o, meter, s)
    BY <1>8, Zenon DEF TimeoutStep
  <2>2. /\ Settlement(o, "TimedOut", meter, s.wall, {}, TRUE)
        /\ UNCHANGED <<denied, cancellations, acks, processVars>>
    BY <2>1, Zenon DEF RecoverTimeout
  <2>3. "TimedOut" \in Outcomes /\ {} \in SUBSET Callbacks
    BY Zenon DEF Outcomes
  <2> QED BY <2>2, <2>3, SettlementInv, Zenon
<1>9. CASE \/ Tick
           \/ \E wall \in Times : Correct(wall)
           \/ \E p \in Processes : LoseLeases(p)
  BY <1>9, EnvironmentInv, Zenon
<1> QED BY <1>1, <1>2, <1>3, <1>4, <1>5, <1>6, <1>7, <1>8, <1>9, Zenon DEF ControlStep

-----------------------------------------------------------------------------
(* Every step does, those of the lifecycle and of the capabilities         *)
(* included.                                                               *)
LEMMA NextInv ==
  ASSUME ControlInv, LifecycleTypeOK, [Next]_vars
  PROVE  ControlInv' /\ [KeepsDecisions]_vars
<1>1. CASE ControlStep /\ UNCHANGED <<lifecycleVars, capabilityVars>>
  BY <1>1, ControlStepInv, Zenon
<1>2. CASE CapabilityStep /\ UNCHANGED <<lifecycleVars, processVars, controlVars>>
  <2>1. ControlTypeOK'
    BY <1>2, Zenon DEF ControlInv, ControlTypeOK, processVars, controlVars, Operating
  <2> QED BY <1>2, <2>1, FrameInv, Zenon DEF controlVars
<1>3. CASE ControlledLifecycle /\ UNCHANGED <<capabilityVars, processVars, controlVars>>
  BY <1>3, LifecycleStepInv, Zenon
<1>4. CASE UNCHANGED vars
  <2>1. ControlTypeOK'
    BY <1>4, Zenon DEF ControlInv, ControlTypeOK, vars, processVars, controlVars, Operating
  <2> QED BY <1>4, <2>1, FrameInv, Zenon DEF vars, controlVars
<1> QED BY <1>1, <1>2, <1>3, <1>4, Zenon DEF Next

(* The inductive invariant holds: initially nothing is reserved, and every *)
(* control, capability, lifecycle or clock step keeps it.                  *)
THEOREM ControlCorrect == Spec => []ControlInv
<1>1. Init => ControlInv
  <2> SUFFICES ASSUME Init PROVE ControlInv
    BY Zenon
  <2>1. ControlTypeOK
    <3>1. clock \in Sample /\ samples \subseteq Sample
      BY DEF Init, ControlInit, Sample
    <3>2. totals \in [Accounts -> [reserved: Nat, gross: Nat, refunded: Nat]]
      BY Zenon DEF Init, ControlInit
    <3>3. Operating = {} /\ leases = {} /\ denied = {} /\ cancellations = {} /\ acks = {}
          /\ corrupt = FALSE
      BY Zenon DEF Init, ControlInit, Operating
    <3> QED BY <3>1, <3>2, <3>3, Zenon DEF ControlTypeOK
  <2>2. PendingHoldsRun /\ OperationCancellationIsDecisive /\ DeniedIsNotReserved
    BY Zenon DEF Init, ControlInit, PendingHoldsRun, OperationCancellationIsDecisive,
           DeniedIsNotReserved, Operating
  <2>3. BudgetNeverOversold
    BY ControlAssumption DEF Init, ControlInit, BudgetNeverOversold, Committed
  <2> QED BY <2>1, <2>2, <2>3, Zenon DEF ControlInv
<1>2. ControlInv /\ LifecycleInv /\ [Next]_vars => ControlInv'
  BY NextInv, Zenon DEF LifecycleInv
<1> QED BY <1>1, <1>2, ControlImplementsLifecycle, LifecycleCorrect, PTL DEF Spec

(* Folded control state and leases keep their types; in particular no      *)
(* account total goes below zero (the checked_sub of the fold).            *)
THEOREM ControlTypesHold == Spec => []ControlTypeOK
<1>1. ControlInv => ControlTypeOK
  BY Zenon DEF ControlInv
<1> QED BY <1>1, ControlCorrect, PTL

(* No pending operation outlives the Running state of its run or its task: *)
(* reserve_protected_operation against ensure_no_pending_for_run and       *)
(* ensure_no_pending_for_task.                                             *)
THEOREM NoOrphanedOperation == Spec => []PendingHoldsRun
<1>1. ControlInv => PendingHoldsRun
  BY Zenon DEF ControlInv
<1> QED BY <1>1, ControlCorrect, PTL

(* No hard limit of the budget plan is ever exceeded (reserve_allocations, *)
(* settlement and refund together).                                        *)
THEOREM HardLimitsHold == Spec => []BudgetNeverOversold
<1>1. ControlInv => BudgetNeverOversold
  BY Zenon DEF ControlInv
<1> QED BY <1>1, ControlCorrect, PTL

(* An operation whose own cancellation was committed does not complete     *)
(* (request_cancellation against settle_operation).                        *)
THEOREM CancellationDecides == Spec => []OperationCancellationIsDecisive
<1>1. ControlInv => OperationCancellationIsDecisive
  BY Zenon DEF ControlInv
<1> QED BY <1>1, ControlCorrect, PTL

(* Under the control plane's restrictions the lifecycle keeps its own      *)
(* invariants: LifecycleInv of the composed system.                        *)
THEOREM ControlledLifecycleCorrect == Spec => []LifecycleInv
BY ControlImplementsLifecycle, LifecycleCorrect, PTL

(* A settlement or a denial is never taken back or changed by any command. *)
THEOREM DecisionsAreFinal == Spec => DecisionIsFinal
<1>1. ControlInv /\ LifecycleInv /\ [Next]_vars => [KeepsDecisions]_vars
  BY NextInv, Zenon DEF LifecycleInv
<1>2. Spec => [][KeepsDecisions]_vars
  BY <1>1, ControlCorrect, ControlImplementsLifecycle, LifecycleCorrect, PTL DEF Spec
<1> QED BY <1>2, Zenon DEF DecisionIsFinal, KeepsDecisions
=============================================================================
