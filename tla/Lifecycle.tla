------------------------------ MODULE Lifecycle ------------------------------
(***************************************************************************)
(* The lifecycle aggregate of one run: create_run, create_task,            *)
(* transition_run and transition_task, each one SQLite transaction         *)
(* (BEGIN IMMEDIATE), so each is one step here.  The module describes the  *)
(* run as it behaves without a runtime-control and an effect stream (the   *)
(* pending-operation and effect-completion checks pass when the streams do *)
(* not exist); RuntimeControl adds those checks to the same actions.       *)
(***************************************************************************)
EXTENDS LifecycleRules

VARIABLES
  runState,   \* LifecycleState.run_state, Absent before run-created
  taskState,  \* LifecycleState.tasks[t].state
  parent      \* LifecycleState.tasks[t].parent_task_id

lifecycleVars == <<runState, taskState, parent>>

LifecycleInit ==
  /\ runState = Absent
  /\ taskState = [t \in Tasks |-> Absent]
  /\ parent = [t \in Tasks |-> NoTask]

CreateRun ==
  /\ runState = Absent
  /\ runState' = "Created"
  /\ UNCHANGED <<taskState, parent>>

CreateTask(t, p) ==
  /\ ValidTaskCreation(runState, taskState, t, p)
  /\ taskState' = [taskState EXCEPT ![t] = "Created"]
  /\ parent' = [parent EXCEPT ![t] = p]
  /\ UNCHANGED runState

TransitionRun(to) ==
  /\ ValidRunTransition(taskState, runState, to)
  /\ runState' = to
  /\ UNCHANGED <<taskState, parent>>

(* Variant: the edge is checked, the other tasks are not.                  *)
TransitionTaskAlone(t, to) ==
  /\ runState \notin TerminalStates
  /\ IsTaskEdge(taskState[t], to)
  /\ taskState' = [taskState EXCEPT ![t] = to]
  /\ UNCHANGED <<runState, parent>>

TransitionTask(t, to) ==
  /\ ValidTaskTransition(runState, taskState, parent, t, taskState[t], to)
  /\ taskState' = [taskState EXCEPT ![t] = to]
  /\ UNCHANGED <<runState, parent>>

LifecycleNext ==
  \/ CreateRun
  \/ \E t \in Tasks, p \in Parents : CreateTask(t, p)
  \/ \E to \in RunStates : TransitionRun(to)
  \/ \E t \in Tasks, to \in TaskStates : TransitionTask(t, to)

LifecycleSpec == LifecycleInit /\ [][LifecycleNext]_lifecycleVars

-----------------------------------------------------------------------------
(* Type invariant: the folded aggregate always has its declared shape.     *)
LifecycleTypeOK ==
  /\ runState \in RunStates \cup {Absent}
  /\ taskState \in [Tasks -> TaskStates \cup {Absent}]
  /\ parent \in [Tasks -> Parents]

(* A task that runs does so under a running run and a running parent: the  *)
(* pause and completion guards of transition_run and transition_task       *)
(* (children first, then parent, then run) leave no running orphan.        *)
RunningIsNested ==
  \A t \in Tasks : taskState[t] = "Running" =>
    /\ runState = "Running"
    /\ parent[t] # NoTask => taskState[parent[t]] = "Running"

(* A terminal task has only terminal children, and a succeeded one only    *)
(* succeeded children, although parents and children are transitioned by   *)
(* separate commands in any order and tasks are created concurrently.      *)
TerminalIsClosedDownward ==
  \A t \in Tasks : \A c \in Children(taskState, parent, t) :
    /\ taskState[t] \in TerminalStates => taskState[c] \in TerminalStates
    /\ taskState[t] = "Succeeded" => taskState[c] = "Succeeded"

(* The outcome recorded for the run is the one its tasks justify, and      *)
(* stays so: success means every task succeeded, failure that some task    *)
(* failed, cancellation that none failed; no task is left live.            *)
RunOutcomeMatchesTasks ==
  /\ runState \in TerminalStates => AllTerminal(taskState)
  /\ runState = "Succeeded" =>
       \A t \in Known(taskState) : taskState[t] = "Succeeded"
  /\ runState = "Failed" => SomeTask(taskState, "Failed")
  /\ runState = "Cancelled" =>
       /\ ~SomeTask(taskState, "Failed")
       /\ Known(taskState) = {} \/ SomeTask(taskState, "Cancelled")

(* Tasks are prepared (Created) only while the run is Created: once the    *)
(* run has started no task is ever waiting to become Ready, and a paused   *)
(* run has no running task that could commit work behind the pause.        *)
StartedRunIsPrepared ==
  /\ runState = "Running" => ~SomeTask(taskState, "Created")
  /\ runState = "Paused" => Quiescent(taskState)

(* Every parent of a task exists, so load_established can resolve the      *)
(* whole ancestry of a task that is transitioned.                          *)
ParentsExist ==
  \A t \in Known(taskState) :
    parent[t] # NoTask => parent[t] \in Known(taskState)

(* The task hierarchy is a forest: every set of tasks has a member none of *)
(* whose children is in the set, so ownership has no cycle and there is    *)
(* always a task that can be finished first.  In a cycle every task would  *)
(* wait for its own completion.                                            *)
TaskHierarchyIsForest ==
  \A S \in SUBSET Known(taskState) :
    S # {} => \E t \in S : \A c \in S : parent[c] # t

(* The one place where a live run cannot move any more: it was paused when *)
(* all its tasks had already succeeded.  validate_run_transition lets a    *)
(* run pause in that state, but Paused -> Running asks for a task that is  *)
(* not terminal, Failed for a failed and Cancelled for a cancelled one.    *)
StuckAfterSuccess ==
  /\ runState = "Paused"
  /\ \A t \in Known(taskState) : taskState[t] = "Succeeded"

CanAdvance ==
  \/ runState = Absent
  \/ \E to \in RunStates : ValidRunTransition(taskState, runState, to)
  \/ \E t \in Tasks, p \in Parents : ValidTaskCreation(runState, taskState, t, p)
  \/ \E t \in Tasks, to \in TaskStates :
       ValidTaskTransition(runState, taskState, parent, t, taskState[t], to)

(* A run that is not terminal can always take another step, except in the  *)
(* one state above: no combination of task outcomes, pauses and nested     *)
(* tasks that validate_run_transition and validate_task_transition allow   *)
(* leaves the run stranded in any other way.                               *)
OnlyStuckAfterSuccess ==
  runState \notin TerminalStates /\ ~CanAdvance => StuckAfterSuccess

(* Terminal states are final and parents are fixed: no later command, of   *)
(* whatever kind, changes a terminal run, a terminal task or the parent of *)
(* an existing task.                                                       *)
TerminalIsFinal ==
  [][/\ runState \in TerminalStates => UNCHANGED lifecycleVars
     /\ \A t \in Tasks :
          /\ taskState[t] \in TerminalStates => taskState'[t] = taskState[t]
          /\ taskState[t] # Absent => parent'[t] = parent[t]
                                      /\ taskState'[t] # Absent]_lifecycleVars

-----------------------------------------------------------------------------
(* Strengthening for the proof: what a task may be in each state of the    *)
(* run, and how a task relates to its parent.                              *)
PhaseInv ==
  /\ runState = Absent => Known(taskState) = {}
  /\ runState = "Created" =>
       \A t \in Known(taskState) :
         taskState[t] \in {"Created", "Ready", "Failed", "Cancelled"}

(* The inductive invariant of the lifecycle: the guards of creation and    *)
(* transitions, each checked against one stream state only, together keep  *)
(* types, nesting, outcomes, preparation, parents and phases consistent.   *)
LifecycleInv ==
  /\ LifecycleTypeOK
  /\ RunningIsNested
  /\ TerminalIsClosedDownward
  /\ RunOutcomeMatchesTasks
  /\ StartedRunIsPrepared
  /\ ParentsExist
  /\ PhaseInv
=============================================================================
