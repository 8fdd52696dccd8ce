--------------------------- MODULE LifecycleRules ---------------------------
(***************************************************************************)
(* The pure rules of the run/task lifecycle: the two transition graphs and *)
(* the guards that every lifecycle event has to satisfy, both when a       *)
(* command is admitted and when the stream is folded again.                *)
(*                                                                         *)
(* A lifecycle state is the run's state `rs', the state `ts[t]' of every   *)
(* task identifier (Absent until the task is created) and its parent       *)
(* `ps[t]' (NoTask for a root task).                                       *)
(***************************************************************************)
EXTENDS FiniteSets

CONSTANTS
  Tasks,    \* the task identifiers
  NoTask    \* parent_task_id = None

ASSUME NoTaskAssumption == NoTask \notin Tasks

Absent == "Absent"

LiveStates == {"Created", "Running", "Paused"}

TerminalStates == {"Succeeded", "Failed", "Cancelled"}

RunStates == LiveStates \cup TerminalStates

TaskStates == LiveStates \cup {"Ready"} \cup TerminalStates

Parents == Tasks \cup {NoTask}

IsRunEdge(from, to) ==
  \/ from = "Created" /\ to \in {"Running", "Failed", "Cancelled"}
  \/ from = "Running" /\ to \in {"Paused", "Succeeded", "Failed", "Cancelled"}
  \/ from = "Paused"  /\ to \in {"Running", "Failed", "Cancelled"}

(* Variant: a failed task can be made ready again.                         *)
RetryEdge(from, to) ==
  \/ from = "Created" /\ to \in {"Ready", "Failed", "Cancelled"}
  \/ from = "Ready"   /\ to \in {"Running", "Failed", "Cancelled"}
  \/ from = "Running" /\ to \in {"Paused", "Succeeded", "Failed", "Cancelled"}
  \/ from = "Paused"  /\ to \in {"Running", "Failed", "Cancelled"}
  \/ from = "Failed"  /\ to = "Ready"

IsTaskEdge(from, to) ==
  \/ from = "Created" /\ to \in {"Ready", "Failed", "Cancelled"}
  \/ from = "Ready"   /\ to \in {"Running", "Failed", "Cancelled"}
  \/ from = "Running" /\ to \in {"Paused", "Succeeded", "Failed", "Cancelled"}
  \/ from = "Paused"  /\ to \in {"Running", "Failed", "Cancelled"}

Known(ts) == {t \in Tasks : ts[t] # Absent}

Children(ts, ps, t) == {c \in Known(ts) : ps[c] = t}

(***************************************************************************)
(* validate_task_creation                                                  *)
(***************************************************************************)
ValidTaskCreation(rs, ts, t, p) ==
  /\ rs = "Created"
  /\ ts[t] = Absent
  /\ p # NoTask => ts[p] \notin TerminalStates \cup {Absent}

(***************************************************************************)
(* validate_run_transition: what the tasks have to look like before the    *)
(* run may take an edge.                                                   *)
(***************************************************************************)
AllTerminal(ts) == \A t \in Known(ts) : ts[t] \in TerminalStates

SomeTask(ts, s) == \E t \in Known(ts) : ts[t] = s

Quiescent(ts) ==
  \A t \in Known(ts) : ts[t] \in TerminalStates \cup {"Ready", "Paused"}

(* Variant: a run is cancelled only when every task was.                   *)
CancelledByAll(ts) == Known(ts) # {} /\ \A t \in Known(ts) : ts[t] = "Cancelled"

CancelledOutcome(ts) ==
  AllTerminal(ts) /\ ~SomeTask(ts, "Failed") /\ SomeTask(ts, "Cancelled")

ValidRunTransition(ts, from, to) ==
  /\ IsRunEdge(from, to)
  /\ to = "Failed" => AllTerminal(ts) /\ SomeTask(ts, "Failed")
  /\ to = "Cancelled" => \/ from = "Created" /\ Known(ts) = {}
                         \/ CancelledOutcome(ts)
  /\ to = "Paused" => Quiescent(ts)
  /\ to = "Succeeded" => /\ Known(ts) # {}
                         /\ \A t \in Known(ts) : ts[t] = "Succeeded"
  /\ to = "Running" =>
       IF from = "Created"
         THEN Known(ts) # {} /\ \A t \in Known(ts) : ts[t] = "Ready"
         ELSE Quiescent(ts) /\ ~AllTerminal(ts)

(***************************************************************************)
(* validate_task_transition                                                *)
(***************************************************************************)
ValidTaskTransition(rs, ts, ps, t, from, to) ==
  /\ rs \notin TerminalStates
  /\ IsTaskEdge(from, to)
  /\ to = "Ready" => /\ rs = "Created"
                     /\ ps[t] # NoTask => ts[ps[t]] \notin TerminalStates
  /\ to = "Running" => /\ rs = "Running"
                       /\ ps[t] # NoTask => ts[ps[t]] = "Running"
  /\ to = "Paused" => /\ rs = "Running"
                      /\ \A c \in Children(ts, ps, t) : ts[c] # "Running"
  /\ to = "Succeeded" => \A c \in Children(ts, ps, t) : ts[c] = "Succeeded"
  /\ to \in {"Failed", "Cancelled"} =>
       \A c \in Children(ts, ps, t) : ts[c] \in TerminalStates
=============================================================================
