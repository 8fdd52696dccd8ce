---------------------------- MODULE LifecycleFold ----------------------------
(***************************************************************************)
(* The fold of a lifecycle stream: how a sequence of events determines the *)
(* state of the run and its tasks, for the commands (LifecycleCommands)    *)
(* and for the projections (Projection).                                   *)
(***************************************************************************)
EXTENDS LifecycleRules, Naturals, Sequences

Bodies ==
       [kind : {"run-created"}]
  \cup [kind : {"task-created"}, task : Tasks, parent : Parents]
  \cup [kind : {"run-state-transitioned"}, from : RunStates, to : RunStates]
  \cup [kind : {"task-state-transitioned"}, task : Tasks,
        from : TaskStates, to : TaskStates]

(***************************************************************************)
(* fold_lifecycle and apply_lifecycle_event: every event is validated      *)
(* again; one that fails makes the aggregate corrupt (ok = FALSE).         *)
(***************************************************************************)
Aggregates ==
  [run : RunStates \cup {Absent}, task : [Tasks -> TaskStates \cup {Absent}],
   parent : [Tasks -> Parents], ok : BOOLEAN]

EmptyAggregate ==
  [run  |-> Absent, task |-> [t \in Tasks |-> Absent],
   parent |-> [t \in Tasks |-> NoTask], ok |-> TRUE]

Corrupt(s) == [s EXCEPT !.ok = FALSE]

(* Variant: a transition is checked against the transition graph only.     *)
AcceptsEdges(s, b) ==
  CASE b.kind = "run-created" -> s.run = Absent
    [] b.kind = "task-created" ->
         s.run # Absent /\ ValidTaskCreation(s.run, s.task, b.task, b.parent)
    [] b.kind = "run-state-transitioned" -> s.run = b.from /\ IsRunEdge(b.from, b.to)
    [] b.kind = "task-state-transitioned" ->
         s.task[b.task] = b.from /\ IsTaskEdge(b.from, b.to)

Accepts(s, b) ==
  CASE b.kind = "run-created" -> s.run = Absent
    [] b.kind = "task-created" ->
         s.run # Absent /\ ValidTaskCreation(s.run, s.task, b.task, b.parent)
    [] b.kind = "run-state-transitioned" ->
         s.run = b.from /\ ValidRunTransition(s.task, b.from, b.to)
    [] b.kind = "task-state-transitioned" ->
         /\ s.task[b.task] = b.from
         /\ ValidTaskTransition(s.run, s.task, s.parent, b.task, b.from, b.to)

Applied(s, b) ==
  CASE b.kind = "run-created" -> [s EXCEPT !.run = "Created"]
    [] b.kind = "task-created" -> [s EXCEPT !.task[b.task] = "Created",
                                            !.parent[b.task] = b.parent]
    [] b.kind = "run-state-transitioned" -> [s EXCEPT !.run = b.to]
    [] b.kind = "task-state-transitioned" -> [s EXCEPT !.task[b.task] = b.to]

ApplyLifecycleEvent(s, e) ==
  IF s.ok /\ Accepts(s, e.body) THEN Applied(s, e.body) ELSE Corrupt(s)

FoldFrom(s, l) ==
  LET fold[n \in 0..Len(l)] ==
        IF n = 0 THEN s ELSE ApplyLifecycleEvent(fold[n - 1], l[n])
  IN  fold[Len(l)]

FoldLifecycle(l) == FoldFrom(EmptyAggregate, l)

(***************************************************************************)
(* What a caller may ask for in a state: a creation or an edge of the      *)
(* transition graph, whether or not its guard holds.                       *)
(***************************************************************************)
Decidable(s) ==
       [kind : {"run-created"}]
  \cup [kind : {"task-created"}, task : Tasks, parent : Parents]
  \cup [kind : {"run-state-transitioned"}, from : {s.run} \ {Absent},
        to : {to \in RunStates : IsRunEdge(s.run, to)}]
  \cup UNION {[kind : {"task-state-transitioned"}, task : {t},
               from : {s.task[t]},
               to : {to \in TaskStates : IsTaskEdge(s.task[t], to)}]
              : t \in Known(s.task)}
=============================================================================
