-------------------------- MODULE LifecycleCommands --------------------------
(***************************************************************************)
(* The lifecycle stream as it is really kept: an append-only sequence of   *)
(* events that every command folds again inside its transaction, and       *)
(* callers that decide on what they read earlier (expected_sequence and    *)
(* expected_state), may lose the answer and then send the same command     *)
(* again.  The module implements Lifecycle: see ImplementsLifecycle.       *)
(***************************************************************************)
EXTENDS LifecycleFold

CONSTANTS
  Clients,      \* callers that hold a command
  EventIds,     \* event identifiers, chosen by the callers
  NoCommand,    \* a caller between two commands
  MaxSequence   \* i64::MAX, where checked_add(1) of a sequence fails

ASSUME MaxSequenceAssumption == MaxSequence \in Nat \ {0}

VARIABLES
  log,       \* the events of the lifecycle stream; the position is the sequence
  aggregate, \* what load_established gets by folding log
  command,   \* command[c]: what caller c has sent or is about to send again
  outcome    \* outcome[c]: the answer c got for it, or "pending"

commandVars == <<log, aggregate, command, outcome>>

-----------------------------------------------------------------------------
CommandsInit ==
  /\ log = <<>>
  /\ aggregate = FoldLifecycle(<<>>)
  /\ command = [c \in Clients |-> NoCommand]
  /\ outcome = [c \in Clients |-> "none"]

(***************************************************************************)
(* A caller reads the aggregate and decides on a command.  It carries the  *)
(* sequence and, for a transition, the state it was decided on, and asks   *)
(* for an edge of the transition graph (its guard need not hold).  Any     *)
(* event identifier may be used, also one in use for something else.       *)
(***************************************************************************)
Decide(c) ==
  /\ outcome[c] # "pending"
  /\ \E id \in EventIds, b \in Decidable(aggregate) :
       command' = [command EXCEPT ![c] =
         [id |-> id, expected |-> IF b.kind = "run-created" THEN 0 ELSE Len(log),
          body |-> b]]
  /\ outcome' = [outcome EXCEPT ![c] = "pending"]
  /\ UNCHANGED <<log, aggregate>>

(***************************************************************************)
(* create_run, create_task, transition_run, transition_task.  The order of *)
(* the checks is the code's: the stream must exist, the next sequence must *)
(* be at least 2 and not overflow, then the event identifier (a retry is   *)
(* recognised before its expected sequence is looked at), then the         *)
(* sequence and state the caller expected, then what the other streams     *)
(* have to say about the end or pause of a run or task, and last the       *)
(* lifecycle rules.                                                        *)
(***************************************************************************)
EventOf(cmd) == [id |-> cmd.id, sequence |-> cmd.expected + 1, body |-> cmd.body]

IdInUse(cmd) == \E i \in DOMAIN log : log[i].id = cmd.id

(* Variant: the stored event is compared by its identifier only.           *)
SameId(cmd) == \E i \in DOMAIN log : log[i].id = cmd.id

Exactly(cmd) == \E i \in DOMAIN log : log[i] = EventOf(cmd)

(* Variant: the state the caller expects is checked, the sequence is not.  *)
StateExpected(cmd) ==
  /\ cmd.body.kind = "run-state-transitioned" => aggregate.run = cmd.body.from
  /\ cmd.body.kind = "task-state-transitioned" =>
       aggregate.task[cmd.body.task] \in {Absent, cmd.body.from}

ExpectationHolds(cmd) ==
  /\ cmd.expected = Len(log)
  /\ cmd.body.kind = "run-state-transitioned" => aggregate.run = cmd.body.from
  /\ cmd.body.kind = "task-state-transitioned" =>
       aggregate.task[cmd.body.task] \in {Absent, cmd.body.from}

(***************************************************************************)
(* A pause or an end is refused as long as another stream holds the run or *)
(* the task back (busy): ensure_no_pending_for_run and _for_task find a    *)
(* pending operation or cannot read the control stream, or, in front of a  *)
(* success, ensure_effects_complete_for_run and _for_task find an effect   *)
(* that is not complete.  A task has to be known before they are asked.    *)
(***************************************************************************)
HeldBack(b, busy) ==
  /\ busy
  /\ b.kind \in {"run-state-transitioned", "task-state-transitioned"}
  /\ b.to \in {"Paused"} \cup TerminalStates
  /\ b.kind = "task-state-transitioned" => aggregate.task[b.task] # Absent

(***************************************************************************)
(* How validate_task_creation, validate_run_transition and                 *)
(* validate_task_transition refuse.  A body that is possible as such has   *)
(* the state of the run or of other tasks against it; the others are an    *)
(* InvalidTransition, TerminalStateConflict included.                      *)
(***************************************************************************)
Refusal(b) ==
  LET possible ==
        CASE b.kind = "run-created" -> FALSE
          [] b.kind = "task-created" -> aggregate.run = "Created" /\ aggregate.task[b.task] = Absent
          [] b.kind = "run-state-transitioned" -> IsRunEdge(b.from, b.to)
          [] b.kind = "task-state-transitioned" ->
               /\ aggregate.task[b.task] # Absent
               /\ aggregate.run \notin TerminalStates /\ IsTaskEdge(b.from, b.to)
  IN  IF possible THEN "ParentStateConflict" ELSE "InvalidTransition"

(* Variants: the expected sequence is looked at before the event           *)
(* identifier; a retry counts as applied.                                  *)
ExpectationFirst(cmd, busy) ==
  IF log = <<>> /\ cmd.body.kind # "run-created" THEN "Unauthorized"
  ELSE IF ~ExpectationHolds(cmd) THEN "ConcurrencyConflict"
  ELSE IF Exactly(cmd) THEN "AlreadyApplied"
  ELSE IF IdInUse(cmd) THEN "IdempotencyConflict"
  ELSE IF HeldBack(cmd.body, busy) THEN "ParentStateConflict"
  ELSE IF ~Accepts(aggregate, cmd.body) THEN Refusal(cmd.body)
  ELSE "Applied"

RetryApplies(cmd, busy) ==
  IF log = <<>> /\ cmd.body.kind # "run-created" THEN "Unauthorized"
  ELSE IF Exactly(cmd) THEN "Applied"
  ELSE IF IdInUse(cmd) THEN "IdempotencyConflict"
  ELSE IF ~ExpectationHolds(cmd) THEN "ConcurrencyConflict"
  ELSE IF HeldBack(cmd.body, busy) THEN "ParentStateConflict"
  ELSE IF ~Accepts(aggregate, cmd.body) THEN Refusal(cmd.body)
  ELSE "Applied"

Answer(cmd, busy) ==
  IF log = <<>> /\ cmd.body.kind # "run-created" THEN "Unauthorized"
  ELSE IF cmd.body.kind # "run-created" /\ cmd.expected \notin 1..MaxSequence-1
    THEN IF IdInUse(cmd) THEN "IdempotencyConflict" ELSE "ConcurrencyConflict"
  ELSE IF Exactly(cmd) THEN "AlreadyApplied"
  ELSE IF IdInUse(cmd) THEN "IdempotencyConflict"
  ELSE IF ~ExpectationHolds(cmd) THEN "ConcurrencyConflict"
  ELSE IF HeldBack(cmd.body, busy) THEN "ParentStateConflict"
  ELSE IF ~Accepts(aggregate, cmd.body) THEN Refusal(cmd.body)
  ELSE "Applied"

(* Execute one command; the answer reaches the caller or is lost.          *)
Execute(c, busy, delivered) ==
  /\ outcome[c] = "pending"
  /\ LET answer == Answer(command[c], busy) IN
       /\ IF answer = "Applied"
            THEN /\ log' = Append(log, EventOf(command[c]))
                 /\ aggregate' = ApplyLifecycleEvent(aggregate, EventOf(command[c]))
            ELSE UNCHANGED <<log, aggregate>>
       /\ outcome' = [outcome EXCEPT ![c] = IF delivered THEN answer ELSE @]
  /\ UNCHANGED command

CommandsNext ==
  \/ \E c \in Clients : Decide(c)
  \/ \E c \in Clients, busy, delivered \in BOOLEAN : Execute(c, busy, delivered)

CommandsSpec == CommandsInit /\ [][CommandsNext]_commandVars

-----------------------------------------------------------------------------
FinalRejections ==
  {"Unauthorized", "IdempotencyConflict", "ConcurrencyConflict", "InvalidTransition"}

Rejections == FinalRejections \cup {"ParentStateConflict"}

Acknowledgements == {"Applied", "AlreadyApplied"}

(* What a command appends is accepted by every later fold: the stream      *)
(* stays readable (no AggregateCorrupt) under any interleaving of stale    *)
(* commands and retries, and its sequences have no gap.                    *)
HistoryAlwaysFolds ==
  /\ aggregate.ok /\ aggregate = FoldLifecycle(log)
  /\ \A i \in DOMAIN log : log[i].sequence = i

(* A rejection is final, but for ParentStateConflict: a command that was   *)
(* answered with any other error has not been committed, by this or by an  *)
(* earlier attempt whose answer was lost, and the same command, whoever    *)
(* sends it, can never take effect afterwards.  ParentStateConflict is     *)
(* also the answer while an operation is pending or an effect is not       *)
(* complete; the same command is accepted once they are settled.           *)
RejectionIsFinal ==
  \A c \in Clients : outcome[c] \in FinalRejections => ~Exactly(command[c])

(* An acknowledged command is durable at the place its caller expected,    *)
(* directly after the history it was decided on.                           *)
AckIsDurable ==
  \A c \in Clients : outcome[c] \in Acknowledgements =>
    /\ command[c].expected + 1 \in DOMAIN log
    /\ log[command[c].expected + 1] = EventOf(command[c])

(* An identical command sent by two callers takes effect once: at most one *)
(* of them is told that it applied it.                                     *)
AppliedOnce ==
  \A c, d \in Clients :
    c # d /\ outcome[c] = "Applied" /\ outcome[d] = "Applied" =>
      command[c] # command[d]

(* The stream with its folds, stale commands and retries implements the    *)
(* atomic lifecycle of module Lifecycle.                                   *)
L == INSTANCE Lifecycle WITH
       runState <- aggregate.run, taskState <- aggregate.task,
       parent <- aggregate.parent

(* Every behaviour of the event stream is, through the fold, a behaviour   *)
(* of the atomic run/task state machine: retried or stale commands add no  *)
(* step of their own.                                                      *)
ImplementsLifecycle == L!LifecycleSpec

-----------------------------------------------------------------------------
(* Strengthening for the proof: the shape of the state; an identifier is   *)
(* stored once; a caller knows no sequence that the stream has not         *)
(* reached.                                                                *)
Commands == [id : EventIds, expected : Nat, body : Bodies]

CommandsTypeOK ==
  /\ log \in Seq([id : EventIds, sequence : Nat, body : Bodies])
  /\ aggregate \in Aggregates
  /\ outcome \in [Clients -> {"none", "pending"} \cup Rejections \cup Acknowledgements]
  /\ DOMAIN command = Clients
  /\ \A c \in Clients : outcome[c] # "none" =>
       /\ command[c] \in Commands
       /\ command[c].expected <= Len(log)

IdsAreUnique == \A i, j \in DOMAIN log : log[i].id = log[j].id => i = j

(* Only run-created is stored at the start of the stream, and nothing is   *)
(* stored past MaxSequence.                                                *)
SequencesAreAdmitted ==
  \A i \in DOMAIN log :
    log[i].body.kind # "run-created" => log[i].sequence \in 2..MaxSequence

(* A command that was refused for good cannot be applied any more: it is   *)
(* not in the stream, and either the stream has grown past the place it    *)
(* was meant for or it would be refused again, whatever the other streams  *)
(* say.                                                                    *)
RefusedForGood ==
  \A c \in Clients : outcome[c] \in FinalRejections =>
    /\ ~Exactly(command[c])
    /\ \/ command[c].expected < Len(log)
       \/ \A busy \in BOOLEAN : Answer(command[c], busy) # "Applied"

(* The inductive invariant of the commands.                                *)
CommandsInv ==
  /\ CommandsTypeOK
  /\ IdsAreUnique
  /\ SequencesAreAdmitted
  /\ HistoryAlwaysFolds
  /\ RefusedForGood
  /\ AckIsDurable
  /\ AppliedOnce
=============================================================================
