# Formal model of the Pareto kernel

A TLA+ development kept beside `src/`. It models the event-sourced kernel of
`src/crates/pareto-kernel`: the append-only event store and its schema migration, the run/task
lifecycle, runtime control (capabilities, budgets, protected operations, cancellation, timeout),
the effect runtime, the hook runtime, and projections with snapshots. TLC checks the models on
small instances; TLAPS proves most of the safety properties and the refinements for every value of the constants.
`PROJECT.json` maps each definition to the lines it models.

## 1. The system

The kernel is a library over one SQLite file. All durable state is a table of events (and a table
of snapshots, which are only a cache). A *run scope* (organization, project, run) has several
*streams*, each a gapless sequence 1, 2, 3, ...: the lifecycle stream, the runtime-control stream,
the hook stream and the effect stream. A command opens a `BEGIN IMMEDIATE` transaction, folds the
streams it needs from their first event, decides, inserts one event (or two, an *atomic pair*) and
commits. No thread of the kernel runs in the background. Concurrency comes from several processes
with a handle on the same file, from callers that decide on what they read earlier, and from
answers lost between the commit and the caller.

| part | source (under `src/crates/`) | state | operations | hard behaviour |
|---|---|---|---|---|
| event store | `pareto-kernel/src/event_store.rs` | rows by `append_ordinal`; per stream `sequence`; globally unique event id | `append`, `append_atomic_pair`, `read` (paged) | sequence planned before the lock; failure between the inserts of a pair; retry after a lost answer; commits between two pages |
| migration | same file | `user_version`, schema objects | open, upgrade to version 2 | failure after each statement; several openers; writers of version 1 that stay connected |
| lifecycle | `.../event_store/lifecycle.rs` | run state, task states, parents | `create_run`, `create_task`, `transition_run`, `transition_task` | stale expected sequence/state; reused ids; order of parent/child/run transitions; the fold revalidates everything |
| capabilities | `.../event_store/runtime_control.rs` | grants, revocations | initialize, issue, revoke, authorize | only the direct parent is compared; ancestors are revoked or expire later |
| protected operations | same file | operations, denials, account totals, cancellations, acknowledgements; leases in process memory | reserve, rebind, settle, late result, cancel, acknowledge, refund, timeout recovery, meter | completion/cancel/timeout race; lost lease; clock correction; accounts at their limit; live checks versus fold checks |
| effects | `.../event_store/effect_runtime.rs` | intents, dispatch claims, conclusions, reconciliations | request, claim, execute, receipt, late receipt, recover, reconcile | two transactions with captured cursors; crash between claim, execution and receipt |
| hooks | `.../event_store/hook_runtime.rs` | the open point, invocations, finalized points | `execute_hook_point`, `evaluate_point` | an append after every step; crash between reserve and terminal pair; two calls at one point |
| projections | `.../event_store/projection.rs` | snapshots | full fold, snapshot creation, snapshot-assisted fold, comparison | snapshot of an earlier cursor plus suffix; other reducers; damaged rows; a sealed record of another history |
| protocol | `pareto-protocol/src/*` | none | validation, canonical JSON, digests, schema generation | pure functions on messages |

Interactions: pausing or ending a run or a task folds the control stream and is refused while an
operation is pending; succeeding also folds the effect stream and is refused while an effect is
claimed or unreconciled; reserving folds the lifecycle stream and needs `Running`; every control
command folds both; hooks and effects write one event to their own stream and one to the control
stream as an atomic pair.

## 2. Modules

| module | models | correspondence |
|---|---|---|
| `LifecycleRules` | `is_run_edge`, `is_task_edge`, `validate_*` | pure operators on run state, task states and parents |
| `Lifecycle` | the lifecycle aggregate | one action per command; `runState`, `taskState`, `parent` are the fields of `LifecycleState`. It is the *abstract specification* |
| `LifecycleFold` | `fold_lifecycle`, `apply_lifecycle_event` | a left fold over event bodies; shared by `LifecycleCommands` and `Projection` |
| `LifecycleCommands` | the lifecycle stream | `log` is the stream, `aggregate` what the fold returns, `command`/`outcome` what callers sent and were told. `Answer` has the order of checks of the code; its input `busy` says that pending operations or incomplete effects hold a pause or an end back (`HeldBack`), which other streams decide; `Execute` may lose the answer. Implements `Lifecycle` (`ImplementsLifecycle`) |
| `EventStore` | `append`, `append_atomic_pair`, `read` | `rows` are committed, `staged` the inserts of the open transaction; `Begin`, `Insert`, `Commit`, `RollBack`; `cursor` is a paged read with its horizon |
| `Migration` | `open_inner`, `migrate_locked` | `version`, `objects`, `events` are the committed file; `upgrade` is the exclusive transaction and how many statements it has executed; `LegacyInsert` is the statement of version 1 |
| `Projection` | projections and snapshots (extends `Migration`) | `snapshots` are the rows in ordinal order; a digest is what it is computed of, so the history chain is the prefix itself; `held` is a projection a caller kept. `DecayBytes` and `DecayColumn` damage a row, `Reseal` replaces it by the record of another history with all fingerprints in order |
| `Capability` | grants and revocations (extends `Lifecycle`) | `Chain` is the walk of `active_grant`; `ValidDelegation`, `GrantIsSubset`, `Authorized` are the functions of these names |
| `RuntimeControl` | protected operations (extends `Capability`) | composes lifecycle, capabilities and operations. `ControlledLifecycle` adds `ensure_no_pending_for_*` to the lifecycle's actions |
| `PairedControl` | what runtime control offers to hooks and effects (extends `RuntimeControl`) | the `plan_*` functions and the `prepare_*_event` functions that check the plan again in the appending transaction; `moved` says which streams have moved since a plan was made, which is all that comparing cursors can tell |
| `EffectRuntime` | effects (extends `PairedControl`) | `effects` is the folded stream; `job` is what a process is in the middle of (planned request, dispatch, receipt, planned conclusion, reconciliation); `world` and `calls` record what really happened, which no kernel code can read |
| `EffectOutcome` | the abstract promise about an effect | attempted at most once, true verdicts that stand; `EffectRuntime` implements it (`KeepsOutcomes`) |
| `HookRules` | order of hooks, `evaluate_point`, the executor's running view, the fold's expected outcome | pure operators |
| `HookRuntime` | `execute_hook_point` (extends `PairedControl`) | `run` is the program counter and local state of each call, with an action per append; `open`, `invocations`, `finalized`, `facts` are the folded stream; `echoes` are calls that will find their own bytes on record |
| `MC*` | TLC instances | constants, symmetry |
| `RuntimeControlProofs`, `LedgerProofs`, `PairProofs`, `EffectProofs`, `EffectPairsProofs`, `HookProofs`, `StoreProofs`, `StreamProofs` | theorems | section 5 |

Definitions introduced by "Variant" in a comment are mutated forms of the definition after
them. No specification uses them; each shows that a property fails when the code is
changed that way.

What is abstracted, and why it may be:

- *One transaction is one step* in all modules but `EventStore` and `Migration`: `BEGIN IMMEDIATE`
  admits one writer. `EventStore` opens the transaction up and shows what the others rely on
  (gapless streams, whole pairs); `Migration` does the same for the exclusive one. A command that
  uses several transactions (requests, receipts, recoveries and hook points) takes several steps.
- *The folded state is a variable* in `Capability`, `RuntimeControl`, `EffectRuntime` and
  `HookRuntime`. Instead of assuming that what is appended folds again, the fold's own rules are
  modelled next to the live checks (`SettlementFolds`, `CallbackAuthorityFolds`,
  `RecordLateCallback`, `Fold*`). In runtime control, an event they refuse sets `corrupt`, after
  which no command can load the stream; the hook and effect runtimes fold before they commit, so a
  refusal there is a refused append.
- *Clock samples come from the past.* A command carries a sample taken when it was built, so each
  action takes any sample the clock has shown. One monotonic clock serves all processes: the
  code only uses differences within a process. `Correct` moves the wall clock in both
  directions within `MaxSkew` of elapsed time.
- A cancellation id is identified with its target. Digests, reasons and evidence are
  left out: equal values have equal digests.
- A meter snapshot is the usage it reports, `Violation` or `NoMeter`. Every operation asks for the
  same `Envelope` in the one modelled unit.
- The executor of an effect does anything to the world that `FakeEffectMode` can do, and the
  report of it may be lost. The contents of proposals are abstracted to which transformation made
  them; an answer of a handler is a member of `Answers(kind)`.
- A process or a call may stop after every step (`EndCall`); what it held in memory is gone.
- The cursors that the commands of the effect runtime name (`expected_effect_cursor`, ER 1260 and 2042) are left out where the
  handler works in one transaction: a command for another cursor is refused and changes nothing, so the model
  admits more. Plans, which span two transactions, have their cursors (`moved`).
- A snapshot row that is replaced records a history and the state that this history folds to. The code compares the
  history chain with the stream and does not fold the prefix again, so a state that does not belong to
  its own chain is not considered.
- Row decoding, size limits and message validation are assumed to have passed.
- A callback for an operation that does not exist appends an audit event that changes a counter
  only; it is left out.

## 3. Runs

| run | instance | what it shows |
|---|---|---|
| `lifecycle` | 3 tasks, any hierarchy | nesting, downward closure, outcome, preparation (the conjuncts of `LifecycleInv`), finality. `OnlyStuckAfterSuccess`: the only live state without a next step is the run paused after all its tasks succeeded |
| `lifecycle_commands` | 2 callers, 1 task, 4 ids, `MaxSequence` 4 | stale commands, reused ids, lost answers, retries, commands held back: the stream always folds, a rejection (but `ParentStateConflict`) is final, an acknowledgement durable, an identical command applies once; refinement of `Lifecycle` |
| `store_writers` | 2 writers, 2 streams, 3 ids | gapless streams, whole pairs, causes in their own stream, answers that can be relied on, with failures inside the transaction |
| `store_readers` | 1 writer, 1 reader, 5 fresh ids, page sizes 1 and 2 | pages put together are the snapshot at the horizon and never split a pair |
| `capability` | owner and 2 actors, chains up to 3 grants, 1 task, times 0..2 | delegation narrows along chains, authority is conserved, revocation is final |
| `control` | 2 operations of one actor, 1 process, cancellation of the run or of one operation, a refund, a contract violation | limits hold, the books balance, one final decision, every reservation ends, and only callbacks about a cancelled or settled operation can make the stream unreadable |
| `effects` | 1 effect, 2 processes (symmetric), cancellation | the two streams agree, one invocation and true conclusions (`EffectInv`), no dispatch behind a stop, no success over an uncertain effect; refinement of `EffectOutcome` |
| `effects_recovery` | 1 effect and 1 ordinary operation, 1 process, cancellation of the effect's operation, 1 late receipt, a late result with the caller's time, fairness | every effect is concluded and, if uncertain, reconciled, unless the control stream became unreadable before it was concluded |
| `effect_admission` | 1 effect | violation, section 6 |
| `hooks` | 1 point, 4 hooks (transform, required gate, optional gate, fail-closed observer), 1 call, cancellation, revocation, skew 1 | an Allow is earned, the executor agrees with `evaluate_point`, nothing runs after a stop |
| `hooks_recovery` | 1 point, 1 required gate, 2 calls of one process, fairness | the two streams agree under racing calls and crashes; every reserved invocation ends |
| `projection` | 1 task, 2 processes with different reducers, 4 events, 2 snapshots, 1 decayed or resealed row | upgrades are all or nothing, old writers are fenced, a snapshot never changes what is read and a resealed one fails the read with `HistoryMismatch`, comparisons tell the truth |

Bounds and why they are enough to meet the cases. Three tasks give a chain and two siblings, the
shapes the guards tell apart. Four event ids allow create, task, transition and a competing
command. Two writers and three ids give a pair racing an append on the same stream. One of
the ids may be planned with again after it is taken (`Reused`), the others only by writers that race for them
or retry. Five ids for
the reader let a pair over two streams be committed after the reader has passed the first of them;
its writer uses every id once (`Reused` is empty), since a reader cannot see refused commands.
Chains of three grants are the shortest on which "direct parent" and "every ancestor" differ.
Deadline 1 and `MaxTime` 1 give before and at the deadline (the code compares with `<` and `>=`
only); skew 1 makes wall and monotonic time disagree in both directions. Only `hooks` has skew: there an
answer is judged by the monotonic and the wall deadline, and in the liveness runs skew multiplies the states beyond what can be
explored. The invariants of operations and effects are proved for every `MaxSkew`. Two operations fill the
accounts of the run and the actor exactly, while the task has room for the second only after the
first used less than its envelope. `control` has one process: the races between processes over a
lease are in `effects`, and the safety properties of `control` are proved for every number of
processes and operations. One effect is enough for `effects`, because effects share nothing but the
accounts; two processes are the claimant and the one that recovers behind its back. `effects_recovery` has one process,
whose plans are overtaken by the events of a cancellation and of an ordinary operation with its settlement and late results; plans of two processes that
overtake each other are in `effects`, for safety only. Four hooks have
every kind, an optional gate after a required one, and an observer after a denial; two calls are a
duplicate and its original, or a call and its recovery. Four lifecycle events (run, task and two
transitions) leave a suffix of one to three events after a snapshot; two snapshots give an old one
and a newer one of another reducer, or one that has decayed or was resealed in front of an intact one. The proofs
of section 5 do not depend on any of these bounds.

`CHECK_DEADLOCK FALSE` is set throughout: a terminal run, a full set of identifiers or the
end of the clock are legitimate ends.

Fairness. The kernel has no worker of its own: `docs/specs/SPEC-0006...md:106` says that the first
version has no scanner and that reopening must enumerate the pending operations of the projection
and call the recovery entry point for each; SPEC-0007 and SPEC-0008 say the same of hooks and
effects. The three liveness runs assume this and no more:

- `control`: time passes (`WF` of `Tick`), and the owner keeps calling timeout recovery for each
  pending operation (`WF` of `TimeoutStep(o)`). Recovery is one transaction there.
- `effects_recovery`: time passes, every process leaves a call it is in (`WF` of `EndCall`), and the owner
  keeps recovering due effects and reconciling uncertain ones. Recovery plans in one transaction and appends in
  another, and a plan can be overtaken or dropped, so these are `SF`: an attempt that is possible again
  and again succeeds at some time.
- `hooks_recovery`: the same for invocations that are pending at their deadline.

No fairness is assumed of callers that request, claim, execute, settle, rebind or cancel, nor of handlers.

## 4. Properties by part

- *Lifecycle*: `LifecycleInv` (with `RunningIsNested`, `TerminalIsClosedDownward`,
  `RunOutcomeMatchesTasks`, `StartedRunIsPrepared`), `OnlyStuckAfterSuccess`, `TerminalIsFinal`; proved only:
  `TaskHierarchyIsForest`.
- *Commands*: `HistoryAlwaysFolds`, `RejectionIsFinal`, `AckIsDurable`, `AppliedOnce`, `ImplementsLifecycle`.
- *Store*: `StreamsAreGapless`, `PairsAreWhole`, `CausesPrecede`, `AnswersAreFinal`,
  `PagesFormSnapshot`, `ReadsSeeWholePairs`.
- *Capabilities*: `DelegationNarrows`, `AuthorityStemsFromOwner`, `AuthorityIsConserved`, `AuthorityNeverReturns`.
- *Operations*: `PendingHoldsRun`, `BudgetNeverOversold`, `BooksBalance`, `OperationCancellationIsDecisive`,
  `DecisionIsFinal`, `EveryReservationEnds`, `UnreadableOnlyByCallbacks`.
- *Effects*: `EffectInv` (with `InvokedAtMostOnce`, `ConclusionIsTrue`), `PairsAgree`, `ClaimHoldsRun`, `SuccessIsCertain`,
  `KeepsOutcomes`, `EveryEffectIsDecided`, and the documented rule `NoReservationAfterStop`.
- *Hooks*: `HookPairsAgree`, `AllowIsEarned`, `MatchesEvaluation`, `NothingRunsAfterStop`, `EveryInvocationEnds`.
- *File and projections*: `UpgradeIsAtomic`, `OldWritersAreFenced`, `AssistedEqualsFull`, `ComparisonsAgree`.

Runs check the invariants the proofs are about as they stand (`LifecycleInv`, `EffectInv`), types
included. `CapabilityTypeOK` and `ControlTypeOK` are proved and not checked separately. Except for those that section 5
lists as only model-checked, every property above has a theorem.

A cancellation of the *run* or the *task* is not decisive in the same sense as that of an operation: it
can be requested after an operation under it has succeeded, so `OperationCancellationIsDecisive`
speaks of an operation's own cancellation only. `RejectionIsFinal` leaves out
`ParentStateConflict`, which says that something else has to end or move first: the same command succeeds after a retry once the pending operation
has settled or the effect is complete. `AllowIsEarned` and `MatchesEvaluation` speak of points
with a required gate; section 6 says why. `EveryReservationEnds` and `EveryEffectIsDecided` allow for a
control stream that has become unreadable, which `UnreadableOnlyByCallbacks` confines and section 6 explains. An effect that was
concluded before is reconciled even then, since `reconcile_effect` does not load the control stream.

## 5. Theorems

The proofs use only the named assumptions on constants. There is no bound on tasks, grants,
operations, processes, effects, points, hooks, calls, writers, streams, identifiers, accounts or time, nor on the
length of a stream: `MaxSequence`, `MaxEvents` and `MaxSnapshots` are arbitrary numbers.

| assumption | says |
|---|---|
| `NoTaskAssumption`, `MigrationAssumption`, parts of the others | the markers for "none" (`NoTask`, `NoGrant`, `NoEvent`, `NoWriter`, `NoProcess`, `NoOpener`, `NoPoint`) are not members of the sets they stand outside of: in the code they are `None` |
| `CapabilityAssumption`, `ControlAssumption`, `EffectAssumption`, `StoreAssumption`, `ProjectionAssumption` | limits, deadlines and envelopes are natural numbers; an effect or hook can be charged one unit (`Envelope >= 1`); sequences, streams and page limits start at 1 |
| `InitialGrantsAssumption` | what `validate_initialization` checks of the initial grants |
| `RegistryAssumption` | what `HookRegistryRevisionV1::validate` checks of a registry |
| `HookAssumption` | an invocation identifier belongs to one hook of one point (it is derived from both) |

**`RuntimeControlProofs`.** The first part is about the lifecycle. `LifecycleInv` is inductive. `PhaseInv` is the strengthening: a run that has not
started has only created, ready, failed or cancelled tasks; without it the start of a run could not
be shown to leave no running or succeeded task behind, and `RunningIsNested` fails to be inductive.
The four safety properties of the run follow from it (`RunningNested`, `TerminalClosedDownward`,
`OutcomeMatchesTasks`, `StartedPrepared`). `TerminalStatesAreFinal` follows action by action.
`OwnershipIsForest` uses that a task is created after its parent. `NoOtherDeadEnd` proves
`OnlyStuckAfterSuccess` from the forest: a live task with no live children can always be moved.

The second part is about capabilities. `CapabilityInv` has the types, `ChainsExist` (parents are issued grants),
`LinksNarrow` (each grant is inside its direct parent, which is all the code compares) and
`RootsAreOwned`. `Chain(id)` is the least set closed under parents, so facts about whole chains need
no induction: the grants that satisfy the fact form a closed set that contains `id`. From this come
`ChainsNarrow`, `ChainsStartAtOwner`, `DelegationConserves` and `RevocationIsFinal`.

The third part is about protected operations. `ControlImplementsLifecycle` shows that each step of the composition is a
lifecycle step or leaves the lifecycle alone, which carries `LifecycleInv` over
(`ControlledLifecycleCorrect`). `ControlInv` adds `DeniedIsNotReserved` to the four invariants. It is
needed because `DecisionIsFinal` says that no denied operation is reserved and no reserved one
denied. `PendingHoldsRun` is preserved by a lifecycle step because every edge out of `Running` pauses
or ends, so `ensure_no_pending_for_*` applies to all of them. `BudgetNeverOversold` needs that a
settlement releases the envelope and accounts no more than it (`ReleaseFits`). `ControlInv` holds
whether or not the stream has become unreadable. These are theorems about `Spec` of `RuntimeControl`,
in which nobody reserves for a hook or an effect; section 6 says where a reservation for an effect
differs from `PendingHoldsRun`.

**`LedgerProofs`.** `LedgerInv` is the second inductive invariant of runtime control, on top of `ControlInv`. It says that the
reserved, used and refunded totals of each account are the sums over the operations charged to it, that a pending
operation has used nothing, that an operation is refunded no more than it used, and that a lease was made between
the reservation of its operation and its deadline. From it follow `BooksAlwaysBalance` and
`OnlyCallbacksCorrupt`: the fold refuses a settlement when an account holds less than the envelope or when the lease is not in time, and by `LedgerInv` neither
happens to a completion in time or to a timeout recovery. `BooksBalance` needs the laws of sums over finite sets, which the library has
only with an operator as a parameter. They are proved here for `SumOver(f, S)`, with a function in the operator's place:
`SubsetInduction` is induction over the subsets of a finite set, for a *set* of subsets;
`SumsExist` and `SumsAgree` say that the recursion behind `MapThenSumSet` has a solution and only one, `SumRemoves` that the order in which elements are
taken does not matter. `EntryAdded` and `EntryChanges` then say how a ledger may move, and each control event is one of the two.

**`EffectProofs`.** Neither `InvokedAtMostOnce` nor `ConclusionIsTrue` is inductive: both depend on what
processes hold in memory while others move the streams. `EffectInv` adds three things. `RecordInv`:
what is on record fits what was done (an intended effect has no claimant, an effect that was never
invoked has not touched the world). `DispatchInv(p)`: a process that can still invoke the executor holds
the only claim, nothing has been invoked yet, and no definite conclusion is on record. `PlanInv(p)`: a
plan that would record `NotApplied` is either true already (the executor was invoked and did
nothing), or it was made before any claim, and then the effect is still unclaimed as long as the plan
is at its cursor. The last clause is where comparing the effect cursor matters: a claim moves the
cursor, so a recovery planned before it is refused after it. `EffectCorrect` proves `EffectInv`;
`AtMostOneInvocation` and `ConclusionsAreTrue` follow, and `ImplementsOutcomes` proves that every step is
a step of `EffectOutcome` or a stutter. `EffectsImplementLifecycle` proves the same for `Lifecycle`.

**`PairProofs`.** Lemmas about the control stream that effects and hooks share: the steps of runtime control on its
own leave the operations of pairs alone (`ControlKeepsPairs`), late callbacks aside, which add to a record what no
property of a pair looks at; and what the record of a reservation or of a settlement contains.

**`EffectPairsProofs`.** `PairsAgree` relates two streams that are written by plans made in an earlier transaction.
`EffectPairsInv` therefore adds what each process has planned (`PlanAgrees`): the outcome and the usage of a planned
conclusion are already those that `PairAgrees` wants of the pair. That the operation of a planned request is
still free is not part of the plan; the append checks it again in its own transaction. `ClaimHoldsRun` is kept by the claim (it looks at the lifecycle in
its own transaction), and by the lifecycle because a claimed effect has a pending operation: this is where it needs
`PairsAgree`. `SuccessIsCertain` needs `ClaimHoldsRun` for the claims that come after a success, and terminal states being
final.

**`HookProofs`.** `HookInv` has two halves. `StreamInv` is about what is recorded: `HookPairsAgree`,
`NothingRunsAfterStop`, and `PointInv` (invocations belong to the open point or to finalized ones, the open point has
reserved no ordinal beyond its next one, and if a hook has stopped it then its outcome is fixed). `CallsInv` is about what
each call has in memory: `CallInv` (it runs and settles a handler only for an invocation on record, and its view has a stop where
the fold of the terminal event will fix an outcome) and `FollowsStream` (while no other append has overtaken the call,
the fold has no outcome as long as the view has no stop). The view is what the executor decides on and the folded point is what the append is judged by;
`NothingRunsAfterStop` is not inductive without the connection between the two. A call that was
overtaken has a stale view; it is stopped by the cursor, so `FollowsStream` says nothing of it. A call that is going to find
its own bytes on record (`echoes`) is judged by where that append leads (`Position`).

**`StoreProofs`.** `StoreInv` looks at the table twice, as it is committed and as the open transaction sees it
(`Visible`), because a commit turns the second into the first: `WellKept` (numbering, `LastSequence` counts
the rows, causes precede) holds of both. `PlanFollows` says that a plan, made before the lock was taken, is at most one ahead
of its stream, `TransactionInv` that what is staged is the beginning of the holder's plan and new. For
`AnswersAreFinal` it is not enough that a refused event is not stored: `Refuted` gives the reason why it never can
be (its identifier is taken by another event, its place is taken, or its cause is in another stream), and each of the
reasons persists.

The second part is about paged reads. `ORDER BY stream_id, sequence_i64` is modelled by ranks (`Rank`: a row is listed behind as many rows as
precede it), and `WellKept` makes the places of two rows different, so the ranks of the selected rows are
exactly 0 to n - 1 and the list has each row once (`OrderLists`). `RestOfList` is the reason why paging by the last place is
right: what is selected after the place of the n-th row is the list from the n-th row on. `ReadsInv` says of every read
that it has got the first n rows of the snapshot at its horizon, remembers the place of the n-th, and has no half of
a pair below its horizon; a commit between two pages appends behind the horizon and keeps the list (`ReaderStays`).
`PagesFormSnapshot` and `ReadsSeeWholePairs` follow, for every number of readers, sizes of page and commits in between.

**`StreamProofs`.** First the folds. `FoldLifecycle` is a recursive function over positions, and
`FoldFromAppend` and `FoldFromResumes` say that folding an extended stream is one more application and that a fold can be taken up at any
position. Both are induction on the length. The prover cannot instantiate an induction principle with a predicate, so
`NatSetInduction` states it for a *set* of numbers, which an obligation can name; it rests on the
well-foundedness of `<` on the naturals. With these, `CommandsInv` is inductive: it adds to the four properties that
identifiers are unique, that only `run-created` is stored at sequence 1 and nothing past `MaxSequence`, and, as in the store,
the lasting reason for a rejection (`RefusedForGood`), which no longer depends on what holds the run back (`FinalWhateverHolds`). `CommandsImplementLifecycle` shows that the fold of the stream takes the steps of
`Lifecycle`. The rules are instantiated a second time there, so the lemmas `Same*` first show that both
instances say the same.

Then file and projections. `UpgradeInv` says what the exclusive transaction has staged after each statement; from it follow
`UpgradesAreAtomic` and `UpgradeFencesOldWriters`. `ProjectionInv` says that every snapshot row, damaged, resealed or not, records
a prefix of the present history (`TakenFrom`), though maybe not the one its cursor names; a projection that a caller kept is that of its cursor (`LoadedFrom`).
A row that passes `ValidateSnapshotCandidate` has the chain of its cursor, and the chain determines the prefix (`ChainTellsPrefix`), so it has the
state of its cursor as well. `SnapshotsChangeNothing` is then the split of the fold, and of the history chain, at that cursor, and
a row that fails with `HistoryMismatch` is a resealed one. `ComparisonsAreTruthful` speaks of reads that succeed.

TLC has checked each of the invariants above on the instances of section 3 before it was proved
(`ProjectionInv` with a bounded range for the stored position).

**Only model-checked**, and why:

- liveness (`EveryReservationEnds`, `EveryEffectIsDecided`, `EveryInvocationEnds`): the prover does neither fairness nor `ENABLED`;
- `AllowIsEarned`, `MatchesEvaluation`: they compare a history of answers with `EvaluatePoint`, a recursion over the hooks of a point;
- `NoReservationAfterStop`, which does not hold (section 6).

## 6. Where code and documents differ

The run `effect_admission` shows the first one. `request_effect` checks that the run and the task are
running when it plans the reservation, in a transaction that it rolls back.
`append_effect_reserve_intent_pair` compares the cursors of the control and the effect stream, not
that of the lifecycle, and the fold judges the reservation by the lifecycle checkpoint in it. A pause that
commits in between is followed by a new reservation, which SPEC-0006:113 excludes. The consequence is limited, and the
other runs say how: the claim checks the lifecycle again (`ClaimHoldsRun`), a pending reservation is ended by
recovery (`EveryEffectIsDecided`), and no success is reached over it while it is claimed or uncertain (`SuccessIsCertain`).

The models follow the code in the following places as well. No run is devoted to them; the definitions
named show the behaviour. Lines are in `runtime_control.rs` (RC), `hook_runtime.rs` (HR),
`effect_runtime.rs` (ER) and `event_store.rs` (ES).

- *Settling a cancelled operation with a contract violation* (`SettleOperation`). The requested outcome is
  checked against the cancellation (RC 1187), then `settlement_payload` replaces it by `Failed`
  (RC 3399), which the fold refuses for a cancelled operation. The event is committed and the control stream no longer loads.
  FIX-0001:58 wants one validator for append and replay. `UnreadableOnlyByCallbacks` bounds this and the next.
- *Late results* (`RecordLateCallback`). `observe_late_result` appends with the command's `occurred_at` (RC 1547),
  the payload carries the clock sample, and the fold wants both equal (RC 2695).
- *Receipt of a completion*. SPEC-0006:110 compares the deadline when the kernel receives a completion; the
  code compares the sample taken when the command was built (RC 1175).
- *Clock regression*. SPEC-0006:100 says that a regression does not extend an expired deadline;
  `rebind_operation_lease` compares the sample with the reservation time and the deadline only (RC 1011).
- *A point without a required gate*. REQ-0008 AC-04 and SPEC-0007:70 deny it. When its only hooks are
  observers and one fails closed, `FixedOutcome` is `Allow` with status `ObserverFailed`, and `Conclude` leaves it (HR 2126).
- *A handler can run twice*. SPEC-0007:78 has an exact retry not run the handler again. A second
  identical call finds the reserve pair on record and goes on to the handler (HR 1684); the terminal pair admits one
  result (`HookPairsAgree`).
- *Folding without the registry*. `append_hook_fact` folds the history without the registry (HR 1373), so that it
  sees no required gate and no fail-closed observer (`Unregistered`, `bareOutcome`).
- *A point can stay open*. Only the invocations are recovered: a call that dies after the first
  reservation leaves its point open, and a retry is refused because the cursor is no longer that
  of the start event (HR 1487).
  A cancelled or timed-out observer that does not fail closed makes the executor finalize with a reason
  that the fold does not expect, which is refused.
- *Recovery by process epoch*. SPEC-0008:70 finds an effect not eligible while the claiming process
  lives. The two digests compared (ER 2056) are computed under different domains (ER 247, 1219), so they always differ, and recovery by
  epoch is always eligible (`Eligible`, `EpochDigest`). The effect properties hold all the same.
- *Opening another store*. `open_pinned` compares the store identity after the upgrade has been committed (`CommitUpgrade`).

## 7. Not modelled

- Event ids and cursors of the control commands (retries of control commands); the lifecycle's,
  the store's and the pairs' are modelled. An already committed initialization is a retry of this kind.
- `find_event_for_operation` (a `LIKE` over payloads, RC 4596): it depends on the characters of identifiers, which are model values here.
- The projection of runtime control, the effect projection and boundary inventory, the hook projection, and recorded replay: read-only
  renderings of the folded states that the invariants are about.
- `simulated_replay` always refuses.
- Protocol types, validation, compatibility, canonical JSON, digests and schema generation: stateless.
- `KernelMeter::try_consume`: a sequential counter; only its report matters here.
- The hook and effect runtimes are crate-private and have no production caller yet. Their recovery
  of an invocation goes through `append_hook_terminal_pair`, which is compiled for tests only; it is modelled, because
  SPEC-0007 makes it the way to recover.

## 8. Plan

1. Proofs: `AllowIsEarned` from `HookInv`, with an invariant that counts the answers of the required gates.
2. Command ids and cursors of the control stream, as a module over `RuntimeControl`, in the way
   `LifecycleCommands` relates to `Lifecycle`.
3. An abstract specification of a hook point that `HookRuntime` implements.
