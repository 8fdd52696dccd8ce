----------------------------- MODULE StreamProofs -----------------------------
(***************************************************************************)
(* What fold_lifecycle computes, for streams of every length: the fold of  *)
(* an extended stream is one more application, and a fold can be taken up  *)
(* at any position from the state that was reached there.  Both are        *)
(* induction over the length of the stream, for which the set of lengths   *)
(* with the property is named and shown to be all of Nat.                  *)
(*                                                                         *)
(* Then proofs about LifecycleCommands for any number of tasks, callers,   *)
(* event identifiers and any MaxSequence: the stream always folds, answers *)
(* are final and durable, and the stream implements the atomic lifecycle.  *)
(*                                                                         *)
(* Last, proofs about Migration and Projection for any number of processes *)
(* and reducers and for streams of any length: the upgrade is atomic and   *)
(* fences the old writers, and a snapshot never changes what is read.      *)
(***************************************************************************)
EXTENDS LifecycleCommands, Projection, WellFoundedInduction, TLAPS

(* Induction over the natural numbers for a set of them: a least number    *)
(* outside the set has a predecessor inside it.  Used for the folds over   *)
(* the events of a stream.                                                 *)
LEMMA NatSetInduction ==
  ASSUME NEW S, 0 \in S, \A n \in Nat : n \in S => n + 1 \in S
  PROVE  Nat \subseteq S
<1> DEFINE Less == OpToRel(<, Nat)
           Rest == Nat \ S
<1>1. IsWellFoundedOn(Less, Nat)
  BY NatLessThanWellFounded, Zenon
<1>2. \A m, n \in Nat : m < n => <<m, n>> \in Less
  BY Zenon DEF OpToRel
<1> HIDE DEF Less
<1> SUFFICES ASSUME Rest # {} PROVE FALSE
  BY Zenon
<1>3. PICK x \in Rest : \A y \in Rest : ~(<<y, x>> \in Less)
  <2>1. Rest \subseteq Nat
    BY Zenon
  <2> HIDE DEF Rest
  <2> QED BY <1>1, <2>1, WFMin, Zenon
<1>4. x \in Nat /\ x # 0
  BY <1>3, Zenon
<1>5. x - 1 \in Nat /\ <<x - 1, x>> \in Less
  <2>1. x - 1 \in Nat /\ x - 1 < x
    BY <1>4
  <2> QED BY <1>2, <1>4, <2>1, Zenon
<1>6. x - 1 \in S
  BY <1>3, <1>5, Zenon
<1> QED
  BY <1>3, <1>4, <1>5, <1>6

-----------------------------------------------------------------------------
(* f gives the state that fold_lifecycle has reached after each event of   *)
(* the first N of l, starting from s.                                      *)
Folds(f, s, l, N) ==
  f = [n \in 0..N |-> IF n = 0 THEN s ELSE ApplyLifecycleEvent(f[n - 1], l[n])]

(* The intermediate states of fold_lifecycle exist for every prefix.       *)
LEMMA FoldsExist ==
  ASSUME NEW s, NEW l, NEW N \in Nat
  PROVE  \E f : Folds(f, s, l, N)
<1> DEFINE S == {n \in Nat : \E f : Folds(f, s, l, n)}
<1>1. 0 \in S
  <2> DEFINE f == [n \in 0..0 |-> s]
  <2>1. Folds(f, s, l, 0)
    BY DEF Folds
  <2> QED BY <2>1, Zenon
<1>2. ASSUME NEW n \in Nat, n \in S
      PROVE  n + 1 \in S
  <2>1. PICK f : Folds(f, s, l, n)
    BY <1>2, Zenon
  <2> DEFINE g == [m \in 0..(n + 1) |-> IF m = n + 1 THEN ApplyLifecycleEvent(f[n], l[n + 1])
                                                     ELSE f[m]]
  <2>2. \A m \in 0..n : f[m] = IF m = 0 THEN s ELSE ApplyLifecycleEvent(f[m - 1], l[m])
    BY <2>1, Zenon DEF Folds
  <2>3. \A m \in 0..(n + 1) :
          g[m] = IF m = 0 THEN s ELSE ApplyLifecycleEvent(g[m - 1], l[m])
    BY <2>2, SMTT(60)
  <2>4. Folds(g, s, l, n + 1)
    BY <2>3, Zenon DEF Folds
  <2> QED BY <2>4
<1>3. Nat \subseteq S
  <2> HIDE DEF S
  <2> QED BY <1>1, <1>2, NatSetInduction, Zenon
<1> QED BY <1>3, Zenon

(* What they are is determined by the start and the events.                *)
LEMMA FoldsAgree ==
  ASSUME NEW s, NEW l, NEW N \in Nat, NEW f, Folds(f, s, l, N),
         NEW M \in Nat, NEW g, NEW k, Folds(g, s, k, M), N <= M,
         \A n \in 1..N : k[n] = l[n]
  PROVE  \A n \in 0..N : g[n] = f[n]
<1> DEFINE S == {n \in Nat : n <= N => g[n] = f[n]}
<1>1. \A n \in 0..N : f[n] = IF n = 0 THEN s ELSE ApplyLifecycleEvent(f[n - 1], l[n])
  BY Zenon DEF Folds
<1>2. \A n \in 0..M : g[n] = IF n = 0 THEN s ELSE ApplyLifecycleEvent(g[n - 1], k[n])
  BY Zenon DEF Folds
<1>3. 0 \in S
  BY <1>1, <1>2
<1>4. ASSUME NEW n \in Nat, n \in S
      PROVE  n + 1 \in S
  <2> SUFFICES ASSUME n + 1 <= N PROVE g[n + 1] = f[n + 1]
    OBVIOUS
  <2>1. g[n] = f[n] /\ k[n + 1] = l[n + 1]
    BY <1>4
  <2>2. f[n + 1] = ApplyLifecycleEvent(f[n], l[n + 1])
    BY <1>1
  <2>3. g[n + 1] = ApplyLifecycleEvent(g[n], k[n + 1])
    BY <1>2
  <2> QED BY <2>1, <2>2, <2>3, Zenon
<1>5. Nat \subseteq S
  <2> HIDE DEF S
  <2> QED BY <1>3, <1>4, NatSetInduction, Zenon
<1> QED BY <1>5

(* fold_lifecycle returns the last of them.                                *)
LEMMA FoldFromIs ==
  ASSUME NEW s, NEW T, NEW l \in Seq(T)
  PROVE  \E f : Folds(f, s, l, Len(l)) /\ FoldFrom(s, l) = f[Len(l)]
<1>1. Len(l) \in Nat
  OBVIOUS
<1>2. \E f : Folds(f, s, l, Len(l))
  BY <1>1, FoldsExist, Zenon
<1> DEFINE f == CHOOSE f : Folds(f, s, l, Len(l))
<1>3. Folds(f, s, l, Len(l))
  BY <1>2, Zenon
<1>4. FoldFrom(s, l) = f[Len(l)]
  BY Zenon DEF FoldFrom, Folds
<1> QED BY <1>3, <1>4, Zenon

(* An empty stream leaves the start unchanged.                             *)
LEMMA FoldFromEmpty ==
  ASSUME NEW s
  PROVE  FoldFrom(s, <<>>) = s
<1>1. PICK f : Folds(f, s, <<>>, Len(<<>>)) /\ FoldFrom(s, <<>>) = f[Len(<<>>)]
  <2>1. <<>> \in Seq({})
    OBVIOUS
  <2> QED BY <2>1, FoldFromIs, Zenon
<1> QED BY <1>1 DEF Folds

(* One more event is one more application of apply_lifecycle_event.        *)
LEMMA FoldFromAppend ==
  ASSUME NEW s, NEW T, NEW l \in Seq(T), NEW e \in T
  PROVE  FoldFrom(s, Append(l, e)) = ApplyLifecycleEvent(FoldFrom(s, l), e)
<1> DEFINE k == Append(l, e)
           N == Len(l)
<1>1. N \in Nat /\ k \in Seq(T) /\ Len(k) = N + 1 /\ k[N + 1] = e
      /\ \A n \in 1..N : k[n] = l[n]
  OBVIOUS
<1>2. PICK f : Folds(f, s, l, N) /\ FoldFrom(s, l) = f[N]
  BY FoldFromIs, Zenon
<1>3. PICK g : Folds(g, s, k, N + 1) /\ FoldFrom(s, k) = g[N + 1]
  BY <1>1, FoldFromIs, Zenon
<1> HIDE DEF k, N
<1>4. g[N] = f[N]
  <2>1. N + 1 \in Nat /\ N <= N + 1 /\ N \in 0..N
    BY <1>1
  <2> QED BY <1>1, <1>2, <1>3, <2>1, FoldsAgree
<1>5. g[N + 1] = ApplyLifecycleEvent(g[N], e)
  BY <1>1, <1>3 DEF Folds
<1> QED BY <1>2, <1>3, <1>4, <1>5, Zenon DEF k

(* A fold may be taken up at any position from the state reached there:    *)
(* what apply_snapshot_suffix relies on.                                   *)
LEMMA FoldFromResumes ==
  ASSUME NEW s, NEW T, NEW l \in Seq(T), NEW c \in 0..Len(l)
  PROVE  FoldFrom(FoldFrom(s, SubSeq(l, 1, c)), SubSeq(l, c + 1, Len(l))) = FoldFrom(s, l)
<1> DEFINE N == Len(l)
           a == SubSeq(l, 1, c)
           b == SubSeq(l, c + 1, N)
           M == N - c
<1>1. /\ N \in Nat /\ M \in Nat /\ c \in Nat /\ c <= N
      /\ a \in Seq(T) /\ Len(a) = c /\ \A n \in 1..c : a[n] = l[n]
      /\ b \in Seq(T) /\ Len(b) = M /\ \A n \in 1..M : b[n] = l[c + n]
  <2>1. N \in Nat /\ M \in Nat /\ c \in Nat /\ c <= N
    OBVIOUS
  <2>2. a \in Seq(T) /\ Len(a) = c /\ \A n \in 1..c : a[n] = l[n]
    BY <2>1
  <2>3. b \in Seq(T) /\ Len(b) = M /\ \A n \in 1..M : b[n] = l[c + n]
    BY <2>1
  <2> QED BY <2>1, <2>2, <2>3, Zenon
<1>2. PICK f : Folds(f, s, l, N) /\ FoldFrom(s, l) = f[N]
  BY FoldFromIs, Zenon
<1> HIDE DEF N, a, b, M
<1>3. PICK g : Folds(g, s, a, c) /\ FoldFrom(s, a) = g[c]
  <2>1. \E g : Folds(g, s, a, Len(a)) /\ FoldFrom(s, a) = g[Len(a)]
    BY <1>1, FoldFromIs, ZenonT(60)
  <2> QED BY <1>1, <2>1
<1>4. PICK h : Folds(h, g[c], b, M) /\ FoldFrom(g[c], b) = h[M]
  <2>1. \E h : Folds(h, g[c], b, Len(b)) /\ FoldFrom(g[c], b) = h[Len(b)]
    BY <1>1, FoldFromIs, ZenonT(60)
  <2> QED BY <1>1, <2>1
<1>5. g[c] = f[c]
  <2>1. c \in 0..c /\ \A n \in 1..c : l[n] = a[n]
    BY <1>1
  <2>2. c \in Nat /\ N \in Nat /\ c <= N
    BY <1>1, Zenon
  <2>3. Folds(g, s, a, c) /\ Folds(f, s, l, N)
    BY <1>2, <1>3, Zenon
  <2>4. \A n \in 0..c : f[n] = g[n]
    BY <2>1, <2>2, <2>3, FoldsAgree
  <2> QED BY <2>1, <2>4, Zenon
<1>6. \A n \in 0..N : f[n] = IF n = 0 THEN s ELSE ApplyLifecycleEvent(f[n - 1], l[n])
  BY <1>2, Zenon DEF Folds
<1>7. \A n \in 0..M : h[n] = IF n = 0 THEN g[c] ELSE ApplyLifecycleEvent(h[n - 1], b[n])
  BY <1>4, Zenon DEF Folds
<1> DEFINE S == {n \in Nat : n <= M => h[n] = f[c + n]}
<1>8. 0 \in S
  BY <1>1, <1>5, <1>7
<1>9. ASSUME NEW n \in Nat, n \in S
      PROVE  n + 1 \in S
  <2> SUFFICES ASSUME n + 1 <= M PROVE h[n + 1] = f[c + (n + 1)]
    OBVIOUS
  <2>1. h[n] = f[c + n] /\ b[n + 1] = l[c + (n + 1)]
    BY <1>1, <1>9, SMTT(60)
  <2>2. h[n + 1] = ApplyLifecycleEvent(h[n], b[n + 1])
    BY <1>1, <1>7
  <2>3. c + (n + 1) \in 1..N /\ (c + (n + 1)) - 1 = c + n
    BY <1>1 DEF M
  <2>4. f[c + (n + 1)] = ApplyLifecycleEvent(f[c + n], l[c + (n + 1)])
    BY <1>1, <1>6, <2>3
  <2> QED BY <2>1, <2>2, <2>4, Zenon
<1>10. Nat \subseteq S
  <2> HIDE DEF S
  <2> QED BY <1>8, <1>9, NatSetInduction, Zenon
<1>11. h[M] = f[N]
  <2>1. h[M] = f[c + M]
    BY <1>1, <1>10
  <2>2. c + M = N
    BY <1>1 DEF M
  <2> QED BY <2>1, <2>2, Zenon
<1> QED BY <1>2, <1>3, <1>4, <1>11, Zenon DEF a, b, N

-----------------------------------------------------------------------------
(* What a caller may ask for is one of the four kinds of commands.         *)
LEMMA DecidableBodies ==
  ASSUME NEW s \in Aggregates
  PROVE  Decidable(s) \subseteq Bodies
<1> SUFFICES ASSUME NEW b \in Decidable(s) PROVE b \in Bodies
  BY Zenon
<1>1. s.run \in RunStates \cup {Absent} /\ s.task \in [Tasks -> TaskStates \cup {Absent}]
  BY Zenon DEF Aggregates
<1>2. CASE b \in [kind : {"run-created"}]
  BY <1>2, Zenon DEF Bodies
<1>3. CASE b \in [kind : {"task-created"}, task : Tasks, parent : Parents]
  BY <1>3, Zenon DEF Bodies
<1>4. CASE b \in [kind : {"run-state-transitioned"}, from : {s.run} \ {Absent},
                  to : {to \in RunStates : IsRunEdge(s.run, to)}]
  <2>1. b \in [kind : {"run-state-transitioned"}, from : RunStates, to : RunStates]
    BY <1>1, <1>4, Zenon
  <2> QED BY <2>1, Zenon DEF Bodies
<1>5. ASSUME NEW t \in Known(s.task),
             b \in [kind : {"task-state-transitioned"}, task : {t}, from : {s.task[t]},
                    to : {to \in TaskStates : IsTaskEdge(s.task[t], to)}]
      PROVE  b \in Bodies
  <2>1. t \in Tasks /\ s.task[t] \in TaskStates
    BY <1>1, Zenon DEF Known
  <2>2. b \in [kind : {"task-state-transitioned"}, task : Tasks,
               from : TaskStates, to : TaskStates]
    BY <1>5, <2>1, Zenon
  <2> QED BY <2>2, Zenon DEF Bodies
<1> QED BY <1>2, <1>3, <1>4, <1>5, Zenon DEF Decidable

(* The four arms of apply_lifecycle_event, for a body of each kind; first  *)
(* that of run-created.                                                    *)
LEMMA RunCreated ==
  ASSUME NEW s \in Aggregates, NEW b \in Bodies, b.kind = "run-created"
  PROVE  /\ Accepts(s, b) = (s.run = Absent)
         /\ Applied(s, b) = [s EXCEPT !.run = "Created"]
  BY Zenon DEF Accepts, Applied

(* The arm of task-created.                                                *)
LEMMA TaskCreated ==
  ASSUME NEW s \in Aggregates, NEW b \in Bodies, b.kind = "task-created"
  PROVE  /\ b.task \in Tasks /\ b.parent \in Parents
         /\ Accepts(s, b) =
              (s.run # Absent /\ ValidTaskCreation(s.run, s.task, b.task, b.parent))
         /\ Applied(s, b) = [[s EXCEPT !.task[b.task] = "Created"]
                                EXCEPT !.parent[b.task] = b.parent]
<1>1. b.task \in Tasks /\ b.parent \in Parents
  BY Zenon DEF Bodies
<1> QED BY <1>1, Zenon DEF Accepts, Applied

(* The arm of run-state-transitioned.                                      *)
LEMMA RunTransitioned ==
  ASSUME NEW s \in Aggregates, NEW b \in Bodies, b.kind = "run-state-transitioned"
  PROVE  /\ b.to \in RunStates
         /\ Accepts(s, b) = (s.run = b.from /\ ValidRunTransition(s.task, b.from, b.to))
         /\ Applied(s, b) = [s EXCEPT !.run = b.to]
<1>1. b.to \in RunStates
  BY Zenon DEF Bodies
<1> QED BY <1>1, Zenon DEF Accepts, Applied

(* The arm of task-state-transitioned.                                     *)
LEMMA TaskTransitioned ==
  ASSUME NEW s \in Aggregates, NEW b \in Bodies, b.kind = "task-state-transitioned"
  PROVE  /\ b.task \in Tasks /\ b.to \in TaskStates
         /\ Accepts(s, b) =
              (/\ s.task[b.task] = b.from
               /\ ValidTaskTransition(s.run, s.task, s.parent, b.task, b.from, b.to))
         /\ Applied(s, b) = [s EXCEPT !.task[b.task] = b.to]
<1>1. b.task \in Tasks /\ b.to \in TaskStates
  BY Zenon DEF Bodies
<1> QED BY <1>1, Zenon DEF Accepts, Applied

(* There is no fifth kind of lifecycle event.                              *)
LEMMA KindsOfBodies ==
  ASSUME NEW b \in Bodies
  PROVE  b.kind \in {"run-created", "task-created", "run-state-transitioned",
                     "task-state-transitioned"}
  BY Zenon DEF Bodies

(* Updates of the aggregate keep its shape.                                *)
LEMMA TaskUpdate ==
  ASSUME NEW s \in Aggregates, NEW t \in Tasks, NEW to \in TaskStates
  PROVE  [s EXCEPT !.task[t] = to] \in Aggregates /\ [s EXCEPT !.task[t] = to].ok = s.ok
  BY Zenon DEF Aggregates

(* Every arm keeps the shape of the aggregate.                             *)
LEMMA AppliedType ==
  ASSUME NEW s \in Aggregates, NEW b \in Bodies
  PROVE  Applied(s, b) \in Aggregates /\ Applied(s, b).ok = s.ok
<1>1. CASE b.kind = "run-created"
  BY <1>1, RunCreated DEF Aggregates, RunStates, LiveStates
<1>2. CASE b.kind = "task-created"
  <2>1. "Created" \in TaskStates
    BY Zenon DEF TaskStates, LiveStates
  <2> DEFINE u == [s EXCEPT !.task[b.task] = "Created"]
  <2>2. /\ b.task \in Tasks /\ b.parent \in Parents
        /\ Applied(s, b) = [u EXCEPT !.parent[b.task] = b.parent]
    BY <1>2, TaskCreated, Zenon
  <2>3. u \in Aggregates /\ u.ok = s.ok
    BY <2>1, <2>2, TaskUpdate, Zenon
  <2> HIDE DEF u
  <2> QED BY <2>2, <2>3 DEF Aggregates
<1>3. CASE b.kind = "run-state-transitioned"
  BY <1>3, RunTransitioned DEF Aggregates
<1>4. CASE b.kind = "task-state-transitioned"
  <2>1. /\ b.task \in Tasks /\ b.to \in TaskStates
        /\ Applied(s, b) = [s EXCEPT !.task[b.task] = b.to]
    BY <1>4, TaskTransitioned, Zenon
  <2> QED BY <2>1, TaskUpdate
<1> QED BY <1>1, <1>2, <1>3, <1>4, KindsOfBodies, Zenon

-----------------------------------------------------------------------------
Events == [id : EventIds, sequence : Nat, body : Bodies]

-----------------------------------------------------------------------------
(* The lifecycle rules refuse in one of two ways.                          *)
LEMMA RefusalKinds ==
  ASSUME NEW b
  PROVE  Refusal(b) \in {"ParentStateConflict", "InvalidTransition"}
  BY Zenon DEF Refusal

(* An applied command was accepted, at the end of the stream and with an   *)
(* identifier that is not in use.                                          *)
LEMMA AppliedAnswer ==
  ASSUME NEW cmd, NEW busy, Answer(cmd, busy) = "Applied"
  PROVE  /\ ~Exactly(cmd) /\ ~IdInUse(cmd)
         /\ ExpectationHolds(cmd) /\ cmd.expected = Len(log)
         /\ Accepts(aggregate, cmd.body)
         /\ cmd.body.kind # "run-created" => log # <<>> /\ cmd.expected \in 1..MaxSequence-1
<1>1. Refusal(cmd.body) # "Applied"
  BY RefusalKinds, Zenon
<1>2. /\ ~Exactly(cmd) /\ ~IdInUse(cmd) /\ ExpectationHolds(cmd)
      /\ Accepts(aggregate, cmd.body)
      /\ cmd.body.kind # "run-created" => log # <<>> /\ cmd.expected \in 1..MaxSequence-1
  BY <1>1, Zenon DEF Answer
<1> QED BY <1>2, Zenon DEF ExpectationHolds

(* The other answers: only the answer to a retry acknowledges.             *)
LEMMA OtherAnswers ==
  ASSUME NEW cmd, NEW busy, Answer(cmd, busy) # "Applied"
  PROVE  \/ Answer(cmd, busy) = "AlreadyApplied" /\ Exactly(cmd)
         \/ Answer(cmd, busy) \in Rejections
<1>1. Refusal(cmd.body) \in Rejections
  BY RefusalKinds, Zenon DEF Rejections, FinalRejections
<1> QED BY <1>1, Zenon DEF Answer, Rejections, FinalRejections

(* What is refused for good is refused whatever the other streams say: a   *)
(* command that some state of theirs lets through is never answered with   *)
(* another error than ParentStateConflict.                                 *)
LEMMA FinalWhateverHolds ==
  ASSUME NEW cmd, NEW busy, Answer(cmd, busy) \in FinalRejections, NEW other
  PROVE  Answer(cmd, other) # "Applied"
<1> SUFFICES ASSUME Answer(cmd, other) = "Applied" PROVE FALSE
  BY Zenon
<1>1. /\ ~Exactly(cmd) /\ ~IdInUse(cmd) /\ ExpectationHolds(cmd)
      /\ Accepts(aggregate, cmd.body)
      /\ cmd.body.kind # "run-created" => log # <<>> /\ cmd.expected \in 1..MaxSequence-1
  BY AppliedAnswer, Zenon
<1>2. Answer(cmd, busy) \in {"ParentStateConflict", "Applied"}
  BY <1>1, Zenon DEF Answer
<1> QED BY <1>2, Zenon DEF FinalRejections

(* The answer depends on the stream alone, and on what the other streams   *)
(* say.                                                                    *)
LEMMA SameAnswer ==
  ASSUME log' = log, aggregate' = aggregate
  PROVE  \A x, busy : Answer(x, busy)' = Answer(x, busy) /\ Exactly(x)' = Exactly(x)
<1>1. \A x : /\ Exactly(x)' = Exactly(x) /\ IdInUse(x)' = IdInUse(x)
            /\ ExpectationHolds(x)' = ExpectationHolds(x)
  BY SMTT(60) DEF Exactly, IdInUse, ExpectationHolds
<1>2. \A x, busy : HeldBack(x, busy)' = HeldBack(x, busy) /\ Refusal(x)' = Refusal(x)
  BY Zenon DEF HeldBack, Refusal
<1> QED BY <1>1, <1>2, Zenon DEF Answer

(* A refusal of any kind is of a command that is not in the stream: a      *)
(* command whose event is stored has passed the checks before Exactly.     *)
LEMMA RefusedIsAbsent ==
  ASSUME CommandsInv, NEW cmd \in Commands, NEW busy, Answer(cmd, busy) \in Rejections
  PROVE  ~Exactly(cmd)
<1> SUFFICES ASSUME Exactly(cmd) PROVE FALSE
  BY Zenon
<1>1. PICK i \in DOMAIN log : log[i] = EventOf(cmd)
  BY Zenon DEF Exactly
<1>2. log # <<>>
  BY <1>1
<1>3. cmd.body.kind # "run-created" => cmd.expected \in 1..MaxSequence-1
  <2>1. log[i].body = cmd.body /\ log[i].sequence = cmd.expected + 1
    BY <1>1 DEF EventOf
  <2>2. cmd.expected \in Nat /\ MaxSequence \in Nat
    BY MaxSequenceAssumption, Zenon DEF Commands
  <2>3. cmd.body.kind # "run-created" => cmd.expected + 1 \in 2..MaxSequence
    BY <2>1, Zenon DEF CommandsInv, SequencesAreAdmitted
  <2> QED BY <2>2, <2>3, SMTT(60)
<1>4. Answer(cmd, busy) = "AlreadyApplied"
  BY <1>2, <1>3, Zenon DEF Answer
<1> QED BY <1>4, Zenon DEF Rejections, FinalRejections

-----------------------------------------------------------------------------
(* The empty stream satisfies the invariant.                               *)
LEMMA CommandsInitInv == CommandsInit => CommandsInv
<1> SUFFICES ASSUME CommandsInit PROVE CommandsInv
  BY Zenon
<1>1. log = <<>> /\ DOMAIN log = {} /\ Len(log) = 0
  BY DEF CommandsInit
<1>2. aggregate = EmptyAggregate /\ aggregate = FoldLifecycle(log)
  BY FoldFromEmpty, Zenon DEF CommandsInit, FoldLifecycle
<1>3. EmptyAggregate \in Aggregates /\ EmptyAggregate.ok
  BY Zenon DEF EmptyAggregate, Aggregates, Parents
<1>4. \A c \in Clients : outcome[c] = "none"
  BY Zenon DEF CommandsInit
<1>5. CommandsTypeOK
  <2>1. log \in Seq([id : EventIds, sequence : Nat, body : Bodies])
    BY <1>1
  <2> QED BY <1>2, <1>3, <1>4, <2>1, Zenon DEF CommandsTypeOK, CommandsInit
<1>6. IdsAreUnique /\ SequencesAreAdmitted /\ HistoryAlwaysFolds
  BY <1>1, <1>2, <1>3, Zenon DEF IdsAreUnique, SequencesAreAdmitted, HistoryAlwaysFolds
<1>7. RefusedForGood /\ AckIsDurable /\ AppliedOnce
  BY <1>4, Zenon DEF RefusedForGood, AckIsDurable, AppliedOnce, FinalRejections,
                      Acknowledgements
<1> QED BY <1>5, <1>6, <1>7, Zenon DEF CommandsInv

(* A caller decides on another command: the stream and the other callers'  *)
(* answers are as they were.                                               *)
LEMMA DecideInv ==
  ASSUME CommandsInv, NEW c \in Clients, Decide(c)
  PROVE  CommandsInv'
<1>1. log' = log /\ aggregate' = aggregate
  BY Zenon DEF Decide
<1>2. PICK cmd \in Commands : cmd.expected <= Len(log) /\ command' = [command EXCEPT ![c] = cmd]
  <2>1. PICK id \in EventIds, b \in Decidable(aggregate) :
          command' = [command EXCEPT ![c] =
            [id |-> id, expected |-> IF b.kind = "run-created" THEN 0 ELSE Len(log),
             body |-> b]]
    BY Zenon DEF Decide
  <2>2. b \in Bodies /\ Len(log) \in Nat
    BY DecidableBodies DEF CommandsInv, CommandsTypeOK
  <2> DEFINE n == IF b.kind = "run-created" THEN 0 ELSE Len(log)
  <2>3. n \in Nat /\ n <= Len(log)
    BY <2>2
  <2> HIDE DEF n
  <2>4. [id |-> id, expected |-> n, body |-> b] \in Commands
    BY <2>2, <2>3, Zenon DEF Commands
  <2> QED BY <2>1, <2>3, <2>4, Zenon DEF n
<1>3. outcome' = [outcome EXCEPT ![c] = "pending"]
  BY Zenon DEF Decide
<1>4. outcome'[c] = "pending" /\ command'[c] = cmd
  BY <1>2, <1>3, Zenon DEF CommandsInv, CommandsTypeOK
<1>5. \A d \in Clients : d # c => outcome'[d] = outcome[d] /\ command'[d] = command[d]
  BY <1>2, <1>3, Zenon DEF CommandsInv, CommandsTypeOK
<1>6. CommandsTypeOK'
  <2>1. DOMAIN command' = Clients
    BY <1>2, Zenon DEF CommandsInv, CommandsTypeOK
  <2>2. outcome' \in [Clients -> {"none", "pending"} \cup Rejections \cup Acknowledgements]
    BY <1>3, Zenon DEF CommandsInv, CommandsTypeOK
  <2>3. \A d \in Clients : outcome'[d] # "none" =>
          command'[d] \in Commands /\ command'[d].expected <= Len(log)
    BY <1>2, <1>4, <1>5, Zenon DEF CommandsInv, CommandsTypeOK
  <2> QED BY <1>1, <2>1, <2>2, <2>3, Zenon DEF CommandsInv, CommandsTypeOK
<1>7. IdsAreUnique' /\ SequencesAreAdmitted' /\ HistoryAlwaysFolds'
  BY <1>1, Zenon DEF CommandsInv, IdsAreUnique, SequencesAreAdmitted, HistoryAlwaysFolds
<1>8. \A x, busy : Answer(x, busy)' = Answer(x, busy) /\ Exactly(x)' = Exactly(x)
  BY <1>1, SameAnswer, Zenon
<1>9. RefusedForGood'
  BY <1>1, <1>4, <1>5, <1>8, Zenon DEF CommandsInv, RefusedForGood, FinalRejections
<1>10. AckIsDurable'
  BY <1>1, <1>4, <1>5, Zenon DEF CommandsInv, AckIsDurable, Acknowledgements, EventOf
<1>11. AppliedOnce'
  BY <1>4, <1>5 DEF CommandsInv, AppliedOnce
<1> QED BY <1>6, <1>7, <1>9, <1>10, <1>11, Zenon DEF CommandsInv

(* A command that is not applied leaves the stream alone; its answer is    *)
(* delivered or lost.                                                      *)
LEMMA AnswerInv ==
  ASSUME CommandsInv, NEW c \in Clients, NEW busy \in BOOLEAN, NEW delivered \in BOOLEAN,
         Execute(c, busy, delivered), Answer(command[c], busy) # "Applied"
  PROVE  CommandsInv'
<1> DEFINE answer == Answer(command[c], busy)
<1>1. log' = log /\ aggregate' = aggregate /\ command' = command
  BY Zenon DEF Execute
<1>2. outcome[c] = "pending" /\ command[c] \in Commands
  BY Zenon DEF Execute, CommandsInv, CommandsTypeOK
<1>3. outcome' = [outcome EXCEPT ![c] = IF delivered THEN answer ELSE @]
  BY Zenon DEF Execute
<1>4. \/ answer = "AlreadyApplied" /\ Exactly(command[c])
      \/ answer \in Rejections /\ ~Exactly(command[c])
  BY <1>2, OtherAnswers, RefusedIsAbsent, Zenon
<1>5. outcome'[c] \in {"pending", answer}
  BY <1>2, <1>3, Zenon DEF CommandsInv, CommandsTypeOK
<1>6. \A d \in Clients : d # c => outcome'[d] = outcome[d]
  BY <1>3, Zenon DEF CommandsInv, CommandsTypeOK
<1> HIDE DEF answer
<1>7. CommandsTypeOK'
  <2>1. outcome' \in [Clients -> {"none", "pending"} \cup Rejections \cup Acknowledgements]
    BY <1>3, <1>4, Zenon DEF CommandsInv, CommandsTypeOK, Acknowledgements
  <2>2. \A d \in Clients : outcome'[d] # "none" => outcome[d] # "none"
    BY <1>2, <1>6, Zenon
  <2> QED BY <1>1, <2>1, <2>2, Zenon DEF CommandsInv, CommandsTypeOK
<1>8. IdsAreUnique' /\ SequencesAreAdmitted' /\ HistoryAlwaysFolds'
  BY <1>1, Zenon DEF CommandsInv, IdsAreUnique, SequencesAreAdmitted, HistoryAlwaysFolds
<1>9. \A x, other : Answer(x, other)' = Answer(x, other) /\ Exactly(x)' = Exactly(x)
  BY <1>1, SameAnswer, Zenon
<1>10. RefusedForGood'
  <2>1. outcome'[c] \in FinalRejections => ~Exactly(command[c])
    BY <1>4, <1>5, Zenon DEF FinalRejections
  <2>2. outcome'[c] \in FinalRejections =>
          \A other \in BOOLEAN : Answer(command[c], other) # "Applied"
    <3>1. outcome'[c] \in FinalRejections => Answer(command[c], busy) \in FinalRejections
      BY <1>5, Zenon DEF answer, FinalRejections
    <3> QED BY <3>1, FinalWhateverHolds, Zenon
  <2> QED BY <1>1, <1>6, <1>9, <2>1, <2>2, Zenon DEF CommandsInv, RefusedForGood
<1>11. AckIsDurable'
  <2>1. ASSUME outcome'[c] \in Acknowledgements
        PROVE  /\ command[c].expected + 1 \in DOMAIN log
               /\ log[command[c].expected + 1] = EventOf(command[c])
    <3>1. Exactly(command[c])
      BY <1>4, <1>5, <2>1, Zenon DEF Acknowledgements, Rejections, FinalRejections
    <3>2. PICK i \in DOMAIN log : log[i] = EventOf(command[c])
      BY <3>1, Zenon DEF Exactly
    <3>3. i = command[c].expected + 1
      BY <3>2, SMTT(60) DEF EventOf, CommandsInv, HistoryAlwaysFolds
    <3> QED BY <3>2, <3>3, Zenon
  <2> QED BY <1>1, <1>6, <2>1, Zenon DEF CommandsInv, AckIsDurable, EventOf
<1>12. AppliedOnce'
  <2>1. outcome'[c] # "Applied"
    BY <1>4, <1>5, Zenon DEF Rejections, FinalRejections
  <2> QED BY <1>1, <1>6, <2>1, Zenon DEF CommandsInv, AppliedOnce
<1> QED BY <1>7, <1>8, <1>10, <1>11, <1>12, Zenon DEF CommandsInv

(* A command is applied: one event is appended, where its caller expected. *)
LEMMA ApplyInv ==
  ASSUME CommandsInv, NEW c \in Clients, NEW busy \in BOOLEAN, NEW delivered \in BOOLEAN,
         Execute(c, busy, delivered), Answer(command[c], busy) = "Applied"
  PROVE  CommandsInv'
<1> DEFINE cmd == command[c]
           e == EventOf(cmd)
           N == Len(log)
<1>1. /\ log' = Append(log, e)
      /\ aggregate' = ApplyLifecycleEvent(aggregate, e)
      /\ command' = command
  BY Zenon DEF Execute
<1>2. outcome[c] = "pending" /\ cmd \in Commands
  BY Zenon DEF Execute, CommandsInv, CommandsTypeOK
<1>3. outcome' = [outcome EXCEPT ![c] = IF delivered THEN "Applied" ELSE @]
  BY Zenon DEF Execute
<1>4. ~Exactly(cmd) /\ ~IdInUse(cmd) /\ cmd.expected = N /\ Accepts(aggregate, cmd.body)
  BY AppliedAnswer, Zenon
<1>5. outcome'[c] \in {"pending", "Applied"}
  BY <1>2, <1>3, Zenon DEF CommandsInv, CommandsTypeOK
<1>6. \A d \in Clients : d # c => outcome'[d] = outcome[d]
  BY <1>3, Zenon DEF CommandsInv, CommandsTypeOK
<1>7. log \in Seq(Events) /\ N \in Nat /\ DOMAIN log = 1..N
  BY SMTT(60) DEF CommandsInv, CommandsTypeOK, Events
<1>8. e \in Events /\ e.id = cmd.id /\ e.sequence = N + 1 /\ e.body = cmd.body
  BY <1>2, <1>4, <1>7, SMTT(60) DEF EventOf, Events, Commands
<1>9. /\ log' \in Seq(Events) /\ Len(log') = N + 1 /\ DOMAIN log' = 1..(N + 1)
      /\ log'[N + 1] = e /\ \A i \in 1..N : log'[i] = log[i]
  BY <1>1, <1>7, <1>8, SMTT(60)
<1>10. \A d \in Clients : outcome[d] # "none" =>
         command[d] \in Commands /\ command[d].expected \in Nat /\ command[d].expected <= N
  BY Zenon DEF CommandsInv, CommandsTypeOK, Commands
<1>11. \A d \in Clients : outcome'[d] # "none" => outcome[d] # "none"
  BY <1>2, <1>6, Zenon
<1>12. cmd.body.kind # "run-created" => N \in 1..MaxSequence-1
  BY <1>4, AppliedAnswer, Zenon
<1>13. IdsAreUnique'
  <2>1. \A i \in 1..N : log[i].id # e.id
    BY <1>4, <1>7, <1>8, Zenon DEF IdInUse
  <2> QED BY <1>7, <1>9, <2>1, SMTT(60) DEF CommandsInv, IdsAreUnique
<1>14. SequencesAreAdmitted'
  BY <1>7, <1>8, <1>9, <1>12, MaxSequenceAssumption, SMTT(60) DEF CommandsInv, SequencesAreAdmitted
<1> HIDE DEF cmd, e, N
<1>15. HistoryAlwaysFolds' /\ aggregate' \in Aggregates
  <2>1. aggregate \in Aggregates /\ aggregate.ok /\ aggregate = FoldLifecycle(log)
    BY Zenon DEF CommandsInv, CommandsTypeOK, HistoryAlwaysFolds
  <2>2. aggregate' = Applied(aggregate, cmd.body)
    BY <1>1, <1>4, <1>8, <2>1, Zenon DEF ApplyLifecycleEvent
  <2>3. aggregate' \in Aggregates /\ aggregate'.ok
    BY <1>2, <2>1, <2>2, AppliedType, Zenon DEF Commands
  <2>4. FoldLifecycle(log') = ApplyLifecycleEvent(FoldLifecycle(log), e)
    BY <1>1, <1>7, <1>8, FoldFromAppend, ZenonT(60) DEF FoldLifecycle
  <2>5. \A i \in DOMAIN log' : log'[i].sequence = i
    BY <1>7, <1>8, <1>9, SMTT(60) DEF CommandsInv, HistoryAlwaysFolds
  <2> QED BY <1>1, <2>1, <2>3, <2>4, <2>5, Zenon DEF HistoryAlwaysFolds
<1>16. CommandsTypeOK'
  <2>1. outcome' \in [Clients -> {"none", "pending"} \cup Rejections \cup Acknowledgements]
    BY <1>3, Zenon DEF CommandsInv, CommandsTypeOK, Acknowledgements
  <2>2. \A d \in Clients : outcome'[d] # "none" =>
          command'[d] \in Commands /\ command'[d].expected <= Len(log')
    BY <1>1, <1>7, <1>9, <1>10, <1>11, SMTT(60)
  <2> QED BY <1>1, <1>9, <1>15, <2>1, <2>2, Zenon DEF CommandsInv, CommandsTypeOK, Events
<1>17. RefusedForGood'
  <2> SUFFICES ASSUME NEW d \in Clients, outcome'[d] \in FinalRejections
               PROVE  /\ ~Exactly(command[d])'
                      /\ command[d].expected < Len(log')
    BY <1>1, Zenon DEF RefusedForGood
  <2>1. outcome[d] \in FinalRejections /\ outcome[d] # "none"
    BY <1>5, <1>6, Zenon DEF FinalRejections
  <2>2. ~Exactly(command[d]) /\ (command[d].expected < N \/ Answer(command[d], busy) # "Applied")
    BY <2>1, Zenon DEF CommandsInv, RefusedForGood, N
  <2>3. command[d] # cmd
    BY <1>4, <1>7, <2>2, SMTT(60) DEF cmd
  <2>4. EventOf(command[d]) # e
    BY <1>2, <1>10, <2>1, <2>3, SMTT(60) DEF e, EventOf, Commands
  <2>5. \A i \in DOMAIN log' : log'[i] # EventOf(command[d])
    BY <1>7, <1>9, <2>2, <2>4, SMTT(60) DEF Exactly
  <2>6. ~Exactly(command[d])'
    BY <1>1, <2>5, Zenon DEF Exactly, EventOf
  <2> QED BY <1>7, <1>9, <1>10, <2>1, <2>6, SMTT(60)
<1>18. AckIsDurable'
  <2> SUFFICES ASSUME NEW d \in Clients, outcome'[d] \in Acknowledgements
               PROVE  /\ command[d].expected + 1 \in DOMAIN log'
                      /\ log'[command[d].expected + 1] = EventOf(command[d])
    BY <1>1, Zenon DEF AckIsDurable, EventOf
  <2>1. CASE d = c
    BY <1>4, <1>7, <1>9, <2>1, SMTT(60) DEF cmd, e
  <2>2. CASE d # c
    <3>1. /\ command[d].expected + 1 \in DOMAIN log
          /\ log[command[d].expected + 1] = EventOf(command[d])
      BY <1>6, <2>2, Zenon DEF CommandsInv, AckIsDurable
    <3> QED BY <1>7, <1>9, <3>1, SMTT(60)
  <2> QED BY <2>1, <2>2, Zenon
<1>19. AppliedOnce'
  <2>1. \A d \in Clients : d # c /\ outcome'[d] = "Applied" => command[d] # cmd
    <3> SUFFICES ASSUME NEW d \in Clients, d # c, outcome'[d] = "Applied" PROVE command[d] # cmd
      BY Zenon
    <3>1. Exactly(command[d])
      BY <1>6, Zenon DEF CommandsInv, AckIsDurable, Exactly, Acknowledgements
    <3> QED BY <1>4, <3>1, Zenon
  <2> QED BY <1>1, <1>6, <2>1, Zenon DEF CommandsInv, AppliedOnce, cmd
<1> QED BY <1>13, <1>14, <1>15, <1>16, <1>17, <1>18, <1>19, Zenon DEF CommandsInv

(* Every step of every caller keeps the invariant.                         *)
LEMMA CommandsStep == CommandsInv /\ [CommandsNext]_commandVars => CommandsInv'
<1> SUFFICES ASSUME CommandsInv, [CommandsNext]_commandVars PROVE CommandsInv'
  BY Zenon
<1>1. CASE \E c \in Clients : Decide(c)
  BY <1>1, DecideInv, Zenon
<1>2. CASE \E c \in Clients, busy, delivered \in BOOLEAN : Execute(c, busy, delivered)
  BY <1>2, AnswerInv, ApplyInv, Zenon
<1>3. CASE UNCHANGED commandVars
  <2>1. log' = log /\ aggregate' = aggregate /\ command' = command /\ outcome' = outcome
    BY <1>3, Zenon DEF commandVars
  <2>2. \A x, busy : Answer(x, busy)' = Answer(x, busy) /\ Exactly(x)' = Exactly(x)
    BY <2>1, SameAnswer, Zenon
  <2>3. CommandsTypeOK'
    BY <2>1, Zenon DEF CommandsInv, CommandsTypeOK
  <2>4. IdsAreUnique' /\ SequencesAreAdmitted' /\ HistoryAlwaysFolds'
    BY <2>1, Zenon DEF CommandsInv, IdsAreUnique, SequencesAreAdmitted, HistoryAlwaysFolds
  <2>5. RefusedForGood'
    BY <2>1, <2>2, Zenon DEF CommandsInv, RefusedForGood
  <2>6. AckIsDurable' /\ AppliedOnce'
    BY <2>1, Zenon DEF CommandsInv, AckIsDurable, AppliedOnce, EventOf
  <2> QED BY <2>3, <2>4, <2>5, <2>6, Zenon DEF CommandsInv
<1> QED BY <1>1, <1>2, <1>3, Zenon DEF CommandsNext

(* The inductive invariant of the command stream, for any number of        *)
(* callers, tasks and identifiers.                                         *)
THEOREM CommandsCorrect == CommandsSpec => []CommandsInv
  BY CommandsInitInv, CommandsStep, PTL DEF CommandsSpec

(* Whatever create_run, create_task, transition_run and transition_task    *)
(* append, under any interleaving of stale commands and retries, every     *)
(* later fold_lifecycle accepts.                                           *)
THEOREM StreamAlwaysFolds == CommandsSpec => []HistoryAlwaysFolds
<1>1. CommandsInv => HistoryAlwaysFolds
  BY Zenon DEF CommandsInv
<1> QED BY <1>1, CommandsCorrect, PTL

(* An error answer of create_run, create_task, transition_run and          *)
(* transition_task other than ParentStateConflict is final: the command    *)
(* neither was committed by an attempt whose answer was lost nor ever will *)
(* be, whatever becomes of the operations and effects of the run.          *)
THEOREM RejectedStaysOut == CommandsSpec => []RejectionIsFinal
<1>1. CommandsInv => RejectionIsFinal
  BY Zenon DEF CommandsInv, RefusedForGood, RejectionIsFinal
<1> QED BY <1>1, CommandsCorrect, PTL

(* An acknowledged command stays in the stream at the sequence its caller  *)
(* expected.                                                               *)
THEOREM AcknowledgedStays == CommandsSpec => []AckIsDurable
<1>1. CommandsInv => AckIsDurable
  BY Zenon DEF CommandsInv
<1> QED BY <1>1, CommandsCorrect, PTL

(* Of two callers with the same command at most one is told Applied.       *)
THEOREM AppliesOnce == CommandsSpec => []AppliedOnce
<1>1. CommandsInv => AppliedOnce
  BY Zenon DEF CommandsInv
<1> QED BY <1>1, CommandsCorrect, PTL

-----------------------------------------------------------------------------
(* The rules of the two modules are the same: the fold validates with the  *)
(* functions that admitted the command.                                    *)
LEMMA SameSets ==
  /\ L!Absent = Absent /\ L!RunStates = RunStates /\ L!TaskStates = TaskStates
  /\ L!Parents = Parents /\ L!TerminalStates = TerminalStates
  BY Zenon DEF L!Absent, Absent, L!RunStates, RunStates, L!TaskStates, TaskStates, L!Parents,
     Parents, L!TerminalStates, TerminalStates, L!LiveStates, LiveStates

(* Which tasks are known, and which are the children of one.               *)
LEMMA SameTaskSets ==
  ASSUME NEW ts, NEW ps, NEW t
  PROVE  L!Known(ts) = Known(ts) /\ L!Children(ts, ps, t) = Children(ts, ps, t)
<1>1. L!Known(ts) = Known(ts)
  BY SameSets, Zenon DEF L!Known, Known
<1> QED BY <1>1, Zenon DEF L!Children, Children

(* What validate_task_creation lets through when it folds is what the      *)
(* lifecycle lets through.                                                 *)
LEMMA SameCreationRule ==
  ASSUME NEW rs, NEW ts, NEW t, NEW p, ValidTaskCreation(rs, ts, t, p)
  PROVE  L!ValidTaskCreation(rs, ts, t, p)
  BY SameSets, Zenon DEF L!ValidTaskCreation, ValidTaskCreation

(* The same for validate_run_transition, with the outcomes it derives from *)
(* the tasks.                                                              *)
LEMMA SameRunRule ==
  ASSUME NEW ts, NEW from, NEW to, ValidRunTransition(ts, from, to)
  PROVE  L!ValidRunTransition(ts, from, to)
<1>1. L!Known(ts) = Known(ts) /\ L!TerminalStates = TerminalStates
  BY SameSets, SameTaskSets, Zenon
<1>2. L!IsRunEdge(from, to) <=> IsRunEdge(from, to)
  BY Zenon DEF L!IsRunEdge, IsRunEdge
<1>3. L!AllTerminal(ts) <=> AllTerminal(ts)
  BY <1>1, Zenon DEF L!AllTerminal, AllTerminal
<1>4. \A s : L!SomeTask(ts, s) <=> SomeTask(ts, s)
  BY <1>1, Zenon DEF L!SomeTask, SomeTask
<1>5. L!Quiescent(ts) <=> Quiescent(ts)
  BY <1>1, Zenon DEF L!Quiescent, Quiescent
<1>6. L!CancelledOutcome(ts) <=> CancelledOutcome(ts)
  BY <1>3, <1>4, Zenon DEF L!CancelledOutcome, CancelledOutcome
<1> QED BY <1>1, <1>2, <1>3, <1>4, <1>5, <1>6, Zenon DEF L!ValidRunTransition, ValidRunTransition

(* The same for validate_task_transition.                                  *)
LEMMA SameTaskRule ==
  ASSUME NEW rs, NEW ts, NEW ps, NEW t, NEW from, NEW to,
         ValidTaskTransition(rs, ts, ps, t, from, to)
  PROVE  L!ValidTaskTransition(rs, ts, ps, t, from, to)
<1>1. L!Children(ts, ps, t) = Children(ts, ps, t) /\ L!TerminalStates = TerminalStates
  BY SameSets, SameTaskSets, Zenon
<1>2. L!IsTaskEdge(from, to) <=> IsTaskEdge(from, to)
  BY Zenon DEF L!IsTaskEdge, IsTaskEdge
<1> QED BY <1>1, <1>2, Zenon DEF L!ValidTaskTransition, ValidTaskTransition

(* An applied command is a step of the atomic lifecycle, of the kind the   *)
(* command names.                                                          *)
LEMMA AppliedIsStep ==
  ASSUME NEW b \in Bodies, aggregate \in Aggregates, Accepts(aggregate, b),
         aggregate' = Applied(aggregate, b)
  PROVE  L!LifecycleNext
<1>1. CASE b.kind = "run-created"
  <2>1. aggregate.run = Absent /\ aggregate' = [aggregate EXCEPT !.run = "Created"]
    BY <1>1, RunCreated, Zenon
  <2>2. L!CreateRun
    BY <2>1, SameSets, Zenon DEF L!CreateRun, Aggregates
  <2> QED BY <2>2, Zenon DEF L!LifecycleNext
<1>2. CASE b.kind = "task-created"
  <2> DEFINE u == [aggregate EXCEPT !.task[b.task] = "Created"]
  <2>1. /\ b.task \in Tasks /\ b.parent \in Parents
        /\ ValidTaskCreation(aggregate.run, aggregate.task, b.task, b.parent)
        /\ aggregate' = [u EXCEPT !.parent[b.task] = b.parent]
    BY <1>2, TaskCreated, Zenon
  <2>2. /\ DOMAIN u = {"run", "task", "parent", "ok"}
        /\ u.run = aggregate.run /\ u.parent = aggregate.parent
        /\ u.task = [aggregate.task EXCEPT ![b.task] = "Created"]
    BY <2>1, Zenon DEF Aggregates
  <2> HIDE DEF u
  <2>3. /\ aggregate'.run = aggregate.run
        /\ aggregate'.task = [aggregate.task EXCEPT ![b.task] = "Created"]
        /\ aggregate'.parent = [aggregate.parent EXCEPT ![b.task] = b.parent]
    BY <2>1, <2>2, Zenon
  <2>4. L!CreateTask(b.task, b.parent)
    BY <2>1, <2>3, SameCreationRule, Zenon DEF L!CreateTask
  <2> QED BY <2>1, <2>4, SameSets, Zenon DEF L!LifecycleNext
<1>3. CASE b.kind = "run-state-transitioned"
  <2>1. /\ b.to \in RunStates
        /\ ValidRunTransition(aggregate.task, aggregate.run, b.to)
        /\ aggregate' = [aggregate EXCEPT !.run = b.to]
    BY <1>3, RunTransitioned, Zenon
  <2>2. L!TransitionRun(b.to)
    BY <2>1, SameRunRule, Zenon DEF L!TransitionRun, Aggregates
  <2> QED BY <2>1, <2>2, SameSets, Zenon DEF L!LifecycleNext
<1>4. CASE b.kind = "task-state-transitioned"
  <2>1. /\ b.task \in Tasks /\ b.to \in TaskStates
        /\ ValidTaskTransition(aggregate.run, aggregate.task, aggregate.parent, b.task,
                               aggregate.task[b.task], b.to)
        /\ aggregate' = [aggregate EXCEPT !.task[b.task] = b.to]
    BY <1>4, TaskTransitioned, Zenon
  <2>2. /\ aggregate'.run = aggregate.run /\ aggregate'.parent = aggregate.parent
        /\ aggregate'.task = [aggregate.task EXCEPT ![b.task] = b.to]
    BY <2>1, Zenon DEF Aggregates
  <2>3. L!TransitionTask(b.task, b.to)
    BY <2>1, <2>2, SameTaskRule, Zenon DEF L!TransitionTask
  <2> QED BY <2>1, <2>3, SameSets, Zenon DEF L!LifecycleNext
<1> QED BY <1>1, <1>2, <1>3, <1>4, KindsOfBodies, Zenon

(* Every behaviour of the stream is, through fold_lifecycle, one of the    *)
(* atomic lifecycle: an applied command is one step, everything else (a    *)
(* decision, a refusal, a retry, a lost answer) none.                      *)
THEOREM CommandsImplementLifecycle == CommandsSpec => ImplementsLifecycle
<1>1. CommandsInit => L!LifecycleInit
  <2> SUFFICES ASSUME CommandsInit PROVE L!LifecycleInit
    BY Zenon
  <2>1. aggregate = EmptyAggregate
    BY FoldFromEmpty, Zenon DEF CommandsInit, FoldLifecycle
  <2> QED BY <2>1, SameSets, Zenon DEF EmptyAggregate, L!LifecycleInit
<1>2. CommandsInv /\ [CommandsNext]_commandVars => [L!LifecycleNext]_(L!lifecycleVars)
  <2> SUFFICES ASSUME CommandsInv, [CommandsNext]_commandVars
               PROVE  L!LifecycleNext \/ aggregate' = aggregate
    BY Zenon DEF L!lifecycleVars
  <2>1. ASSUME NEW c \in Clients, NEW busy \in BOOLEAN, NEW delivered \in BOOLEAN,
               Execute(c, busy, delivered), Answer(command[c], busy) = "Applied"
        PROVE  L!LifecycleNext
    <3> DEFINE b == command[c].body
    <3>1. b \in Bodies /\ aggregate \in Aggregates /\ aggregate.ok
      BY <2>1, Zenon DEF CommandsInv, CommandsTypeOK, Commands, Execute, HistoryAlwaysFolds
    <3>2. Accepts(aggregate, b)
      BY <2>1, AppliedAnswer, Zenon
    <3>3. aggregate' = Applied(aggregate, b)
      BY <2>1, <3>1, <3>2, Zenon DEF Execute, ApplyLifecycleEvent, EventOf
    <3> QED BY <3>1, <3>2, <3>3, AppliedIsStep, Zenon
  <2> QED BY <2>1, Zenon DEF CommandsNext, Decide, Execute, commandVars
<1> QED BY <1>1, <1>2, CommandsCorrect, PTL DEF CommandsSpec, ImplementsLifecycle, L!LifecycleSpec

-----------------------------------------------------------------------------
Rows == [body : Bodies, epoch : 1..2]

(* The history folds on: an append of an acceptable body by any writer     *)
(* keeps it readable.                                                      *)
LEMMA AppendFolds ==
  ASSUME EventsFold, NEW b \in Appendable, NEW epoch \in 1..2,
         events' = Append(events, [body |-> b, epoch |-> epoch])
  PROVE  EventsFold'
<1> DEFINE s == FoldLifecycle(events)
           row == [body |-> b, epoch |-> epoch]
<1>1. s \in Aggregates /\ s.ok /\ events \in Seq(Rows)
  BY Zenon DEF EventsFold, Rows
<1>2. b \in Decidable(s) /\ Accepts(s, b)
  BY Zenon DEF Appendable
<1>3. b \in Bodies
  BY <1>1, <1>2, DecidableBodies, Zenon
<1>4. row \in Rows /\ row.body = b
  BY <1>3, Zenon DEF Rows
<1> HIDE DEF row
<1>5. FoldLifecycle(Append(events, row)) = ApplyLifecycleEvent(s, row)
  BY <1>1, <1>4, FoldFromAppend, ZenonT(60) DEF FoldLifecycle
<1> HIDE DEF s
<1>6. ApplyLifecycleEvent(s, row) = Applied(s, b)
  BY <1>1, <1>2, <1>4, Zenon DEF ApplyLifecycleEvent
<1>7. Applied(s, b) \in Aggregates /\ Applied(s, b).ok
  BY <1>1, <1>3, AppliedType, Zenon
<1>8. events' = Append(events, row) /\ events' \in Seq(Rows)
  BY <1>1, <1>4, SMTT(60) DEF row
<1> QED BY <1>5, <1>6, <1>7, <1>8, Zenon DEF EventsFold, Rows

(* A new file, or one of version 1.                                        *)
LEMMA MigrationInitInv == MigrationInit => MigrationInv
<1> SUFFICES ASSUME MigrationInit PROVE MigrationInv
  BY Zenon
<1>1. EventsFold
  <2>1. events = <<>> /\ FoldLifecycle(events) = EmptyAggregate
    BY FoldFromEmpty, Zenon DEF MigrationInit, FoldLifecycle
  <2>2. EmptyAggregate \in Aggregates /\ EmptyAggregate.ok
    BY Zenon DEF EmptyAggregate, Aggregates, Parents
  <2> QED BY <2>1, <2>2, SMTT(60) DEF EventsFold
<1> QED BY <1>1 DEF MigrationInit, MigrationInv, UpgradeInv, UpgradeIsAtomic

(* The statements of an upgrade, one by one, and its end.                  *)
LEMMA UpgradeSteps ==
  ASSUME MigrationInv, NEW p \in Openers,
         \/ BeginExclusive(p) \/ CreateV1(p) \/ MigrateStep(p) \/ FailUpgrade(p)
         \/ OpenCurrent(p) \/ Close(p)
  PROVE  MigrationInv' /\ events' = events /\ version' = version /\ objects' = objects
<1> USE DEF MigrationInv, UpgradeInv, UpgradeIsAtomic, fileVars
<1>1. events' = events /\ version' = version /\ objects' = objects
  BY Zenon DEF BeginExclusive, CreateV1, MigrateStep, FailUpgrade, OpenCurrent, Close
<1>2. EventsFold'
  BY <1>1, Zenon DEF EventsFold
<1>3. upgrade.by = p => upgrade # NoUpgrade
  BY MigrationAssumption, SMTT(60) DEF NoUpgrade
<1>4. Len(V2Steps) = 6
  BY Zenon DEF V2Steps
<1>5. CASE BeginExclusive(p)
  <2>1. upgrade' = [by |-> p, version |-> version, done |-> 0] /\ version < 2
        /\ handles' = handles
    BY <1>5, Zenon DEF BeginExclusive, DbVersion
  <2> QED BY <1>1, <1>2, <1>4, <2>1, SMTT(60)
<1>6. CASE CreateV1(p)
  <2>1. /\ upgrade # NoUpgrade /\ upgrade.version = 0 /\ handles' = handles
        /\ upgrade' = [upgrade EXCEPT !.version = 1]
    BY <1>3, <1>6, Zenon DEF CreateV1
  <2> QED BY <1>1, <1>2, <1>4, <2>1, SMTT(60)
<1>7. CASE MigrateStep(p)
  <2>1. /\ upgrade # NoUpgrade /\ upgrade.version = 1 /\ handles' = handles
        /\ upgrade' = IF upgrade.done < 6 THEN [upgrade EXCEPT !.done = @ + 1]
                                          ELSE [upgrade EXCEPT !.version = 2]
    BY <1>3, <1>4, <1>7, Zenon DEF MigrateStep
  <2>2. upgrade \in [by : Openers, version : 0..2, done : 0..6]
    BY <1>4, <2>1, Zenon
  <2>3. CASE upgrade.done < 6
    BY <1>1, <1>2, <1>4, <2>1, <2>2, <2>3, SMTT(60)
  <2>4. CASE ~(upgrade.done < 6)
    <3>1. upgrade.done = 6
      BY <2>2, <2>4, SMTT(60)
    <3> QED BY <1>1, <1>2, <1>4, <2>1, <2>2, <2>4, <3>1, SMTT(60)
  <2> QED BY <2>3, <2>4, Zenon
<1>8. CASE FailUpgrade(p)
  BY <1>1, <1>2, <1>8, Zenon DEF FailUpgrade
<1>9. CASE OpenCurrent(p)
  BY <1>1, <1>2, <1>9, Zenon DEF OpenCurrent, DbVersion
<1>10. CASE Close(p)
  BY <1>1, <1>2, <1>10, Zenon DEF Close
<1> QED BY <1>1, <1>5, <1>6, <1>7, <1>8, <1>9, <1>10, Zenon

(* The commit publishes the version and all of its objects at once.        *)
LEMMA CommitUpgradeInv ==
  ASSUME MigrationInv, NEW p \in Openers, NEW expected \in BOOLEAN, CommitUpgrade(p, expected)
  PROVE  MigrationInv' /\ events' = events
<1>1. upgrade # NoUpgrade /\ upgrade.version = 2
  BY MigrationAssumption DEF CommitUpgrade, NoUpgrade, DbVersion
<1>2. upgrade.done = Len(V2Steps)
  BY <1>1, Zenon DEF MigrationInv, UpgradeInv
<1>3. /\ version' = 2 /\ upgrade' = NoUpgrade /\ events' = events
      /\ objects' = {V2Steps[i] : i \in 1..upgrade.done}
  BY Zenon DEF CommitUpgrade, DbVersion, StagedObjects
<1>4. DOMAIN V2Steps = 1..Len(V2Steps)
  BY DEF V2Steps
<1>5. objects' = {V2Steps[i] : i \in DOMAIN V2Steps}
  BY <1>2, <1>3, <1>4, Zenon
<1>6. EventsFold'
  BY <1>3, Zenon DEF MigrationInv, EventsFold
<1>7. version' \in 0..2 /\ UpgradeInv'
  BY <1>3 DEF UpgradeInv
<1>8. UpgradeIsAtomic'
  BY <1>3, <1>5, ZenonT(60) DEF UpgradeIsAtomic
<1> QED BY <1>3, <1>6, <1>7, <1>8, ZenonT(60) DEF MigrationInv

(* An append, by a process of this version or of the previous one, changes *)
(* nothing but the history, and only extends it.                           *)
LEMMA AppendInv ==
  ASSUME MigrationInv, NEW b \in Appendable, NEW epoch \in 1..2, AppendRow(b, epoch)
  PROVE  /\ MigrationInv'
         /\ Len(events') = Len(events) + 1
         /\ events' = Append(events, [body |-> b, epoch |-> epoch])
<1>1. /\ events' = Append(events, [body |-> b, epoch |-> epoch])
      /\ UNCHANGED <<version, objects, upgrade, handles>>
  BY Zenon DEF AppendRow
<1>2. EventsFold'
  BY <1>1, AppendFolds, Zenon DEF MigrationInv
<1>3. events \in Seq(Rows)
  BY Zenon DEF MigrationInv, EventsFold, Rows
<1> QED BY <1>1, <1>2, <1>3, SMTT(60) DEF MigrationInv, UpgradeInv, UpgradeIsAtomic

(* One step of the migration or an append: the invariant is kept, and the  *)
(* history stays as it is or grows by a row, of this version's epoch once  *)
(* the file has been upgraded.                                             *)
LEMMA MigrationStepInv ==
  ASSUME MigrationInv, MigrationStep
  PROVE  /\ MigrationInv'
         /\ \/ events' = events
            \/ \E row \in Rows : /\ events' = Append(events, row)
                                 /\ version = 2 => row.epoch = 2
<1>1. ASSUME NEW p \in Openers,
             \/ BeginExclusive(p) \/ CreateV1(p) \/ MigrateStep(p) \/ FailUpgrade(p)
             \/ OpenCurrent(p) \/ Close(p)
      PROVE  MigrationInv' /\ events' = events
  BY <1>1, UpgradeSteps, Zenon
<1>2. ASSUME NEW p \in Openers, NEW expected \in BOOLEAN, CommitUpgrade(p, expected)
      PROVE  MigrationInv' /\ events' = events
  BY <1>2, CommitUpgradeInv, Zenon
<1>3. \A b \in Appendable : b \in Bodies
  BY DecidableBodies, Zenon DEF Appendable, MigrationInv, EventsFold
<1>4. ASSUME NEW b \in Appendable, NEW epoch \in 1..2, AppendRow(b, epoch),
             version = 2 => epoch = 2
      PROVE  /\ MigrationInv'
             /\ \E row \in Rows : events' = Append(events, row) /\ (version = 2 => row.epoch = 2)
  <2> DEFINE row == [body |-> b, epoch |-> epoch]
  <2>1. row \in Rows /\ row.epoch = epoch
    BY <1>3, Zenon DEF Rows
  <2>2. MigrationInv' /\ events' = Append(events, row)
    BY <1>4, AppendInv, Zenon
  <2> QED BY <1>4, <2>1, <2>2, Zenon
<1>5. ASSUME NEW p \in Openers, NEW b \in Appendable, InsertPrepared(p, b)
      PROVE  AppendRow(b, 2)
  BY <1>5, Zenon DEF InsertPrepared
<1>6. ASSUME NEW b \in Appendable, LegacyInsert(b)
      PROVE  AppendRow(b, 1) /\ version # 2
  <2>1. "events_writer_epoch_v2" \in {V2Steps[i] : i \in DOMAIN V2Steps}
    BY SMTT(60) DEF V2Steps
  <2> QED BY <1>6, <2>1, Zenon DEF LegacyInsert, MigrationInv, UpgradeIsAtomic
<1> QED BY <1>1, <1>2, <1>4, <1>5, <1>6, SMTT(60) DEF MigrationStep

-----------------------------------------------------------------------------
(* Prefixes of a stream, one event after the other.                        *)
LEMMA PrefixGrows ==
  ASSUME NEW T, NEW l \in Seq(T), NEW x \in Seq(T), NEW n \in 1..Len(l)
  PROVE  Append(x \o SubSeq(l, 1, n - 1), l[n]) = x \o SubSeq(l, 1, n)
  BY SMTT(60)

(* Streams with the same events are the same.                              *)
LEMMA SameSeq ==
  ASSUME NEW T, NEW l \in Seq(T), NEW k \in Seq(T), Len(k) = Len(l),
         \A n \in 1..Len(l) : k[n] = l[n]
  PROVE  k = l
  OBVIOUS

(* A stream is its first events followed by the others.                    *)
LEMMA PrefixAndSuffix ==
  ASSUME NEW T, NEW l \in Seq(T), NEW c \in 0..Len(l)
  PROVE  /\ SubSeq(l, 1, c) \o SubSeq(l, c + 1, Len(l)) = l
         /\ SubSeq(l, 1, Len(l)) = l
<1> DEFINE a == SubSeq(l, 1, c)
           b == SubSeq(l, c + 1, Len(l))
<1>1. a \in Seq(T) /\ Len(a) = c /\ \A n \in 1..c : a[n] = l[n]
  OBVIOUS
<1>2. b \in Seq(T) /\ Len(b) = Len(l) - c /\ \A n \in 1..(Len(l) - c) : b[n] = l[c + n]
  OBVIOUS
<1> HIDE DEF a, b
<1>3. a \o b \in Seq(T) /\ Len(a \o b) = Len(l)
  <2>1. a \in Seq(T) /\ b \in Seq(T) /\ Len(a) + Len(b) = Len(l)
    BY <1>1, <1>2, SMTT(60)
  <2>2. a \o b \in Seq(T) /\ Len(a \o b) = Len(a) + Len(b)
    BY <2>1
  <2> QED BY <2>1, <2>2, Zenon
<1>4. \A n \in 1..Len(l) : (a \o b)[n] = l[n]
  <2> SUFFICES ASSUME NEW n \in 1..Len(l) PROVE (a \o b)[n] = l[n]
    BY Zenon
  <2>1. CASE n <= c
    BY <1>1, <1>2, <2>1, SMTT(60)
  <2>2. CASE ~(n <= c)
    <3>1. (a \o b)[n] = b[n - c] /\ n - c \in 1..(Len(l) - c) /\ c + (n - c) = n
      BY <1>1, <1>2, <2>2
    <3> QED BY <1>2, <3>1, Zenon
  <2> QED BY <2>1, <2>2, Zenon
<1>5. a \o b = l
  <2> DEFINE w == a \o b
  <2>1. w \in Seq(T) /\ Len(w) = Len(l) /\ \A n \in 1..Len(l) : w[n] = l[n]
    BY <1>3, <1>4, Zenon
  <2> HIDE DEF w
  <2>2. w = l
    BY <2>1, SameSeq, Zenon
  <2> QED BY <2>2, Zenon DEF w
<1>6. SubSeq(l, 1, Len(l)) = l
  BY SMTT(60)
<1> QED BY <1>5, <1>6, Zenon DEF a, b

(* history_chain: the chain that history_step extends event by event       *)
(* stands for the reducer and the whole history it started with and saw.   *)
LEMMA HistoryFromIs ==
  ASSUME NEW T, NEW l \in Seq(T), NEW x \in Seq(T), NEW r
  PROVE  HistoryFrom([reducer |-> r, events |-> x], l) = [reducer |-> r, events |-> x \o l]
<1> DEFINE h == [reducer |-> r, events |-> x]
           N == Len(l)
           Upto(n) == [reducer |-> r, events |-> x \o SubSeq(l, 1, n)]
           Chains(g) == g = [n \in 0..N |-> IF n = 0 THEN h ELSE HistoryStep(g[n - 1], l[n])]
           c == [n \in 0..N |-> Upto(n)]
<1>1. N \in Nat
  BY SMTT(60)
<1>2. Upto(0) = h
  <2>1. SubSeq(l, 1, 0) = <<>> /\ x \o <<>> = x
    OBVIOUS
  <2> QED BY <2>1, Zenon
<1>3. \A n \in 1..N : Upto(n) = HistoryStep(Upto(n - 1), l[n])
  <2> SUFFICES ASSUME NEW n \in 1..N PROVE Upto(n) = HistoryStep(Upto(n - 1), l[n])
    BY Zenon
  <2>1. Append(x \o SubSeq(l, 1, n - 1), l[n]) = x \o SubSeq(l, 1, n)
    BY PrefixGrows, ZenonT(60)
  <2>2. \A y, e : HistoryStep([reducer |-> r, events |-> y], e)
                 = [reducer |-> r, events |-> Append(y, e)]
    BY Zenon DEF HistoryStep
  <2> QED BY <2>1, <2>2, Zenon
<1> HIDE DEF h, Upto
<1>4. Chains(c)
  BY <1>1, <1>2, <1>3
<1> DEFINE g == CHOOSE g : Chains(g)
<1>5. Chains(g)
  BY <1>4, Zenon
<1>6. HistoryFrom(h, l) = g[N]
  BY Zenon DEF HistoryFrom
<1> HIDE DEF g
<1>7. \A n \in 0..N : g[n] = IF n = 0 THEN h ELSE HistoryStep(g[n - 1], l[n])
  BY <1>5, Zenon
<1> HIDE DEF N
<1> DEFINE S == {n \in Nat : n <= N => g[n] = Upto(n)}
<1>8. 0 \in S
  BY <1>1, <1>2, <1>7, SMTT(60)
<1>9. ASSUME NEW n \in Nat, n \in S
      PROVE  n + 1 \in S
  <2> SUFFICES ASSUME n + 1 <= N PROVE g[n + 1] = Upto(n + 1)
    OBVIOUS
  <2>1. g[n] = Upto(n) /\ n + 1 \in 1..N /\ (n + 1) - 1 = n
    BY <1>1, <1>9, SMTT(60)
  <2>2. g[n + 1] = HistoryStep(g[n], l[n + 1])
    BY <1>1, <1>7, <2>1, SMTT(60)
  <2>3. Upto(n + 1) = HistoryStep(Upto(n), l[n + 1])
    BY <1>3, <2>1, Zenon
  <2> QED BY <2>1, <2>2, <2>3, Zenon
<1>10. Nat \subseteq S
  <2> HIDE DEF S
  <2> QED BY <1>8, <1>9, NatSetInduction, Zenon
<1>11. g[N] = Upto(N)
  BY <1>1, <1>10
<1>12. SubSeq(l, 1, N) = l
  BY <1>1, PrefixAndSuffix DEF N
<1>13. Upto(N) = [reducer |-> r, events |-> x \o l]
  BY <1>12, Zenon DEF Upto
<1> QED BY <1>6, <1>11, <1>13, Zenon DEF h

(* From the seed, the chain is the reducer and the history.                *)
LEMMA HistoryChainIs ==
  ASSUME NEW T, NEW l \in Seq(T), NEW r
  PROVE  HistoryChain(r, l) = [reducer |-> r, events |-> l]
<1>1. <<>> \in Seq(T) /\ <<>> \o l = l
  OBVIOUS
<1>2. HistoryFrom([reducer |-> r, events |-> <<>>], l) = [reducer |-> r, events |-> <<>> \o l]
  BY <1>1, HistoryFromIs, Zenon
<1> QED BY <1>1, <1>2, Zenon DEF HistoryChain, HistorySeed

-----------------------------------------------------------------------------
(* A bounded set of sequences has a largest one.                           *)
LEMMA BoundedMax ==
  ASSUME NEW N \in Nat, NEW A \in SUBSET Nat, A # {}, \A x \in A : x <= N
  PROVE  \E m \in A : \A x \in A : x <= m
<1> DEFINE S == {n \in Nat : \A B \in SUBSET Nat :
                   B # {} /\ (\A x \in B : x <= n) => \E m \in B : \A x \in B : x <= m}
<1>1. 0 \in S
  <2> SUFFICES ASSUME NEW B \in SUBSET Nat, B # {}, \A x \in B : x <= 0
               PROVE  \E m \in B : \A x \in B : x <= m
    BY Zenon
  <2>1. PICK m \in B : TRUE
    BY Zenon
  <2>2. \A x \in B : x <= m
    BY <2>1, SMTT(60)
  <2> QED BY <2>2, Zenon
<1>2. ASSUME NEW n \in Nat, n \in S
      PROVE  n + 1 \in S
  <2> SUFFICES ASSUME NEW B \in SUBSET Nat, B # {}, \A x \in B : x <= n + 1
               PROVE  \E m \in B : \A x \in B : x <= m
    OBVIOUS
  <2>1. CASE n + 1 \in B
    BY <2>1, Zenon
  <2>2. CASE n + 1 \notin B
    <3>1. \A x \in B : x <= n
      BY <2>2
    <3> QED BY <1>2, <3>1, Zenon
  <2> QED BY <2>1, <2>2, Zenon
<1>3. Nat \subseteq S
  <2> HIDE DEF S
  <2> QED BY <1>1, <1>2, NatSetInduction, Zenon
<1> QED BY <1>3, Zenon

(* select_snapshot returns a row whenever there is one to select: rows are *)
(* ordered by cursor_sequence and then by their ordinal.                   *)
LEMMA SelectionExists ==
  ASSUME ProjectionInv, NEW horizon \in Nat, Candidates(horizon) # {}
  PROVE  SelectSnapshot(horizon) \in DOMAIN snapshots
<1> DEFINE C == Candidates(horizon)
           A == {snapshots[i].at : i \in C}
           After(i, j) == \/ snapshots[j].at < snapshots[i].at
                          \/ snapshots[j].at = snapshots[i].at /\ j <= i
<1>1. /\ DOMAIN snapshots = 1..Len(snapshots) /\ Len(snapshots) \in Nat
      /\ \A i \in DOMAIN snapshots : snapshots[i].at \in Nat
  <2>1. DOMAIN snapshots = 1..Len(snapshots) /\ Len(snapshots) \in Nat
    BY SMTT(60) DEF ProjectionInv
  <2>2. \A i \in DOMAIN snapshots : snapshots[i].at \in Nat
    <3>1. ASSUME NEW i \in DOMAIN snapshots PROVE snapshots[i].at \in Nat
      <4>1. PICK at \in Nat, intact \in BOOLEAN, c, n \in 1..Len(events), r \in Reducers :
              snapshots[i] = RowAt(events, c, n, r, at, intact)
        BY <3>1, Zenon DEF ProjectionInv, TakenFrom
      <4> QED BY <4>1, SMTT(60) DEF RowAt
    <3> QED BY <3>1, Zenon
  <2> QED BY <2>1, <2>2, Zenon
<1>2. /\ C \subseteq DOMAIN snapshots /\ C # {}
      /\ \A i \in C : snapshots[i].at \in Nat /\ snapshots[i].at <= horizon
  BY <1>1, Zenon DEF Candidates
<1> HIDE DEF C
<1>3. A \in SUBSET Nat /\ A # {} /\ \A x \in A : x <= horizon
  BY <1>2, Zenon
<1>4. PICK m \in A : \A x \in A : x <= m
  <2> HIDE DEF A
  <2> QED BY <1>3, BoundedMax, Zenon
<1> DEFINE D == {i \in C : snapshots[i].at = m}
<1>5. D \in SUBSET Nat /\ D # {} /\ \A i \in D : i <= Len(snapshots)
  BY <1>1, <1>2, <1>4
<1>6. PICK i \in D : \A j \in D : j <= i
  <2> HIDE DEF D
  <2> QED BY <1>1, <1>5, BoundedMax, ZenonT(60)
<1>7. \A j \in C : After(i, j)
  <2> SUFFICES ASSUME NEW j \in C PROVE After(i, j)
    BY Zenon
  <2>1. snapshots[j].at \in A /\ snapshots[j].at <= m /\ snapshots[i].at = m
    BY <1>4, <1>6, Zenon
  <2>2. CASE snapshots[j].at = m
    BY <1>6, <2>1, <2>2, Zenon
  <2>3. CASE snapshots[j].at # m
    BY <1>2, <1>3, <1>4, <2>1, <2>3, SMTT(30)
  <2> QED BY <2>2, <2>3, Zenon
<1>8. i \in C
  BY <1>6, Zenon
<1> HIDE DEF After
<1>9. (CHOOSE x \in C : \A j \in C : After(x, j)) \in C
  BY <1>7, <1>8, Zenon
<1>10. SelectSnapshot(horizon) \in C
  BY <1>9, Zenon DEF SelectSnapshot, After, C
<1> QED BY <1>2, <1>10, Zenon

(* A read of the whole stream gives the projection of all its events.      *)
LEMMA FullIs ==
  ASSUME ProjectionInv, NEW r
  PROVE  FullProjection(r) = ProjectionAt(events, Len(events), r)
<1>1. events \in Seq(Rows) /\ FoldLifecycle(events).ok
  BY Zenon DEF ProjectionInv, MigrationInv, EventsFold, Rows
<1>2. SubSeq(events, 1, Len(events)) = events
  BY <1>1, PrefixAndSuffix, SMTT(60)
<1> QED BY <1>1, <1>2, Zenon DEF FullProjection, BuildProjection, ProjectionAt

(* Prefixes of different lengths have different history chains.            *)
LEMMA ChainTellsPrefix ==
  ASSUME NEW T, NEW l \in Seq(T), NEW c \in 1..Len(l), NEW n \in 1..Len(l), NEW r,
         HistoryChain(r, SubSeq(l, 1, n)) = HistoryChain(r, SubSeq(l, 1, c))
  PROVE  n = c
<1> DEFINE a == SubSeq(l, 1, n)
           b == SubSeq(l, 1, c)
<1>1. a \in Seq(T) /\ b \in Seq(T) /\ Len(a) = n /\ Len(b) = c
  BY SMTT(60)
<1> HIDE DEF a, b
<1>2. [reducer |-> r, events |-> a] = [reducer |-> r, events |-> b]
  <2>1. HistoryChain(r, a) = [reducer |-> r, events |-> a]
    BY <1>1, HistoryChainIs, Zenon
  <2>2. HistoryChain(r, b) = [reducer |-> r, events |-> b]
    BY <1>1, HistoryChainIs, Zenon
  <2> QED BY <2>1, <2>2, Zenon DEF a, b
<1>3. a = b
  BY <1>2, SMTT(60)
<1> QED BY <1>1, <1>3, Zenon

(* A row that passes validate_snapshot_candidate: the suffix after it, by  *)
(* apply_snapshot_suffix, gives what the whole stream gives.               *)
LEMMA SuffixGivesFull ==
  ASSUME ProjectionInv, NEW row, TakenFrom(events, row), NEW r, row.reducer = r,
         HistoryChain(r, SubSeq(events, 1, row.cursor)) = row.chain
  PROVE  ApplySnapshotSuffix(row, r) = FullProjection(r)
<1>1. events \in Seq(Rows)
  BY Zenon DEF ProjectionInv, MigrationInv, EventsFold, Rows
<1>2. PICK c \in 0..Len(events) :
        /\ row.cursor = c
        /\ row.chain = HistoryChain(r, SubSeq(events, 1, c))
        /\ row.state = FoldLifecycle(SubSeq(events, 1, c))
  <2>1. PICK c, n \in 1..Len(events) :
          /\ row.cursor = c
          /\ row.chain = HistoryChain(r, SubSeq(events, 1, n))
          /\ row.state = FoldLifecycle(SubSeq(events, 1, n))
    BY DEF TakenFrom, RowAt
  <2>2. n = c
    <3>1. HistoryChain(r, SubSeq(events, 1, n)) = HistoryChain(r, SubSeq(events, 1, c))
      BY <2>1, Zenon
    <3> QED BY <1>1, <3>1, ChainTellsPrefix, Zenon
  <2>3. c \in 0..Len(events)
    BY <2>1, SMTT(60)
  <2> QED BY <2>1, <2>2, <2>3, Zenon
<1> DEFINE a == SubSeq(events, 1, c)
           b == SubSeq(events, c + 1, Len(events))
<1>3. a \in Seq(Rows) /\ b \in Seq(Rows) /\ a \o b = events
  <2>1. a \in Seq(Rows) /\ b \in Seq(Rows)
    BY <1>1, SMTT(60)
  <2> QED BY <1>1, <2>1, PrefixAndSuffix, ZenonT(60)
<1>4. FoldFrom(row.state, b) = FoldLifecycle(events)
  <2>1. FoldFrom(FoldFrom(EmptyAggregate, a), b) = FoldFrom(EmptyAggregate, events)
    BY <1>1, FoldFromResumes, Zenon
  <2> QED BY <1>2, <2>1, Zenon DEF FoldLifecycle
<1>5. HistoryFrom(row.chain, b) = HistoryChain(r, events)
  <2>1. row.chain = [reducer |-> r, events |-> a]
    BY <1>2, <1>3, HistoryChainIs, Zenon
  <2> HIDE DEF a, b
  <2>2. HistoryFrom(row.chain, b) = [reducer |-> r, events |-> a \o b]
    BY <1>3, <2>1, HistoryFromIs, Zenon
  <2>3. HistoryChain(r, events) = [reducer |-> r, events |-> events]
    BY <1>1, HistoryChainIs, Zenon
  <2> QED BY <1>3, <2>2, <2>3, Zenon
<1>6. Suffix(row) = b
  BY <1>2, Zenon DEF Suffix
<1> QED BY <1>4, <1>5, <1>6, Zenon DEF ApplySnapshotSuffix, FullProjection

(* project_snapshot_assisted gives what project_full gives: a row is used  *)
(* or passed over, unless it is the sealed record of another history,      *)
(* which is an error.                                                      *)
LEMMA AssistedIsFull ==
  ASSUME ProjectionInv, NEW r
  PROVE  \/ AssistedProjection(r) = FullProjection(r)
         \/ /\ AssistedProjection(r) = [failed |-> "HistoryMismatch"]
            /\ \E i \in DOMAIN snapshots : Resealed(i)
<1> DEFINE s == SelectSnapshot(Len(events))
           row == snapshots[s]
           disposition == ValidateSnapshotCandidate(row, r)
<1>1. Len(events) \in Nat
  BY DEF ProjectionInv, MigrationInv, EventsFold
<1>2. CASE Candidates(Len(events)) = {}
  BY <1>2, Zenon DEF AssistedProjection
<1>3. CASE Candidates(Len(events)) # {}
  <2>1. s \in DOMAIN snapshots /\ TakenFrom(events, row)
    BY <1>1, <1>3, SelectionExists, Zenon DEF ProjectionInv
  <2>2. disposition = "Used" =>
          row.reducer = r /\ HistoryChain(r, SubSeq(events, 1, row.cursor)) = row.chain
    BY Zenon DEF ValidateSnapshotCandidate
  <2>3. disposition = "HistoryMismatch" => Resealed(s)
    BY Zenon DEF ValidateSnapshotCandidate, Resealed
  <2>4. AssistedProjection(r) =
          CASE disposition = "Used" -> ApplySnapshotSuffix(row, r)
            [] disposition = "HistoryMismatch" -> [failed |-> "HistoryMismatch"]
            [] OTHER -> FullProjection(r)
    BY <1>3, Zenon DEF AssistedProjection
  <2> HIDE DEF disposition, row, s
  <2>5. CASE disposition = "Used"
    BY <2>1, <2>2, <2>4, <2>5, SuffixGivesFull, Zenon
  <2>6. CASE disposition = "HistoryMismatch"
    BY <2>1, <2>3, <2>4, <2>6, Zenon
  <2>7. CASE disposition # "Used" /\ disposition # "HistoryMismatch"
    BY <2>4, <2>7, Zenon
  <2> QED BY <2>5, <2>6, <2>7, Zenon
<1> QED BY <1>2, <1>3, Zenon

(* A read that succeeds gives the projection of the whole stream.          *)
LEMMA ReadIsFull ==
  ASSUME ProjectionInv, NEW r, "failed" \notin DOMAIN AssistedProjection(r)
  PROVE  AssistedProjection(r) = FullProjection(r)
<1>1. AssistedProjection(r) # [failed |-> "HistoryMismatch"]
  <2>1. "failed" \in DOMAIN [failed |-> "HistoryMismatch"]
    BY SMTT(60)
  <2> QED BY <2>1, Zenon
<1> QED BY <1>1, AssistedIsFull, Zenon

-----------------------------------------------------------------------------
(* Later events change no prefix, so what was taken from the stream        *)
(* remains something the stream would give.                                *)
LEMMA TakenStays ==
  ASSUME NEW T, NEW l \in Seq(T), NEW e \in T, NEW x
  PROVE  /\ TakenFrom(l, x) => TakenFrom(Append(l, e), x)
         /\ LoadedFrom(l, x) => LoadedFrom(Append(l, e), x)
<1>1. \A c \in 0..Len(l) : SubSeq(Append(l, e), 1, c) = SubSeq(l, 1, c)
  OBVIOUS
<1>2. /\ \A c \in 0..Len(l) : c \in 0..Len(Append(l, e))
      /\ \A c \in 1..Len(l) : c \in 0..Len(l) /\ c \in 1..Len(Append(l, e))
  OBVIOUS
<1>3. TakenFrom(l, x) => TakenFrom(Append(l, e), x)
  BY <1>1, <1>2, Zenon DEF TakenFrom, RowAt
<1>4. LoadedFrom(l, x) => LoadedFrom(Append(l, e), x)
  BY <1>1, <1>2, Zenon DEF LoadedFrom, ProjectionAt
<1> QED BY <1>3, <1>4, Zenon

(* No snapshot and no projection yet.                                      *)
LEMMA ProjectionInitInv == ProjectionInit => ProjectionInv
  BY MigrationInitInv DEF ProjectionInit, ProjectionInv

(* A sequence is one over the set of its elements.                         *)
LEMMA SeqOfElements ==
  ASSUME NEW T, NEW s \in Seq(T)
  PROVE  s \in Seq({s[i] : i \in DOMAIN s})
  OBVIOUS

(* A damaged row of a snapshot keeps its other columns.                    *)
LEMMA RowIntact ==
  ASSUME NEW l, NEW c, NEW n, NEW r, NEW at, NEW intact, NEW new, NEW row,
         row = RowAt(l, c, n, r, at, intact)
  PROVE  [row EXCEPT !.intact = new] = RowAt(l, c, n, r, at, new)
  BY DEF RowAt

(* The same for the position column.                                       *)
LEMMA RowMoved ==
  ASSUME NEW l, NEW c, NEW n, NEW r, NEW at, NEW intact, NEW new, NEW row,
         row = RowAt(l, c, n, r, at, intact)
  PROVE  [row EXCEPT !.at = new] = RowAt(l, c, n, r, new, intact)
  BY SMTT(60) DEF RowAt

(* A resealed row is the record of other events under the same cursor.     *)
LEMMA RowResealed ==
  ASSUME NEW c, NEW n, NEW r, NEW at, NEW intact, NEW new, NEW row,
         row = RowAt(events, c, n, r, at, intact)
  PROVE  SealedAnew(row, new) = RowAt(events, c, new, r, at, intact)
<1>1. row.at = at /\ row.intact = intact /\ row.cursor = c /\ row.reducer = r
  BY DEF RowAt
<1> QED BY <1>1, Zenon DEF SealedAnew, RowAt

(* insert_snapshot stores the projection it was given: the row of its      *)
(* reducer at its position.                                                *)
LEMMA RowOfProjection ==
  ASSUME NEW l, NEW c, NEW r
  PROVE  SnapshotRow(ProjectionAt(l, c, r)) = RowAt(l, c, c, r, c, TRUE)
  BY Zenon DEF SnapshotRow, ProjectionAt, RowAt

(* create_projection_snapshot inserts a row taken from the stream.         *)
LEMMA CreateSnapshotInv ==
  ASSUME ProjectionInv, NEW p \in Openers, CreateProjectionSnapshot(p)
  PROVE  ProjectionInv'
<1> DEFINE r == ReducerOf[p]
           row == SnapshotRow(FullProjection(r))
<1>1. snapshots' = Append(snapshots, row) /\ UNCHANGED <<migrationVars, held>>
  BY Zenon DEF CreateProjectionSnapshot, InsertSnapshot
<1>2. /\ events' = events /\ held' = held /\ MigrationInv'
  BY <1>1, Zenon DEF migrationVars, fileVars, ProjectionInv, MigrationInv, UpgradeInv,
     UpgradeIsAtomic, EventsFold
<1>3. TakenFrom(events, row)
  <2>1. r \in Reducers /\ Len(events) \in Nat /\ Len(events) \in 1..Len(events)
    BY DEF Reducers, ProjectionInv, MigrationInv, EventsFold, CreateProjectionSnapshot
  <2>2. row = RowAt(events, Len(events), Len(events), r, Len(events), TRUE)
    <3>1. FullProjection(r) = ProjectionAt(events, Len(events), r)
      BY FullIs, Zenon
    <3> QED BY <3>1, RowOfProjection, Zenon
  <2> QED BY <2>1, <2>2, ZenonT(60) DEF TakenFrom
<1> HIDE DEF row
<1>4. PICK T : snapshots \in Seq(T) /\ row \in T
  <2> DEFINE T == {snapshots[i] : i \in DOMAIN snapshots} \cup {row}
  <2>1. snapshots \in Seq(T)
    BY DEF ProjectionInv
  <2> QED BY <2>1, Zenon
<1>5. snapshots' \in Seq(T)
  BY <1>1, <1>4, SMTT(60)
<1>6. snapshots' \in Seq({snapshots'[i] : i \in DOMAIN snapshots'})
  BY <1>5, SeqOfElements, Zenon
<1>7. \A i \in DOMAIN snapshots' : snapshots'[i] = row \/
        (i \in DOMAIN snapshots /\ snapshots'[i] = snapshots[i])
  BY <1>1, <1>4, SMTT(60)
<1>8. \A i \in DOMAIN snapshots' : TakenFrom(events, snapshots'[i])
  BY <1>3, <1>7, Zenon DEF ProjectionInv
<1> QED BY <1>2, <1>6, <1>8, Zenon DEF ProjectionInv

(* Every load of a projection keeps one that the stream determines.        *)
LEMMA LoadInv ==
  ASSUME ProjectionInv, NEW p \in Openers,
         ProjectFull(p) \/ ProjectSnapshotAssisted(p)
  PROVE  ProjectionInv'
<1> DEFINE r == ReducerOf[p]
<1>1. held' = ProjectionAt(events, Len(events), r)
  BY FullIs, ReadIsFull, Zenon DEF ProjectFull, ProjectSnapshotAssisted, Load
<1>2. snapshots' = snapshots /\ events' = events /\ MigrationInv'
  BY ZenonT(60) DEF ProjectFull, ProjectSnapshotAssisted, Load, migrationVars, fileVars, ProjectionInv,
     MigrationInv, UpgradeInv, UpgradeIsAtomic, EventsFold
<1>3. r \in Reducers /\ Len(events) \in 0..Len(events)
  BY SMTT(60) DEF Reducers, ProjectionInv, MigrationInv, EventsFold
<1>4. LoadedFrom(events, held')
  BY <1>1, <1>3, Zenon DEF LoadedFrom
<1> QED BY <1>2, <1>4, Zenon DEF ProjectionInv

(* Whatever becomes of a row, it keeps its cursor and holds what some      *)
(* prefix of the stream determines.                                        *)
LEMMA DecayInv ==
  ASSUME ProjectionInv, NEW i \in DOMAIN snapshots,
         \/ DecayBytes(i)
         \/ \E at \in Neighbours(snapshots[i].cursor) : DecayColumn(i, at)
         \/ \E n \in 1..Len(events) : Reseal(i, n)
  PROVE  ProjectionInv'
<1>1. PICK at \in Nat, intact \in BOOLEAN, c, n \in 1..Len(events), r \in Reducers :
        snapshots[i] = RowAt(events, c, n, r, at, intact)
  BY Zenon DEF ProjectionInv, TakenFrom
<1>2. PICK row : TakenFrom(events, row) /\ snapshots' = [snapshots EXCEPT ![i] = row]
  <2>1. CASE DecayBytes(i)
    <3> DEFINE row == [snapshots[i] EXCEPT !.intact = FALSE]
    <3>1. snapshots' = [snapshots EXCEPT ![i] = row]
      BY <2>1, Zenon DEF DecayBytes
    <3>2. TakenFrom(events, row)
      <4>1. PICK no \in BOOLEAN : no = FALSE
        BY Zenon
      <4>2. row = [snapshots[i] EXCEPT !.intact = no]
        BY <4>1, Zenon
      <4>3. row = RowAt(events, c, n, r, at, no)
        BY <1>1, <4>2, RowIntact, SMTT(60)
      <4> QED BY <4>3, Zenon DEF TakenFrom
    <3> QED BY <3>1, <3>2, Zenon
  <2>2. ASSUME NEW new \in Neighbours(snapshots[i].cursor), DecayColumn(i, new)
        PROVE  \E row : TakenFrom(events, row) /\ snapshots' = [snapshots EXCEPT ![i] = row]
    <3> DEFINE row == [snapshots[i] EXCEPT !.at = new]
    <3>1. snapshots' = [snapshots EXCEPT ![i] = row]
      BY <2>2, Zenon DEF DecayColumn
    <3>2. new \in Nat
      <4>1. snapshots[i].cursor = c
        BY <1>1 DEF RowAt
      <4> QED BY <4>1, SMTT(60) DEF Neighbours
    <3>3. TakenFrom(events, row)
      <4>1. row = RowAt(events, c, n, r, new, intact)
        BY <1>1, RowMoved, SMTT(60)
      <4> QED BY <3>2, <4>1, Zenon DEF TakenFrom
    <3> QED BY <3>1, <3>3, Zenon
  <2>3. ASSUME NEW new \in 1..Len(events), Reseal(i, new)
        PROVE  \E row : TakenFrom(events, row) /\ snapshots' = [snapshots EXCEPT ![i] = row]
    <3> DEFINE row == SealedAnew(snapshots[i], new)
    <3>1. snapshots' = [snapshots EXCEPT ![i] = row]
      BY <2>3, Zenon DEF Reseal
    <3>2. row = RowAt(events, c, new, r, at, intact)
      BY <1>1, RowResealed, SMTT(60)
    <3> HIDE DEF row
    <3>3. TakenFrom(events, row)
      BY <3>2, Zenon DEF TakenFrom
    <3> QED BY <3>1, <3>3, Zenon
  <2> QED BY <2>1, <2>2, <2>3, Zenon
<1>3. events' = events /\ held' = held /\ MigrationInv'
  BY Zenon DEF DecayBytes, DecayColumn, Reseal, migrationVars, fileVars, ProjectionInv,
     MigrationInv, UpgradeInv, UpgradeIsAtomic, EventsFold
<1>4. snapshots' \in Seq({snapshots[j] : j \in DOMAIN snapshots} \cup {row})
  BY <1>2, SMTT(60) DEF ProjectionInv
<1>5. snapshots' \in Seq({snapshots'[j] : j \in DOMAIN snapshots'})
  BY <1>4, SeqOfElements, SMTT(60)
<1>6. \A j \in DOMAIN snapshots' : TakenFrom(events, snapshots'[j])
  BY <1>2, Zenon DEF ProjectionInv
<1> QED BY <1>3, <1>5, <1>6, ZenonT(60) DEF ProjectionInv

(* Every step of every process, and every decay, keeps the invariant.      *)
LEMMA ProjectionStep == ProjectionInv /\ [ProjectionNext]_projectionVars => ProjectionInv'
<1> SUFFICES ASSUME ProjectionInv, [ProjectionNext]_projectionVars PROVE ProjectionInv'
  BY Zenon
<1>1. CASE MigrationStep /\ UNCHANGED <<snapshots, held>>
  <2>1. MigrationInv' /\ (events' = events \/ \E row \in Rows : events' = Append(events, row))
    BY <1>1, MigrationStepInv, Zenon DEF ProjectionInv
  <2>2. snapshots' = snapshots /\ held' = held
    BY <1>1, Zenon
  <2>3. CASE events' = events
    BY <2>1, <2>2, <2>3, Zenon DEF ProjectionInv
  <2>4. ASSUME NEW row \in Rows, events' = Append(events, row)
        PROVE  ProjectionInv'
    <3>1. events \in Seq(Rows)
      BY Zenon DEF ProjectionInv, MigrationInv, EventsFold, Rows
    <3>2. \A x : /\ TakenFrom(events, x) => TakenFrom(events', x)
                 /\ LoadedFrom(events, x) => LoadedFrom(events', x)
      BY <2>4, <3>1, TakenStays, Zenon
    <3>3. \A i \in DOMAIN snapshots : TakenFrom(events', snapshots[i])
      BY <3>2, Zenon DEF ProjectionInv
    <3>4. held # NoProjection => LoadedFrom(events', held)
      BY <3>2, Zenon DEF ProjectionInv
    <3> QED BY <2>1, <2>2, <3>3, <3>4, Zenon DEF ProjectionInv
  <2> QED BY <2>1, <2>3, <2>4, Zenon
<1>2. ASSUME NEW p \in Openers, CreateProjectionSnapshot(p) PROVE ProjectionInv'
  BY <1>2, CreateSnapshotInv, Zenon
<1>3. ASSUME NEW p \in Openers, ProjectFull(p) \/ ProjectSnapshotAssisted(p)
      PROVE  ProjectionInv'
  BY <1>3, LoadInv, Zenon
<1>4. ASSUME NEW i \in DOMAIN snapshots,
             \/ DecayBytes(i)
             \/ \E at \in Neighbours(snapshots[i].cursor) : DecayColumn(i, at)
             \/ \E n \in 1..Len(events) : Reseal(i, n)
      PROVE  ProjectionInv'
  BY <1>4, DecayInv, Zenon
<1>5. CASE UNCHANGED projectionVars
  BY <1>5, Zenon DEF projectionVars, migrationVars, fileVars, ProjectionInv, MigrationInv,
     UpgradeInv, UpgradeIsAtomic, EventsFold
<1> QED BY <1>1, <1>2, <1>3, <1>4, <1>5, Zenon DEF ProjectionNext

(* The inductive invariant of the store file, its snapshots and its reads. *)
THEOREM ProjectionCorrect == ProjectionSpec => []ProjectionInv
  BY ProjectionInitInv, ProjectionStep, PTL DEF ProjectionSpec

(* migrate_locked upgrades a file completely or not at all, whichever      *)
(* statement fails and whoever tries again.                                *)
THEOREM UpgradesAreAtomic == ProjectionSpec => []UpgradeIsAtomic
<1>1. ProjectionInv => UpgradeIsAtomic
  BY Zenon DEF ProjectionInv, MigrationInv
<1> QED BY <1>1, ProjectionCorrect, PTL

(* No step changes the history, and the trigger that the upgrade installs  *)
(* keeps every writer of the previous version out.                         *)
THEOREM UpgradeFencesOldWriters == ProjectionSpec => OldWritersAreFenced
<1> DEFINE Fenced == /\ DOMAIN events \subseteq DOMAIN events'
                     /\ \A i \in DOMAIN events : events'[i] = events[i]
                     /\ version = 2 =>
                          \A i \in DOMAIN events' \ DOMAIN events : events'[i].epoch = 2
<1>1. ProjectionInv /\ [ProjectionNext]_projectionVars => [Fenced]_migrationVars
  <2> SUFFICES ASSUME ProjectionInv, [ProjectionNext]_projectionVars PROVE Fenced
    BY Zenon
  <2>1. events \in Seq(Rows)
    BY Zenon DEF ProjectionInv, MigrationInv, EventsFold, Rows
  <2>2. CASE events' = events
    BY <2>2, Zenon
  <2>3. ASSUME NEW row \in Rows, events' = Append(events, row), version = 2 => row.epoch = 2
        PROVE  Fenced
    BY <2>1, <2>3, SMTT(30)
  <2>4. CASE MigrationStep
    BY <2>2, <2>3, <2>4, MigrationStepInv, Zenon DEF ProjectionInv
  <2>5. CASE ~MigrationStep
    <3>1. events' = events
      BY <2>5, Zenon DEF ProjectionNext, projectionVars, migrationVars, fileVars, Load, ProjectFull,
         ProjectSnapshotAssisted, CreateProjectionSnapshot, DecayBytes, DecayColumn, Reseal
    <3> QED BY <2>2, <3>1, Zenon
  <2> QED BY <2>4, <2>5, Zenon
<1> QED BY <1>1, ProjectionCorrect, PTL DEF ProjectionSpec, OldWritersAreFenced

(* project_snapshot_assisted equals project_full, for every history, every *)
(* snapshot and every decay of its row, except that it answers             *)
(* HistoryMismatch, and nothing else, for a row that is the sealed record  *)
(* of another history.                                                     *)
THEOREM SnapshotsChangeNothing == ProjectionSpec => []AssistedEqualsFull
<1>1. ProjectionInv => AssistedEqualsFull
  BY AssistedIsFull, Zenon DEF AssistedEqualsFull
<1> QED BY <1>1, ProjectionCorrect, PTL

(* compare_projections answers Equal for the same reducer and history,     *)
(* NotComparable otherwise, and Divergent for no two reads.                *)
THEOREM ComparisonsAreTruthful == ProjectionSpec => []ComparisonsAgree
<1>1. ProjectionInv => ComparisonsAgree
  <2> SUFFICES ASSUME ProjectionInv, held # NoProjection, NEW r \in Reducers,
                      "failed" \notin DOMAIN AssistedProjection(r)
               PROVE  CompareProjections(held, AssistedProjection(r)) =
                        IF held.cursor = Len(events) /\ held.reducer = r THEN "Equal"
                                                                        ELSE "NotComparable"
    BY Zenon DEF ComparisonsAgree
  <2>1. AssistedProjection(r) = ProjectionAt(events, Len(events), r)
    BY ReadIsFull, FullIs, Zenon
  <2>2. PICK c \in 0..Len(events), q \in Reducers : held = ProjectionAt(events, c, q)
    BY Zenon DEF ProjectionInv, LoadedFrom
  <2>3. /\ held.cursor = c /\ held.reducer = q
        /\ AssistedProjection(r).cursor = Len(events) /\ AssistedProjection(r).reducer = r
    BY <2>1, <2>2, SMTT(60) DEF ProjectionAt
  <2>4. CASE c = Len(events) /\ q = r
    BY <2>1, <2>2, <2>3, <2>4, Zenon DEF CompareProjections, Comparable
  <2>5. CASE ~(c = Len(events) /\ q = r)
    BY <2>3, <2>5, Zenon DEF CompareProjections, Comparable
  <2> QED BY <2>3, <2>4, <2>5, Zenon
<1> QED BY <1>1, ProjectionCorrect, PTL
=============================================================================
