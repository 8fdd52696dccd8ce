---------------------------- MODULE LedgerProofs ----------------------------
(***************************************************************************)
(* The books of the runtime control balance, and its stream stays readable *)
(* but for callbacks, for every number of operations, processes, accounts  *)
(* and tasks, every envelope and every budget plan.                        *)
(*                                                                         *)
(* The first part is about sums over finite sets (SumOver): it proves an   *)
(* induction over the subsets of a finite set from the well-foundedness of *)
(* the natural numbers, then that the recursion behind MapThenSumSet has a *)
(* solution and that the sum does not depend on the order of elements.     *)
(* The second part says when a ledger of operations and account totals     *)
(* stays balanced: an entry is added, or an entry changes and its accounts *)
(* by the difference.  The third has one lemma for each control event.     *)
(***************************************************************************)
EXTENDS RuntimeControlProofs, Sequences, WellFoundedInduction

-----------------------------------------------------------------------------
(* Induction over the natural numbers for a set of them: a least number    *)
(* outside the set would have its predecessor inside.                      *)
LEMMA CountingInduction ==
  ASSUME NEW F, 0 \in F, \A n \in Nat : n \in F => n + 1 \in F
  PROVE  \A n \in Nat : n \in F
<1> DEFINE Below == OpToRel(<, Nat)
           Left == {n \in Nat : n \notin F}
<1>1. IsWellFoundedOn(Below, Nat)
  BY NatLessThanWellFounded, Zenon
<1>2. \A m, n \in Nat : m < n => <<m, n>> \in Below
  BY Zenon DEF OpToRel
<1>3. Left \subseteq Nat
  BY Zenon
<1> SUFFICES ASSUME NEW n \in Left PROVE FALSE
  BY Zenon
<1> HIDE DEF Below
<1>4. PICK x \in Left : \A y \in Left : ~(<<y, x>> \in Below)
  <2> HIDE DEF Left
  <2> QED BY <1>1, <1>3, WFMin, Zenon
<1>5. x \in Nat /\ x \notin F /\ x # 0
  BY <1>4, Zenon
<1>6. x - 1 \in Nat /\ x - 1 < x /\ (x - 1) + 1 = x
  BY <1>5
<1>7. x - 1 \notin F
  BY <1>5, <1>6, Zenon
<1> QED BY <1>2, <1>4, <1>5, <1>6, <1>7, Zenon

(* Induction over a finite set, element by element.                        *)
LEMMA ElementInduction ==
  ASSUME NEW S, IsFiniteSet(S), NEW F, {} \in F,
         \A T \in F, x \in S : T \cup {x} \in F
  PROVE  S \in F
<1>1. PICK q \in Seq(S) : \A x \in S : \E n \in 1..Len(q) : q[n] = x
  BY Zenon DEF IsFiniteSet
<1> DEFINE First(n) == {q[i] : i \in 1..n}
           Reached == {n \in Nat : n <= Len(q) => First(n) \in F}
<1>2. 0 \in Reached
  <2>1. 1..0 = {}
    OBVIOUS
  <2> QED BY <2>1, Zenon
<1>3. ASSUME NEW n \in Nat, n \in Reached
      PROVE  n + 1 \in Reached
  <2> SUFFICES ASSUME n + 1 <= Len(q) PROVE First(n + 1) \in F
    <3>1. n + 1 \in Nat
      OBVIOUS
    <3> HIDE DEF First
    <3> QED BY <3>1, Zenon
  <2>1. n <= Len(q) /\ n + 1 \in 1..Len(q) /\ 1..(n + 1) = 1..n \cup {n + 1}
    OBVIOUS
  <2>2. q[n + 1] \in S
    BY <2>1
  <2>3. First(n + 1) = First(n) \cup {q[n + 1]}
    BY <2>1, Zenon
  <2> HIDE DEF First
  <2>4. First(n) \in F
    BY <1>3, <2>1, Zenon
  <2> QED BY <2>2, <2>3, <2>4, Zenon
<1>4. Len(q) \in Nat /\ Len(q) <= Len(q)
  OBVIOUS
<1>5. \A n \in Nat : n \in Reached
  <2> HIDE DEF Reached
  <2> QED BY <1>2, <1>3, CountingInduction, Zenon
<1>6. First(Len(q)) \in F
  BY <1>4, <1>5, Zenon
<1>7. First(Len(q)) = S
  <2>1. \A i \in 1..Len(q) : q[i] \in S
    OBVIOUS
  <2> QED BY <1>1, <2>1, Zenon
<1> QED BY <1>6, <1>7, Zenon

(* A family of subsets of a finite set has a smallest member.              *)
LEMMA SmallestSubset ==
  ASSUME NEW S, IsFiniteSet(S), NEW G \in SUBSET SUBSET S, G # {}
  PROVE  \E s \in G : \A t \in G : t \subseteq s => t = s
<1> DEFINE Least(H) == \E s \in H : \A t \in H : t \subseteq s => t = s
           F == {T \in SUBSET S : \A H \in SUBSET SUBSET T : H # {} => Least(H)}
<1>1. {} \in F
  <2> SUFFICES ASSUME NEW H \in SUBSET SUBSET {}, H # {} PROVE Least(H)
    BY Zenon
  <2>1. PICK s : s \in H
    BY Zenon
  <2>2. \A t \in H : t = s
    BY <2>1, Zenon
  <2> QED BY <2>1, <2>2, Zenon
<1>2. ASSUME NEW T \in F, NEW x \in S
      PROVE  T \cup {x} \in F
  <2> SUFFICES ASSUME NEW H \in SUBSET SUBSET (T \cup {x}), H # {} PROVE Least(H)
    BY <1>2, Zenon
  <2>1. CASE \E s \in H : x \notin s
    <3> DEFINE K == {s \in H : x \notin s}
    <3>1. K \in SUBSET SUBSET T /\ K # {}
      BY <2>1, Zenon
    <3>2. Least(K)
      <4> HIDE DEF K, Least
      <4> QED BY <1>2, <3>1, Zenon
    <3>3. PICK s \in K : \A t \in K : t \subseteq s => t = s
      BY <3>2, Zenon
    <3>4. s \in H /\ \A t \in H : t \subseteq s => t \in K
      BY <3>3, Zenon
    <3> HIDE DEF K
    <3>5. \A t \in H : t \subseteq s => t = s
      BY <3>3, <3>4, Zenon
    <3> QED BY <3>4, <3>5, Zenon
  <2>2. CASE \A s \in H : x \in s
    <3> DEFINE K == {s \ {x} : s \in H}
    <3>1. \A s \in H : s \ {x} \in SUBSET T
      BY Zenon
    <3>0. K \in SUBSET SUBSET T /\ K # {}
      <4>1. PICK s : s \in H
        BY Zenon
      <4>2. s \ {x} \in K
        BY <4>1, Zenon
      <4>3. \A k \in K : k \in SUBSET T
        BY <3>1
      <4> HIDE DEF K
      <4> QED BY <4>2, <4>3, Zenon
    <3>2. Least(K)
      <4> HIDE DEF K, Least
      <4> QED BY <1>2, <3>0, Zenon
    <3>5. PICK r \in K : \A t \in K : t \subseteq r => t = r
      BY <3>2, Zenon
    <3>6. \A t \in H : t \ {x} \in K
      BY Zenon
    <3>7. PICK s \in H : r = s \ {x}
      BY <3>5, Zenon
    <3>3. \A t \in H : t \ {x} \subseteq s \ {x} => t \ {x} = s \ {x}
      <4> HIDE DEF K
      <4> QED BY <3>5, <3>6, <3>7, Zenon
    <3>4. ASSUME NEW t \in H, t \subseteq s
          PROVE  t = s
      <4>1. t \ {x} = s \ {x}
        BY <3>3, <3>4, Zenon
      <4>2. x \in t /\ x \in s
        BY <2>2, <3>4, Zenon
      <4>3. \A y : y \in t <=> y \in s
        <5> SUFFICES ASSUME NEW y, y # x PROVE y \in t <=> y \in s
          BY <4>2, Zenon
        <5>1. /\ y \in t <=> y \in t \ {x}
              /\ y \in s <=> y \in s \ {x}
          BY Zenon
        <5> QED BY <4>1, <5>1, Zenon
      <4> QED BY <4>3, Zenon
    <3> QED BY <3>4, Zenon
  <2> QED BY <2>1, <2>2, Zenon
<1>3. S \in F
  <2> HIDE DEF F
  <2> QED BY <1>1, <1>2, ElementInduction, Zenon
<1> QED BY <1>3, Zenon

(* Induction over the subsets of a finite set: what holds for a set when   *)
(* it holds for the smaller ones holds for all.                            *)
LEMMA SubsetInduction ==
  ASSUME NEW S, IsFiniteSet(S), NEW F,
         \A s \in SUBSET S : (\A t \in SUBSET s : t # s => t \in F) => s \in F
  PROVE  \A s \in SUBSET S : s \in F
<1> DEFINE G == {s \in SUBSET S : s \notin F}
<1> SUFFICES ASSUME G # {} PROVE FALSE
  BY Zenon
<1>1. G \in SUBSET SUBSET S
  BY Zenon
<1>2. PICK s \in G : \A t \in G : t \subseteq s => t = s
  <2> HIDE DEF G
  <2> QED BY <1>1, SmallestSubset
<1>3. s \in SUBSET S /\ s \notin F
  BY <1>2, Zenon
<1>4. ASSUME NEW t \in SUBSET s, t # s
      PROVE  t \in F
  <2>1. t \subseteq s /\ t \in SUBSET S
    BY <1>3, Zenon
  <2>2. t \in F \/ t \in G
    BY <2>1, Zenon
  <2> HIDE DEF G
  <2> QED BY <1>2, <1>4, <2>1, <2>2
<1> QED BY <1>3, <1>4, Zenon

-----------------------------------------------------------------------------
(* SumOver takes the elements of a set one at a time; h gives the sum of f *)
(* over each subset of S that it meets.                                    *)
Taken(s) == CHOOSE x \in s : TRUE

Sums(h, f, S) ==
  h = [s \in SUBSET S |-> IF s = {} THEN 0 ELSE f[Taken(s)] + h[s \ {Taken(s)}]]

(* What is taken from a set that is not empty is one of its elements, and  *)
(* leaves a smaller set.                                                   *)
LEMMA TakenFromIt ==
  ASSUME NEW s, s # {}
  PROVE  /\ Taken(s) \in s
         /\ s \ {Taken(s)} \in SUBSET s /\ s \ {Taken(s)} # s
<1>1. Taken(s) \in s
  BY Zenon DEF Taken
<1> QED BY <1>1, Zenon

(* The sum over a set depends on the values on this set only, whatever     *)
(* larger set is being summed.                                             *)
LEMMA SumsAgree ==
  ASSUME NEW f, NEW S, NEW h, Sums(h, f, S), NEW g, NEW T, NEW k, Sums(k, g, T),
         NEW U, IsFiniteSet(U), U \subseteq S, U \subseteq T, \A x \in U : f[x] = g[x]
  PROVE  h[U] = k[U]
<1> DEFINE F == {s \in SUBSET U : h[s] = k[s]}
<1>1. ASSUME NEW s \in SUBSET U, \A t \in SUBSET s : t # s => t \in F
      PROVE  s \in F
  <2>1. /\ h[s] = IF s = {} THEN 0 ELSE f[Taken(s)] + h[s \ {Taken(s)}]
        /\ k[s] = IF s = {} THEN 0 ELSE g[Taken(s)] + k[s \ {Taken(s)}]
    BY Zenon DEF Sums
  <2>2. CASE s = {}
    BY <2>1, <2>2, Zenon
  <2>3. CASE s # {}
    <3>1. h[s \ {Taken(s)}] = k[s \ {Taken(s)}] /\ Taken(s) \in U
      BY <1>1, <2>3, TakenFromIt, Zenon
    <3> QED BY <2>1, <2>3, <3>1, Zenon
  <2> QED BY <2>2, <2>3, Zenon
<1>2. \A s \in SUBSET U : s \in F
  <2> HIDE DEF F
  <2> QED BY <1>1, SubsetInduction, Zenon
<1> QED BY <1>2, Zenon

(* A subset of a finite set is finite: it is enumerated with the set.      *)
LEMMA SubsetIsFinite ==
  ASSUME NEW S, IsFiniteSet(S), NEW T \in SUBSET S
  PROVE  IsFiniteSet(T)
<1> DEFINE Lists(n, e, U) == e \in [1..n -> U] /\ \A x \in U : \E i \in 1..n : e[i] = x
           F == {U \in SUBSET S : \E n \in Nat : \E e : Lists(n, e, U \cap T)}
<1>1. {} \in F
  <2>1. 1..0 = {} /\ 0 \in Nat
    OBVIOUS
  <2> DEFINE e == [i \in 1..0 |-> 0]
  <2>2. {} \cap T = {}
    BY Zenon
  <2>3. Lists(0, e, {})
    BY <2>1, Zenon
  <2> HIDE DEF Lists, e
  <2> QED BY <2>1, <2>2, <2>3, Zenon
<1>2. ASSUME NEW U \in F, NEW x \in S
      PROVE  U \cup {x} \in F
  <2>1. PICK n \in Nat : \E e : Lists(n, e, U \cap T)
    BY <1>2, Zenon
  <2>e. PICK e : Lists(n, e, U \cap T)
    BY <2>1, Zenon
  <2>4. U \cup {x} \in SUBSET S
    BY <1>2, Zenon
  <2>2. CASE x \notin T
    <3>1. (U \cup {x}) \cap T = U \cap T
      BY <2>2, Zenon
    <3> HIDE DEF Lists
    <3> QED BY <2>4, <2>e, <3>1, Zenon
  <2>3. CASE x \in T
    <3> DEFINE d == [i \in 1..(n + 1) |-> IF i = n + 1 THEN x ELSE e[i]]
    <3>1. n + 1 \in Nat /\ n + 1 \in 1..(n + 1) /\ \A i \in 1..(n + 1) : i # n + 1 => i \in 1..n
      OBVIOUS
    <3>2. \A i \in 1..n : i \in 1..(n + 1) /\ i # n + 1
      OBVIOUS
    <3>3. Lists(n + 1, d, (U \cap T) \cup {x})
      BY <2>e, <3>1, <3>2, Zenon
    <3>4. (U \cup {x}) \cap T = (U \cap T) \cup {x}
      BY <2>3, Zenon
    <3> HIDE DEF d, Lists
    <3> QED BY <2>4, <3>1, <3>3, <3>4, Zenon
  <2> QED BY <2>2, <2>3, Zenon
<1>3. S \in F
  <2> HIDE DEF F
  <2> QED BY <1>1, <1>2, ElementInduction, Zenon
<1>4. S \cap T = T
  BY Zenon
<1>5. PICK n \in Nat : \E e : Lists(n, e, T)
  <2> HIDE DEF Lists
  <2> QED BY <1>3, <1>4, Zenon
<1>6. PICK e : Lists(n, e, T)
  BY <1>5, Zenon
<1>7. e \in Seq(T) /\ Len(e) = n
  BY <1>6
<1> QED BY <1>6, <1>7, Zenon DEF IsFiniteSet

(* The intermediate sums exist for every finite set.                       *)
LEMMA SumsExist ==
  ASSUME NEW f, NEW S, IsFiniteSet(S)
  PROVE  \E h : Sums(h, f, S)
<1> DEFINE F == {s \in SUBSET S : \E h : Sums(h, f, s)}
<1>1. ASSUME NEW s \in SUBSET S, \A t \in SUBSET s : t # s => t \in F
      PROVE  s \in F
  <2> DEFINE H(t) == (CHOOSE h : Sums(h, f, t))[t]
             last == IF s = {} THEN 0 ELSE f[Taken(s)] + H(s \ {Taken(s)})
             g == [t \in SUBSET s |-> IF t = s THEN last ELSE H(t)]
  <2>1. ASSUME NEW t \in SUBSET s, t # s, t # {}
        PROVE  H(t) = f[Taken(t)] + H(t \ {Taken(t)})
    <3> DEFINE u == t \ {Taken(t)}
    <3>1. u \in SUBSET t /\ u \in SUBSET s /\ u # s /\ Taken(t) \in t
      BY <2>1, TakenFromIt, Zenon
    <3>2. PICK h : h = (CHOOSE x : Sums(x, f, t)) /\ Sums(h, f, t)
      BY <1>1, <2>1, Zenon
    <3>3. PICK k : k = (CHOOSE x : Sums(x, f, u)) /\ Sums(k, f, u)
      <4> HIDE DEF u
      <4> QED BY <1>1, <3>1, Zenon
    <3>4. IsFiniteSet(u)
      BY <3>1, SubsetIsFinite, Zenon
    <3>5. h[t] = f[Taken(t)] + h[u]
      BY <2>1, <3>2, Zenon DEF Sums
    <3> HIDE DEF u
    <3>6. h[u] = k[u]
      BY <3>1, <3>2, <3>3, <3>4, SumsAgree
    <3> QED BY <3>2, <3>3, <3>5, <3>6, Zenon DEF u
  <2>2. ASSUME NEW t \in SUBSET s, t # s, t = {}
        PROVE  H(t) = 0
    <3>1. PICK h : h = (CHOOSE x : Sums(x, f, t)) /\ Sums(h, f, t)
      BY <1>1, <2>2, Zenon
    <3>2. h[t] = 0
      BY <2>2, <3>1, Zenon DEF Sums
    <3> QED BY <3>1, <3>2, Zenon
  <2> HIDE DEF H
  <2>3. ASSUME NEW t \in SUBSET s
        PROVE  g[t] = IF t = {} THEN 0 ELSE f[Taken(t)] + g[t \ {Taken(t)}]
    <3>1. CASE t = {}
      BY <2>2, <3>1, Zenon
    <3>2. CASE t # {}
      <4>1. t \ {Taken(t)} \in SUBSET s /\ t \ {Taken(t)} # s
        BY <3>2, TakenFromIt, Zenon
      <4>2. g[t \ {Taken(t)}] = H(t \ {Taken(t)})
        BY <4>1, Zenon
      <4>3. CASE t = s
        BY <3>2, <4>2, <4>3, Zenon
      <4>4. CASE t # s
        BY <2>1, <3>2, <4>2, <4>4, Zenon
      <4> QED BY <4>3, <4>4, Zenon
    <3> QED BY <3>1, <3>2, Zenon
  <2>4. g = [t \in SUBSET s |-> IF t = {} THEN 0 ELSE f[Taken(t)] + g[t \ {Taken(t)}]]
    <3>1. g = [t \in SUBSET s |-> g[t]]
      BY Zenon
    <3> HIDE DEF g
    <3> QED BY <2>3, <3>1, Zenon
  <2>5. Sums(g, f, s)
    <3> HIDE DEF g
    <3> QED BY <2>4, Zenon DEF Sums
  <2> QED BY <2>5, Zenon
<1>2. \A s \in SUBSET S : s \in F
  <2> HIDE DEF F
  <2> QED BY <1>1, SubsetInduction, Zenon
<1> QED BY <1>2, Zenon

(* SumOver is the last of them.                                            *)
LEMMA SumIs ==
  ASSUME NEW f, NEW S, IsFiniteSet(S)
  PROVE  \E h : Sums(h, f, S) /\ SumOver(f, S) = h[S]
<1>1. SumOver(f, S) = (CHOOSE h : Sums(h, f, S))[S]
  BY Zenon DEF SumOver, MapThenSumSet, MapThenFoldSet, Sums, Taken
<1> QED BY <1>1, SumsExist, Zenon

(* A sum is over the values on the set only.                               *)
LEMMA SumSame ==
  ASSUME NEW S, IsFiniteSet(S), NEW f, NEW g, \A x \in S : f[x] = g[x]
  PROVE  SumOver(f, S) = SumOver(g, S)
<1>1. PICK h : Sums(h, f, S) /\ SumOver(f, S) = h[S]
  BY SumIs, Zenon
<1>2. PICK k : Sums(k, g, S) /\ SumOver(g, S) = k[S]
  BY SumIs, Zenon
<1>3. h[S] = k[S]
  BY <1>1, <1>2, SumsAgree
<1> QED BY <1>1, <1>2, <1>3, Zenon

(* The empty sum, and the first element taken.                             *)
LEMMA SumTakes ==
  ASSUME NEW f, NEW S, IsFiniteSet(S)
  PROVE  /\ S = {} => SumOver(f, S) = 0
         /\ S # {} => SumOver(f, S) = f[Taken(S)] + SumOver(f, S \ {Taken(S)})
<1>1. PICK h : Sums(h, f, S) /\ SumOver(f, S) = h[S]
  BY SumIs, Zenon
<1>2. h[S] = IF S = {} THEN 0 ELSE f[Taken(S)] + h[S \ {Taken(S)}]
  BY <1>1, Zenon DEF Sums
<1>3. ASSUME S # {}
      PROVE  h[S \ {Taken(S)}] = SumOver(f, S \ {Taken(S)})
  <2> DEFINE U == S \ {Taken(S)}
  <2>1. U \in SUBSET S
    BY Zenon
  <2>2. IsFiniteSet(U)
    BY <2>1, SubsetIsFinite, Zenon
  <2> HIDE DEF U
  <2>3. PICK k : Sums(k, f, U) /\ SumOver(f, U) = k[U]
    BY <2>2, SumIs, Zenon
  <2>4. h[U] = k[U]
    BY <1>1, <2>1, <2>2, <2>3, SumsAgree
  <2> QED BY <2>3, <2>4, Zenon DEF U
<1> QED BY <1>1, <1>2, <1>3, Zenon

(* The elements of a finite set can be taken in any order.                 *)
LEMMA SumRemoves ==
  ASSUME NEW S, IsFiniteSet(S), NEW f, \A x \in S : f[x] \in Nat
  PROVE  /\ SumOver(f, S) \in Nat
         /\ \A x \in S : SumOver(f, S) = f[x] + SumOver(f, S \ {x})
<1> DEFINE Good(s) == /\ SumOver(f, s) \in Nat
                      /\ \A x \in s : SumOver(f, s) = f[x] + SumOver(f, s \ {x})
           F == {s \in SUBSET S : Good(s)}
<1>1. ASSUME NEW s \in SUBSET S, \A t \in SUBSET s : t # s => t \in F
      PROVE  s \in F
  <2>1. IsFiniteSet(s)
    BY SubsetIsFinite, Zenon
  <2>2. CASE s = {}
    <3>1. SumOver(f, s) = 0
      BY <2>1, <2>2, SumTakes, Zenon
    <3> QED BY <2>2, <3>1
  <2>3. CASE s # {}
    <3> DEFINE p == Taken(s)
               r == s \ {p}
    <3>1. p \in s /\ r \in SUBSET s /\ r # s
      BY <2>3, TakenFromIt, Zenon
    <3>2. SumOver(f, s) = f[p] + SumOver(f, r)
      BY <2>1, <2>3, SumTakes, Zenon
    <3> HIDE DEF p
    <3>3. Good(r) /\ f[p] \in Nat
      <4> HIDE DEF Good, r
      <4> QED BY <1>1, <3>1, Zenon
    <3>4. SumOver(f, s) \in Nat
      BY <3>2, <3>3
    <3>5. ASSUME NEW x \in s
          PROVE  SumOver(f, s) = f[x] + SumOver(f, s \ {x})
      <4>1. CASE x = p
        BY <3>2, <4>1, Zenon
      <4>2. CASE x # p
        <5> DEFINE q == s \ {x}
        <5>1. q \in SUBSET s /\ q # s /\ p \in q /\ x \in r /\ r \ {x} = q \ {p}
          BY <3>1, <4>2, Zenon
        <5>2. Good(q) /\ f[x] \in Nat
          <6> HIDE DEF Good, q
          <6> QED BY <1>1, <5>1, Zenon
        <5>3. Good(r \ {x})
          <6>1. r \ {x} \in SUBSET s /\ r \ {x} # s
            BY <3>1, Zenon
          <6> HIDE DEF Good, r
          <6> QED BY <1>1, <6>1, Zenon
        <5> HIDE DEF q, r
        <5>4. SumOver(f, r) = f[x] + SumOver(f, r \ {x})
          BY <3>3, <5>1, Zenon
        <5>5. SumOver(f, q) = f[p] + SumOver(f, r \ {x})
          BY <5>1, <5>2, Zenon
        <5>6. SumOver(f, s) = f[x] + SumOver(f, q)
          <6>1. SumOver(f, r \ {x}) \in Nat
            BY <5>3, Zenon
          <6> HIDE DEF Good, F
          <6> QED BY <3>2, <3>3, <5>2, <5>4, <5>5, <6>1
        <5> QED BY <5>6, Zenon DEF q
      <4> QED BY <4>1, <4>2, Zenon
    <3> QED BY <3>4, <3>5, Zenon
  <2> QED BY <2>2, <2>3, Zenon
<1>2. \A s \in SUBSET S : s \in F
  <2> HIDE DEF F
  <2> QED BY <1>1, SubsetInduction, Zenon
<1> QED BY <1>2, Zenon

(* A sum of larger values is larger.                                       *)
LEMMA SumGrows ==
  ASSUME NEW S, IsFiniteSet(S), NEW f, NEW g,
         \A x \in S : f[x] \in Nat /\ g[x] \in Nat /\ f[x] <= g[x]
  PROVE  SumOver(f, S) <= SumOver(g, S)
<1> DEFINE F == {s \in SUBSET S : SumOver(f, s) <= SumOver(g, s)}
<1>1. ASSUME NEW s \in SUBSET S, \A t \in SUBSET s : t # s => t \in F
      PROVE  s \in F
  <2>1. IsFiniteSet(s)
    BY SubsetIsFinite, Zenon
  <2>2. CASE s = {}
    <3>1. SumOver(f, s) = 0 /\ SumOver(g, s) = 0
      BY <2>1, <2>2, SumTakes, Zenon
    <3> QED BY <3>1
  <2>3. CASE s # {}
    <3> DEFINE p == Taken(s)
               r == s \ {p}
    <3>1. p \in S /\ r \in SUBSET S /\ r \in SUBSET s /\ r # s
      BY <2>3, TakenFromIt, Zenon
    <3>2. SumOver(f, s) = f[p] + SumOver(f, r) /\ SumOver(g, s) = g[p] + SumOver(g, r)
      BY <2>1, <2>3, SumTakes, Zenon
    <3> HIDE DEF p, r
    <3>3. SumOver(f, r) <= SumOver(g, r)
      BY <1>1, <3>1, Zenon
    <3>4. IsFiniteSet(r) /\ \A x \in r : f[x] \in Nat /\ g[x] \in Nat
      BY <3>1, SubsetIsFinite, Zenon
    <3>5. SumOver(f, r) \in Nat /\ SumOver(g, r) \in Nat
      BY <3>4, SumRemoves, Zenon
    <3>6. f[p] \in Nat /\ g[p] \in Nat /\ f[p] <= g[p]
      BY <3>1, Zenon
    <3> HIDE DEF F
    <3>7. SumOver(f, s) <= SumOver(g, s)
      BY <3>2, <3>3, <3>5, <3>6
    <3> QED BY <3>7, Zenon DEF F
  <2> QED BY <2>2, <2>3, Zenon
<1>2. \A s \in SUBSET S : s \in F
  <2> HIDE DEF F
  <2> QED BY <1>1, SubsetInduction, Zenon
<1> QED BY <1>2, Zenon

(* One more element leaves a finite set finite.                            *)
LEMMA OneMoreIsFinite ==
  ASSUME NEW S, IsFiniteSet(S), NEW o
  PROVE  IsFiniteSet(S \cup {o})
<1>1. PICK q \in Seq(S) : \A x \in S : \E n \in 1..Len(q) : q[n] = x
  BY Zenon DEF IsFiniteSet
<1> DEFINE e == [i \in 1..(Len(q) + 1) |-> IF i = Len(q) + 1 THEN o ELSE q[i]]
<1>2. /\ Len(q) + 1 \in 1..(Len(q) + 1)
      /\ \A i \in 1..Len(q) : i \in 1..(Len(q) + 1) /\ i # Len(q) + 1
  OBVIOUS
<1>3. e \in Seq(S \cup {o}) /\ Len(e) = Len(q) + 1
  OBVIOUS
<1>4. \A x \in S \cup {o} : \E i \in 1..(Len(q) + 1) : e[i] = x
  BY <1>1, <1>2, Zenon
<1> HIDE DEF e
<1> QED BY <1>3, <1>4, ZenonT(60) DEF IsFiniteSet


(* Columns of numbers that differ at one entry at most.                    *)
AlikeBut(f, g, o, C) == \A x \in C : f[x] \in Nat /\ g[x] \in Nat /\ (x # o => g[x] = f[x])

SumFollows(f, g, o, C) == SumOver(g, C) = SumOver(f, C) - f[o] + g[o]

(* One value changes: the sum changes by the difference.                   *)
LEMMA SumChanges ==
  ASSUME NEW C, IsFiniteSet(C), NEW f, NEW g, NEW o, AlikeBut(f, g, o, C)
  PROVE  /\ SumOver(f, C) \in Nat
         /\ o \in C => SumFollows(f, g, o, C)
         /\ o \notin C => SumOver(g, C) = SumOver(f, C)
<1>0. \A x \in C : f[x] \in Nat /\ g[x] \in Nat /\ (x # o => g[x] = f[x])
  BY Zenon DEF AlikeBut
<1>1. SumOver(f, C) \in Nat
  BY <1>0, SumRemoves, Zenon
<1>2. ASSUME o \in C
      PROVE  SumOver(g, C) = SumOver(f, C) - f[o] + g[o]
  <2> DEFINE R == C \ {o}
  <2>1. R \in SUBSET C
    BY Zenon
  <2>2. IsFiniteSet(R)
    BY <2>1, SubsetIsFinite, Zenon
  <2>3. \A x \in R : f[x] = g[x]
    BY <1>0, Zenon
  <2>4. SumOver(f, C) = f[o] + SumOver(f, R) /\ SumOver(g, C) = g[o] + SumOver(g, R)
    BY <1>0, <1>2, SumRemoves, Zenon
  <2> HIDE DEF R
  <2>5. SumOver(f, R) = SumOver(g, R)
    BY <2>2, <2>3, SumSame, Zenon
  <2>6. SumOver(f, R) \in Nat
    BY <1>0, <2>1, <2>2, SumRemoves, Zenon
  <2>7. f[o] \in Nat /\ g[o] \in Nat
    BY <1>0, <1>2, Zenon
  <2> QED BY <2>4, <2>5, <2>6, <2>7
<1>3. ASSUME o \notin C
      PROVE  SumOver(g, C) = SumOver(f, C)
  <2>1. \A x \in C : g[x] = f[x]
    BY <1>0, <1>3, Zenon
  <2> QED BY <2>1, SumSame, Zenon
<1> QED BY <1>1, <1>2, <1>3, Zenon DEF SumFollows

(* Columns of numbers that are the same.                                   *)
AlikeOn(f, g, C) == \A x \in C : f[x] \in Nat /\ g[x] = f[x]

(* The same column has the same sum.                                       *)
LEMMA SumKept ==
  ASSUME NEW C, IsFiniteSet(C), NEW f, NEW g, AlikeOn(f, g, C)
  PROVE  SumOver(g, C) = SumOver(f, C) /\ SumOver(f, C) \in Nat
<1>1. \A x \in C : f[x] \in Nat /\ g[x] = f[x]
  BY Zenon DEF AlikeOn
<1> QED BY <1>1, SumSame, SumRemoves, Zenon

SumIncludes(f, g, o, C) == SumOver(g, C \cup {o}) = SumOver(f, C) + g[o]

(* One more element is finite, and adds its value.                         *)
LEMMA SumAdds ==
  ASSUME NEW C, IsFiniteSet(C), NEW o, o \notin C, NEW f, NEW g, AlikeOn(f, g, C), g[o] \in Nat
  PROVE  SumIncludes(f, g, o, C)
<1> DEFINE D == C \cup {o}
<1>1. IsFiniteSet(D)
  BY OneMoreIsFinite, Zenon
<1>0. \A x \in C : f[x] \in Nat /\ g[x] = f[x]
  BY Zenon DEF AlikeOn
<1>2. D \ {o} = C /\ o \in D /\ \A x \in D : g[x] \in Nat
  BY <1>0, Zenon
<1> HIDE DEF D
<1>3. SumOver(g, D) = g[o] + SumOver(g, C)
  BY <1>1, <1>2, SumRemoves, Zenon
<1>4. SumOver(g, C) = SumOver(f, C) /\ SumOver(f, C) \in Nat
  BY SumKept, Zenon
<1>5. SumOver(g, D) = SumOver(f, C) + g[o]
  BY <1>3, <1>4
<1> QED BY <1>5, Zenon DEF SumIncludes, D

-----------------------------------------------------------------------------
(* The ledger that the folded events keep: operations p against totals t.  *)
(* A pending operation has used nothing; no operation was refunded more    *)
(* than it used; an operation is charged to accounts of the plan only.     *)
Charges(p, a) == {o \in DOMAIN p : a \in Charged(p[o].task, p[o].subject)}

Held(r) == IF r.outcome = "Pending" THEN Envelope ELSE 0

HeldBy(p) == [o \in DOMAIN p |-> Held(p[o])]

UsedBy(p) == [o \in DOMAIN p |-> p[o].accounted]

ReturnedTo(p) == [o \in DOMAIN p |-> p[o].refunded]

Sound(r) ==
  /\ Charged(r.task, r.subject) \subseteq Accounts
  /\ r.accounted \in Nat /\ r.refunded \in Nat /\ r.refunded <= r.accounted
  /\ r.outcome = "Pending" => r.accounted = 0 /\ r.refunded = 0

Balanced(p, total, a) ==
  /\ total.reserved = SumOver(HeldBy(p), Charges(p, a))
  /\ total.gross = SumOver(UsedBy(p), Charges(p, a))
  /\ total.refunded = SumOver(ReturnedTo(p), Charges(p, a))

Ledger(p, t) ==
  /\ IsFiniteSet(DOMAIN p)
  /\ \A o \in DOMAIN p : Sound(p[o])
  /\ \A a \in Accounts : Balanced(p, t[a], a)

(* The envelope of an operation is a number.                               *)
LEMMA HeldIsNumber == \A r : Held(r) \in Nat /\ (r.outcome = "Pending" => Held(r) = Envelope)
<1>1. Envelope \in Nat /\ 0 \in Nat
  BY CapabilityAssumption, Zenon
<1> QED BY <1>1, Zenon DEF Held

(* The values that are summed for an account are numbers.                  *)
LEMMA ColumnsAreNumbers ==
  ASSUME NEW p, IsFiniteSet(DOMAIN p), \A o \in DOMAIN p : Sound(p[o]), NEW a
  PROVE  /\ IsFiniteSet(Charges(p, a)) /\ Charges(p, a) \in SUBSET DOMAIN p
         /\ \A o \in Charges(p, a) : /\ HeldBy(p)[o] = Held(p[o]) /\ Held(p[o]) \in Nat
                                     /\ UsedBy(p)[o] = p[o].accounted /\ p[o].accounted \in Nat
                                     /\ ReturnedTo(p)[o] = p[o].refunded /\ p[o].refunded \in Nat
<1>1. Charges(p, a) \in SUBSET DOMAIN p
  BY Zenon DEF Charges
<1>2. IsFiniteSet(Charges(p, a))
  BY <1>1, SubsetIsFinite, Zenon
<1>3. ASSUME NEW o \in Charges(p, a)
      PROVE  /\ HeldBy(p)[o] = Held(p[o]) /\ Held(p[o]) \in Nat
             /\ UsedBy(p)[o] = p[o].accounted /\ p[o].accounted \in Nat
             /\ ReturnedTo(p)[o] = p[o].refunded /\ p[o].refunded \in Nat
  <2>1. o \in DOMAIN p
    BY <1>1, Zenon
  <2> QED BY <2>1, HeldIsNumber, Zenon DEF HeldBy, UsedBy, ReturnedTo, Sound
<1> QED BY <1>1, <1>2, <1>3, Zenon

(* apply_control_event on one operation: its record changes, and with it   *)
(* the totals of its accounts by the difference.                           *)
Rewrites(p, t, o, q, u) ==
  /\ o \in DOMAIN p /\ DOMAIN q = DOMAIN p /\ \A x \in DOMAIN p : x # o => q[x] = p[x]
  /\ Sound(q[o]) /\ q[o].task = p[o].task /\ q[o].subject = p[o].subject
  /\ \A a \in Accounts : a \in Charged(p[o].task, p[o].subject) =>
       /\ u[a].reserved = t[a].reserved - Held(p[o]) + Held(q[o])
       /\ u[a].gross = t[a].gross - p[o].accounted + q[o].accounted
       /\ u[a].refunded = t[a].refunded - p[o].refunded + q[o].refunded
  /\ \A a \in Accounts : a \notin Charged(p[o].task, p[o].subject) => u[a] = t[a]

(* Such a change keeps the ledger.                                         *)
LEMMA EntryChanges ==
  ASSUME NEW p, NEW t, Ledger(p, t), NEW o, NEW q, NEW u, Rewrites(p, t, o, q, u)
  PROVE  Ledger(q, u)
<1>0. /\ o \in DOMAIN p /\ DOMAIN q = DOMAIN p /\ \A x \in DOMAIN p : x # o => q[x] = p[x]
      /\ Sound(q[o]) /\ q[o].task = p[o].task /\ q[o].subject = p[o].subject
      /\ \A a \in Accounts : a \in Charged(p[o].task, p[o].subject) =>
           /\ u[a].reserved = t[a].reserved - Held(p[o]) + Held(q[o])
           /\ u[a].gross = t[a].gross - p[o].accounted + q[o].accounted
           /\ u[a].refunded = t[a].refunded - p[o].refunded + q[o].refunded
      /\ \A a \in Accounts : a \notin Charged(p[o].task, p[o].subject) => u[a] = t[a]
  BY Zenon DEF Rewrites
<1>1. IsFiniteSet(DOMAIN p) /\ \A x \in DOMAIN p : Sound(p[x])
  BY Zenon DEF Ledger
<1>2. \A x \in DOMAIN q : Sound(q[x])
  BY <1>0, <1>1, Zenon
<1>3. ASSUME NEW a \in Accounts
      PROVE  Balanced(q, u[a], a)
  <2> DEFINE C == Charges(p, a)
  <2>1. Charges(q, a) = C
    <3>1. \A x \in DOMAIN p : q[x].task = p[x].task /\ q[x].subject = p[x].subject
      BY <1>0, Zenon
    <3> QED BY <1>0, <3>1, Zenon DEF Charges
  <2>2. Balanced(p, t[a], a)
    BY Zenon DEF Ledger
  <2>3. /\ IsFiniteSet(C) /\ C \in SUBSET DOMAIN p
        /\ \A x \in C : /\ HeldBy(p)[x] = Held(p[x]) /\ Held(p[x]) \in Nat
                        /\ UsedBy(p)[x] = p[x].accounted /\ p[x].accounted \in Nat
                        /\ ReturnedTo(p)[x] = p[x].refunded /\ p[x].refunded \in Nat
    BY <1>1, ColumnsAreNumbers, Zenon
  <2>10. \A x \in C : /\ HeldBy(q)[x] = Held(q[x]) /\ Held(q[x]) \in Nat
                      /\ UsedBy(q)[x] = q[x].accounted /\ q[x].accounted \in Nat
                      /\ ReturnedTo(q)[x] = q[x].refunded /\ q[x].refunded \in Nat
    <3>1. IsFiniteSet(DOMAIN q)
      BY <1>0, <1>1, Zenon
    <3> QED BY <1>2, <2>1, <3>1, ColumnsAreNumbers, Zenon
  <2>11. \A x \in C : x # o => q[x] = p[x]
    BY <1>0, <2>3, Zenon
  <2>4. o \in C <=> a \in Charged(p[o].task, p[o].subject)
    BY <1>0, Zenon DEF Charges
  <2> HIDE DEF C
  <2>5. AlikeBut(HeldBy(p), HeldBy(q), o, C)
    BY <2>3, <2>10, <2>11, Zenon DEF AlikeBut
  <2>6. AlikeBut(UsedBy(p), UsedBy(q), o, C)
    BY <2>3, <2>10, <2>11, Zenon DEF AlikeBut
  <2>7. AlikeBut(ReturnedTo(p), ReturnedTo(q), o, C)
    BY <2>3, <2>10, <2>11, Zenon DEF AlikeBut
  <2>8. CASE o \in C
    <3>1. SumFollows(HeldBy(p), HeldBy(q), o, C)
      BY <2>3, <2>5, <2>8, SumChanges, Zenon
    <3>2. SumFollows(UsedBy(p), UsedBy(q), o, C)
      BY <2>3, <2>6, <2>8, SumChanges, Zenon
    <3>3. SumFollows(ReturnedTo(p), ReturnedTo(q), o, C)
      BY <2>3, <2>7, <2>8, SumChanges, Zenon
    <3> QED BY <1>0, <2>1, <2>2, <2>3, <2>4, <2>8, <2>10, <3>1, <3>2, <3>3, ZenonT(60) DEF SumFollows, Balanced, C
  <2>9. CASE o \notin C
    <3>1. SumOver(HeldBy(q), C) = SumOver(HeldBy(p), C)
      BY <2>3, <2>5, <2>9, SumChanges, Zenon
    <3>2. SumOver(UsedBy(q), C) = SumOver(UsedBy(p), C)
      BY <2>3, <2>6, <2>9, SumChanges, Zenon
    <3>3. SumOver(ReturnedTo(q), C) = SumOver(ReturnedTo(p), C)
      BY <2>3, <2>7, <2>9, SumChanges, Zenon
    <3>4. u[a] = t[a]
      BY <1>0, <2>4, <2>9, Zenon
    <3> QED BY <2>1, <2>2, <3>1, <3>2, <3>3, <3>4, Zenon DEF Balanced, C
  <2> QED BY <2>8, <2>9, Zenon
<1> QED BY <1>0, <1>1, <1>2, <1>3, Zenon DEF Ledger

(* A reservation: one more pending operation that has used nothing, and an *)
(* envelope more in each of its accounts.                                  *)
Adds(p, t, o, q, u) ==
  /\ o \notin DOMAIN p /\ DOMAIN q = DOMAIN p \cup {o} /\ \A x \in DOMAIN p : q[x] = p[x]
  /\ Sound(q[o]) /\ q[o].outcome = "Pending"
  /\ \A a \in Accounts : a \in Charged(q[o].task, q[o].subject) =>
       /\ u[a].reserved = t[a].reserved + Envelope
       /\ u[a].gross = t[a].gross /\ u[a].refunded = t[a].refunded
  /\ \A a \in Accounts : a \notin Charged(q[o].task, q[o].subject) => u[a] = t[a]

(* That keeps the ledger as well.                                          *)
LEMMA EntryAdded ==
  ASSUME NEW p, NEW t, Ledger(p, t), NEW o, NEW q, NEW u, Adds(p, t, o, q, u)
  PROVE  Ledger(q, u)
<1>0. /\ o \notin DOMAIN p /\ DOMAIN q = DOMAIN p \cup {o} /\ \A x \in DOMAIN p : q[x] = p[x]
      /\ Sound(q[o]) /\ q[o].outcome = "Pending"
      /\ \A a \in Accounts : a \in Charged(q[o].task, q[o].subject) =>
           /\ u[a].reserved = t[a].reserved + Envelope
           /\ u[a].gross = t[a].gross /\ u[a].refunded = t[a].refunded
      /\ \A a \in Accounts : a \notin Charged(q[o].task, q[o].subject) => u[a] = t[a]
  BY Zenon DEF Adds
<1>1. IsFiniteSet(DOMAIN p) /\ \A x \in DOMAIN p : Sound(p[x])
  BY Zenon DEF Ledger
<1>2. IsFiniteSet(DOMAIN q) /\ \A x \in DOMAIN q : Sound(q[x])
  BY <1>0, <1>1, OneMoreIsFinite, Zenon
<1>3. /\ Held(q[o]) = Envelope /\ Envelope \in Nat
      /\ q[o].accounted = 0 /\ q[o].refunded = 0 /\ 0 \in Nat
  <2>1. 0 \in Nat
    BY Zenon
  <2> QED BY <1>0, <2>1, HeldIsNumber, Zenon DEF Sound
<1>4. HeldBy(q)[o] = Envelope /\ UsedBy(q)[o] = 0 /\ ReturnedTo(q)[o] = 0
  BY <1>0, <1>3, Zenon DEF HeldBy, UsedBy, ReturnedTo
<1>5. ASSUME NEW a \in Accounts
      PROVE  Balanced(q, u[a], a)
  <2> DEFINE C == Charges(p, a)
             D == Charges(q, a)
  <2>1. Balanced(p, t[a], a)
    BY Zenon DEF Ledger
  <2>2. /\ IsFiniteSet(C) /\ C \in SUBSET DOMAIN p
        /\ \A x \in C : /\ HeldBy(p)[x] = Held(p[x]) /\ Held(p[x]) \in Nat
                        /\ UsedBy(p)[x] = p[x].accounted /\ p[x].accounted \in Nat
                        /\ ReturnedTo(p)[x] = p[x].refunded /\ p[x].refunded \in Nat
    BY <1>1, ColumnsAreNumbers, Zenon
  <2>3. \A x \in C : /\ HeldBy(q)[x] = Held(q[x]) /\ UsedBy(q)[x] = q[x].accounted
                     /\ ReturnedTo(q)[x] = q[x].refunded /\ q[x] = p[x]
    BY <1>0, <2>2, Zenon DEF HeldBy, UsedBy, ReturnedTo
  <2>4. o \notin C
    BY <1>0, <2>2, Zenon
  <2>5. D = IF a \in Charged(q[o].task, q[o].subject) THEN C \cup {o} ELSE C
    BY <1>0, Zenon DEF Charges
  <2> HIDE DEF C, D
  <2>6. AlikeOn(HeldBy(p), HeldBy(q), C)
    BY <2>2, <2>3, Zenon DEF AlikeOn
  <2>7. AlikeOn(UsedBy(p), UsedBy(q), C)
    BY <2>2, <2>3, Zenon DEF AlikeOn
  <2>8. AlikeOn(ReturnedTo(p), ReturnedTo(q), C)
    BY <2>2, <2>3, Zenon DEF AlikeOn
  <2>9. /\ SumOver(HeldBy(q), C) = SumOver(HeldBy(p), C)
        /\ SumOver(UsedBy(q), C) = SumOver(UsedBy(p), C) /\ SumOver(UsedBy(p), C) \in Nat
        /\ SumOver(ReturnedTo(q), C) = SumOver(ReturnedTo(p), C) /\ SumOver(ReturnedTo(p), C) \in Nat
    BY <2>2, <2>6, <2>7, <2>8, SumKept, Zenon
  <2>10. CASE a \in Charged(q[o].task, q[o].subject)
    <3>1. D = C \cup {o}
      BY <2>5, <2>10, Zenon
    <3>2. /\ SumIncludes(HeldBy(p), HeldBy(q), o, C)
          /\ SumIncludes(UsedBy(p), UsedBy(q), o, C)
          /\ SumIncludes(ReturnedTo(p), ReturnedTo(q), o, C)
      <4>1. IsFiniteSet(C) /\ HeldBy(q)[o] \in Nat /\ UsedBy(q)[o] \in Nat /\ ReturnedTo(q)[o] \in Nat
        BY <1>3, <1>4, <2>2, Zenon
      <4> QED BY <4>1, <2>4, <2>6, <2>7, <2>8, SumAdds, Zenon
    <3>3. /\ SumOver(UsedBy(q), D) = SumOver(UsedBy(p), C) + 0
          /\ SumOver(ReturnedTo(q), D) = SumOver(ReturnedTo(p), C) + 0
      BY <1>4, <3>1, <3>2, Zenon DEF SumIncludes
    <3>4. /\ SumOver(UsedBy(q), D) = SumOver(UsedBy(p), C)
          /\ SumOver(ReturnedTo(q), D) = SumOver(ReturnedTo(p), C)
      <4>1. \A n \in Nat : n + 0 = n
        OBVIOUS
      <4> QED BY <2>9, <3>3, <4>1, Zenon
    <3> QED BY <1>0, <1>4, <2>1, <2>10, <3>1, <3>2, <3>4, Zenon DEF SumIncludes, Balanced, C, D
  <2>11. CASE a \notin Charged(q[o].task, q[o].subject)
    <3>1. D = C /\ u[a] = t[a]
      BY <1>0, <2>5, <2>11, Zenon
    <3> QED BY <2>1, <2>9, <3>1, Zenon DEF Balanced, C, D
  <2> QED BY <2>10, <2>11, Zenon
<1> QED BY <1>2, <1>5, Zenon DEF Ledger

(* Every account that a pending operation is charged to still holds its    *)
(* envelope: the checked_sub of a settlement cannot fail.                  *)
LEMMA EnvelopeIsHeld ==
  ASSUME NEW p, NEW t, Ledger(p, t), NEW o \in DOMAIN p, p[o].outcome = "Pending",
         NEW a \in Charged(p[o].task, p[o].subject)
  PROVE  Envelope <= t[a].reserved
<1> DEFINE C == Charges(p, a)
<1>1. IsFiniteSet(DOMAIN p) /\ \A x \in DOMAIN p : Sound(p[x])
  BY Zenon DEF Ledger
<1>2. a \in Accounts /\ o \in C
  BY <1>1, Zenon DEF Sound, Charges
<1>3. IsFiniteSet(C) /\ \A x \in C : HeldBy(p)[x] = Held(p[x]) /\ HeldBy(p)[x] \in Nat
  <2>1. /\ IsFiniteSet(C)
        /\ \A x \in C : HeldBy(p)[x] = Held(p[x]) /\ Held(p[x]) \in Nat
    BY <1>1, ColumnsAreNumbers, Zenon
  <2> QED BY <2>1, Zenon
<1> HIDE DEF C
<1>4. C \ {o} \in SUBSET C
  BY Zenon
<1>5. IsFiniteSet(C \ {o})
  BY <1>3, <1>4, SubsetIsFinite, Zenon
<1>6. SumOver(HeldBy(p), C) = HeldBy(p)[o] + SumOver(HeldBy(p), C \ {o})
  BY <1>2, <1>3, SumRemoves, Zenon
<1>7. SumOver(HeldBy(p), C \ {o}) \in Nat
  BY <1>3, <1>4, <1>5, SumRemoves, Zenon
<1>8. HeldBy(p)[o] = Envelope /\ Envelope \in Nat
  BY <1>2, <1>3, HeldIsNumber, Zenon
<1>9. t[a].reserved = SumOver(HeldBy(p), C)
  BY <1>2, Zenon DEF Ledger, Balanced, C
<1> QED BY <1>6, <1>7, <1>8, <1>9

(* No account was refunded more than it used.                              *)
LEMMA RefundsAreCovered ==
  ASSUME NEW p, NEW t, Ledger(p, t), NEW a \in Accounts
  PROVE  t[a].refunded <= t[a].gross
<1> DEFINE C == Charges(p, a)
<1>1. IsFiniteSet(DOMAIN p) /\ \A x \in DOMAIN p : Sound(p[x])
  BY Zenon DEF Ledger
<1>2. /\ IsFiniteSet(C) /\ C \in SUBSET DOMAIN p
      /\ \A x \in C : /\ UsedBy(p)[x] = p[x].accounted /\ p[x].accounted \in Nat
                      /\ ReturnedTo(p)[x] = p[x].refunded /\ p[x].refunded \in Nat
  BY <1>1, ColumnsAreNumbers, Zenon
<1> HIDE DEF C
<1>3. \A x \in C : /\ ReturnedTo(p)[x] \in Nat /\ UsedBy(p)[x] \in Nat
                   /\ ReturnedTo(p)[x] <= UsedBy(p)[x]
  BY <1>1, <1>2, Zenon DEF Sound
<1>4. SumOver(ReturnedTo(p), C) <= SumOver(UsedBy(p), C)
  BY <1>2, <1>3, SumGrows, Zenon
<1> QED BY <1>4, Zenon DEF Ledger, Balanced, C

-----------------------------------------------------------------------------
(* The second inductive invariant of the runtime control, on top of        *)
(* ControlInv: the ledger of what the control events recorded, and that a  *)
(* lease was made between the reservation of its operation and its         *)
(* deadline.                                                               *)
LeasesMadeInTime ==
  \A l \in leases : ops[l.op].reservedAt <= l.wall /\ l.wall < ops[l.op].deadline

LedgerInv == Ledger(ops, totals) /\ LeasesMadeInTime

(* The step formula of UnreadableOnlyByCallbacks.                          *)
StaysReadable ==
  ~corrupt /\ corrupt' => \E l \in leases :
    Settled(l.op) \/ CancellationApplies(ops[l.op].task, l.op)

TotalsRecord == [reserved: Nat, gross: Nat, refunded: Nat]

(* What ControlInv says of the accounts, the operations and the leases.    *)
LEMMA ControlTyped ==
  ASSUME ControlInv
  PROVE  /\ \A a \in Accounts : totals[a] \in TotalsRecord
         /\ \A o \in DOMAIN ops : ops[o] \in Operation
         /\ \A l \in leases : l \in Lease /\ l.op \in DOMAIN ops
         /\ samples \subseteq Sample
<1>1. ControlTypeOK
  BY Zenon DEF ControlInv
<1>2. \A a \in Accounts : totals[a] \in TotalsRecord
  BY <1>1, Zenon DEF ControlTypeOK, TotalsRecord
<1> QED BY <1>1, <1>2, Zenon DEF ControlTypeOK, Operating

(* A step that leaves operations and accounts alone and adds no lease.     *)
LEMMA FrameLedger ==
  ASSUME LedgerInv, UNCHANGED <<ops, totals>>, leases' \subseteq leases
  PROVE  LedgerInv'
<1>1. LeasesMadeInTime'
  BY Zenon DEF LedgerInv, LeasesMadeInTime
<1>2. ops' = ops /\ totals' = totals
  BY Zenon
<1>3. Ledger(ops', totals')
  BY <1>2, Zenon DEF LedgerInv
<1> QED BY <1>1, <1>3, Zenon DEF LedgerInv

(* The leases are in time after a step that changes no deadline and makes  *)
(* no lease.                                                               *)
LEMMA LeasesStay ==
  ASSUME ControlInv, LedgerInv, leases' \subseteq leases,
         \A x \in DOMAIN ops : ops'[x].reservedAt = ops[x].reservedAt
                               /\ ops'[x].deadline = ops[x].deadline
  PROVE  LeasesMadeInTime'
<1>1. \A l \in leases' : l \in leases /\ l.op \in DOMAIN ops
  BY ControlTyped, Zenon
<1>2. \A l \in leases' : ops'[l.op].reservedAt <= l.wall /\ l.wall < ops'[l.op].deadline
  BY <1>1, Zenon DEF LedgerInv, LeasesMadeInTime
<1> QED BY <1>2, Zenon DEF LeasesMadeInTime

(* The accounts of a reservation.                                          *)
LEMMA ReservedTotals ==
  ASSUME NEW x \in TotalsRecord, NEW y, y = [x EXCEPT !.reserved = @ + Envelope]
  PROVE  y.reserved = x.reserved + Envelope /\ y.gross = x.gross /\ y.refunded = x.refunded
BY Zenon DEF TotalsRecord

(* The record of a reservation.                                            *)
LEMMA ReservedEntry ==
  ASSUME NEW t, NEW a, Charged(t, a) \subseteq Accounts, NEW d, NEW w, NEW p, NEW q,
         q = [subject |-> a, task |-> t, deadline |-> d, reservedAt |-> w, epoch |-> p,
              outcome |-> "Pending", accounted |-> 0, refunded |-> 0, callbacks |-> {}]
  PROVE  /\ Sound(q) /\ q.outcome = "Pending" /\ q.task = t /\ q.subject = a
         /\ q.reservedAt = w /\ q.deadline = d
<1>1. /\ q.outcome = "Pending" /\ q.task = t /\ q.subject = a /\ q.reservedAt = w
      /\ q.deadline = d /\ q.accounted = 0 /\ q.refunded = 0
  BY Zenon
<1>2. 0 \in Nat /\ 0 <= 0
  OBVIOUS
<1> QED BY <1>1, <1>2, Zenon DEF Sound

(* operation-reserved: one more pending operation, one more envelope in    *)
(* each of its accounts, and a lease made at the reservation.              *)
LEMMA ReserveLedger ==
  ASSUME ControlInv, LedgerInv,
         NEW o \in Ops, NEW a \in Actors, NEW t \in Parents, NEW d \in Deadlines,
         NEW p \in Processes, NEW s \in samples, NEW delivered \in BOOLEAN,
         Reserve(o, a, t, d, p, s, delivered)
  PROVE  LedgerInv'
<1>1. /\ o \notin DOMAIN ops /\ s.wall < d /\ AllocationsFit(t, a)
      /\ RecordReservation(o, a, t, d, p, s.wall)
  BY Zenon DEF Reserve, Operating
<1>2. /\ DOMAIN ops' = DOMAIN ops \cup {o}
      /\ \A x \in DOMAIN ops : ops'[x] = ops[x]
      /\ ops'[o] = [subject |-> a, task |-> t, deadline |-> d,
                    reservedAt |-> s.wall, epoch |-> p, outcome |-> "Pending",
                    accounted |-> 0, refunded |-> 0, callbacks |-> {}]
  BY <1>1, Zenon DEF RecordReservation, Operating
<1>3. \A x \in Accounts :
        totals'[x] = IF x \in Charged(t, a) THEN [totals[x] EXCEPT !.reserved = @ + Envelope]
                                            ELSE totals[x]
  BY <1>1, Zenon DEF RecordReservation
<1>4. Charged(t, a) \subseteq Accounts
  BY <1>1, Zenon DEF AllocationsFit
<1>5. /\ Sound(ops'[o]) /\ ops'[o].outcome = "Pending" /\ ops'[o].task = t /\ ops'[o].subject = a
      /\ ops'[o].reservedAt = s.wall /\ ops'[o].deadline = d
  BY <1>2, <1>4, ReservedEntry
<1>6. Adds(ops, totals, o, ops', totals')
  <2>1. ASSUME NEW x \in Accounts, x \in Charged(t, a)
        PROVE  /\ totals'[x].reserved = totals[x].reserved + Envelope
               /\ totals'[x].gross = totals[x].gross /\ totals'[x].refunded = totals[x].refunded
    <3>1. PICK y \in TotalsRecord : y = totals[x]
      BY ControlTyped, Zenon
    <3>2. PICK z \in {totals'[x]} : z = [y EXCEPT !.reserved = @ + Envelope]
      BY <1>3, <2>1, <3>1, Zenon
    <3>3. z.reserved = y.reserved + Envelope /\ z.gross = y.gross /\ z.refunded = y.refunded
      BY <3>2, ReservedTotals, Zenon
    <3> QED BY <3>1, <3>2, <3>3, Zenon
  <2>2. ASSUME NEW x \in Accounts, x \notin Charged(t, a)
        PROVE  totals'[x] = totals[x]
    BY <1>3, <2>2, Zenon
  <2> QED BY <1>1, <1>2, <1>5, <2>1, <2>2, Zenon DEF Adds
<1>7. Ledger(ops', totals')
  BY <1>6, EntryAdded, Zenon DEF LedgerInv
<1>8. LeasesMadeInTime'
  <2>1. \A l \in leases' : l \in leases \/ l = LeaseOf(o, p, s)
    BY Zenon DEF Reserve
  <2>2. ASSUME NEW l \in leases' PROVE ops'[l.op].reservedAt <= l.wall /\ l.wall < ops'[l.op].deadline
    <3>1. CASE l \in leases
      <4>1. l.op \in DOMAIN ops
        BY <3>1, ControlTyped, Zenon
      <4>2. ops'[l.op] = ops[l.op]
        BY <1>2, <4>1, Zenon
      <4> QED BY <3>1, <4>2, Zenon DEF LedgerInv, LeasesMadeInTime
    <3>2. CASE l = LeaseOf(o, p, s)
      <4>1. s.wall \in Nat
        BY ControlTyped, Zenon DEF Sample
      <4>2. \A n \in Nat : n <= n
        OBVIOUS
      <4>3. l.op = o /\ l.wall = s.wall
        BY <3>2, Zenon DEF LeaseOf
      <4> QED BY <1>1, <1>5, <4>1, <4>2, <4>3, Zenon
    <3> QED BY <2>1, <2>2, <3>1, <3>2, Zenon
  <2> QED BY <2>2, Zenon DEF LeasesMadeInTime
<1> QED BY <1>7, <1>8, Zenon DEF LedgerInv

(* rebind_operation_lease makes its lease before the deadline and not      *)
(* before the reservation.                                                 *)
LEMMA RebindLedger ==
  ASSUME LedgerInv, NEW o \in Ops, NEW p \in Processes, NEW s \in samples,
         RebindOperationLease(o, p, s)
  PROVE  LedgerInv'
<1>1. /\ \A l \in leases' : l \in leases \/ l = LeaseOf(o, p, s)
      /\ ops' = ops /\ totals' = totals
      /\ ops[o].reservedAt <= s.wall /\ s.wall < ops[o].deadline
  BY Zenon DEF RebindOperationLease, controlVars
<1>2. LeaseOf(o, p, s).op = o /\ LeaseOf(o, p, s).wall = s.wall
  BY Zenon DEF LeaseOf
<1>3. LeasesMadeInTime'
  BY <1>1, <1>2, Zenon DEF LedgerInv, LeasesMadeInTime
<1>4. Ledger(ops', totals')
  BY <1>1, Zenon DEF LedgerInv
<1> QED BY <1>3, <1>4, Zenon DEF LedgerInv

(* A difference of nothing.                                                *)
LEMMA ByNothing == \A n, m \in Nat : n - m = n - m + 0 /\ n + m = n - 0 + m /\ n = n - 0 + 0
OBVIOUS

(* operation-settled: the envelope that is released in each account is the *)
(* one of the operation that is no longer pending.                         *)
LEMMA SettlementLedger ==
  ASSUME ControlInv, LedgerInv, NEW o, NEW outcome \in Outcomes, NEW meter \in Meters,
         NEW wall, NEW callbacks, NEW authority,
         Settlement(o, outcome, meter, wall, callbacks, authority), UNCHANGED leases
  PROVE  LedgerInv'
<1>1. CASE UNCHANGED <<ops, totals>>
  <2>1. leases' \subseteq leases
    BY Zenon
  <2> QED BY <1>1, <2>1, FrameLedger, Zenon
<1>2. CASE SettlementFolds(o, outcome, wall) /\ RecordSettlement(o, outcome, meter, callbacks)
  <2>1. o \in DOMAIN ops /\ ops[o].outcome = "Pending"
    BY <1>2, Zenon DEF SettlementFolds, Pending, Operating
  <2>2. ops[o] \in Operation /\ Sound(ops[o]) /\ outcome # "Pending"
    BY <2>1, ControlTyped, Zenon DEF LedgerInv, Ledger, Outcomes
  <2>3. PICK n \in Nat : n = Accounted(meter)
    <3>1. Accounted(meter) \in Nat
      BY CapabilityAssumption, ControlAssumption DEF Accounted
    <3> QED BY <3>1, Zenon
  <2>4. /\ DOMAIN ops' = DOMAIN ops
        /\ \A x \in DOMAIN ops : x # o => ops'[x] = ops[x]
        /\ ops'[o] = [ops[o] EXCEPT !.outcome = outcome, !.accounted = n,
                                    !.callbacks = @ \cup callbacks]
    BY <1>2, <2>1, <2>3, Zenon DEF RecordSettlement
  <2>5. /\ ops'[o].outcome = outcome /\ ops'[o].accounted = n
        /\ ops'[o].refunded = ops[o].refunded
        /\ ops'[o].task = ops[o].task /\ ops'[o].subject = ops[o].subject
        /\ ops'[o].reservedAt = ops[o].reservedAt /\ ops'[o].deadline = ops[o].deadline
    BY <2>2, <2>4, Zenon DEF Operation
  <2>6. /\ Held(ops[o]) = Envelope /\ Held(ops'[o]) = 0
        /\ ops[o].accounted = 0 /\ ops[o].refunded = 0
    BY <2>1, <2>2, <2>5, Zenon DEF Held, Sound
  <2>7. Sound(ops'[o])
    <3>1. 0 \in Nat /\ \A m \in Nat : 0 <= m
      OBVIOUS
    <3> QED BY <2>2, <2>5, <2>6, <3>1, Zenon DEF Sound
  <2>8. Rewrites(ops, totals, o, ops', totals')
    <3>1. \A x \in Accounts :
            totals'[x] = IF x \in Charged(ops[o].task, ops[o].subject)
                           THEN [totals[x] EXCEPT !.reserved = @ - Envelope, !.gross = @ + n]
                           ELSE totals[x]
      BY <1>2, <2>3, Zenon DEF RecordSettlement
    <3>2. ASSUME NEW x \in Accounts, x \in Charged(ops[o].task, ops[o].subject)
          PROVE  /\ totals'[x].reserved = totals[x].reserved - Held(ops[o]) + Held(ops'[o])
                 /\ totals'[x].gross = totals[x].gross - ops[o].accounted + ops'[o].accounted
                 /\ totals'[x].refunded = totals[x].refunded - ops[o].refunded + ops'[o].refunded
      <4>1. PICK y \in TotalsRecord : y = totals[x]
        BY ControlTyped, Zenon
      <4>2. PICK z \in {totals'[x]} : z = [y EXCEPT !.reserved = @ - Envelope, !.gross = @ + n]
        BY <3>1, <3>2, <4>1, Zenon
      <4>3. /\ z.reserved = y.reserved - Envelope + 0
            /\ z.gross = y.gross - 0 + n
            /\ z.refunded = y.refunded - 0 + 0
        <5>1. /\ z.reserved = y.reserved - Envelope /\ z.gross = y.gross + n
              /\ z.refunded = y.refunded
              /\ y.reserved \in Nat /\ y.gross \in Nat /\ y.refunded \in Nat
          BY <4>1, <4>2, Zenon DEF TotalsRecord
        <5>2. Envelope \in Nat /\ n \in Nat
          BY CapabilityAssumption, Zenon
        <5> QED BY <5>1, <5>2, ByNothing, Zenon
      <4> QED BY <2>5, <2>6, <4>1, <4>2, <4>3, Zenon
    <3>3. ASSUME NEW x \in Accounts, x \notin Charged(ops[o].task, ops[o].subject)
          PROVE  totals'[x] = totals[x]
      BY <3>1, <3>3, Zenon
    <3> QED BY <2>1, <2>4, <2>5, <2>7, <3>2, <3>3, Zenon DEF Rewrites
  <2>9. Ledger(ops', totals')
    BY <2>8, EntryChanges, Zenon DEF LedgerInv
  <2>10. LeasesMadeInTime'
    <3>1. leases' \subseteq leases
      BY Zenon
    <3>2. \A x \in DOMAIN ops : ops'[x].reservedAt = ops[x].reservedAt
                                /\ ops'[x].deadline = ops[x].deadline
      BY <2>4, <2>5, Zenon
    <3> QED BY <3>1, <3>2, LeasesStay, Zenon
  <2> QED BY <2>9, <2>10, Zenon DEF LedgerInv
<1> QED BY <1>1, <1>2, Zenon DEF Settlement

(* A sum is not changed by what is taken away and put back.                *)
LEMMA NothingMoves == \A n, h \in Nat : n = n - h + h
OBVIOUS

(* late-result-observed changes neither usage nor refunds nor totals.      *)
LEMMA LateLedger ==
  ASSUME ControlInv, LedgerInv, NEW l \in leases, NEW k, NEW s, NEW at,
         ObserveLateResult(l, k, s, at)
  PROVE  LedgerInv'
<1>1. totals' = totals /\ leases' = leases /\ l.op \in DOMAIN ops
  BY ControlTyped, Zenon DEF ObserveLateResult, processVars
<1>2. CASE ops' = ops
  <2>1. leases' \subseteq leases /\ UNCHANGED <<ops, totals>>
    BY <1>1, <1>2, Zenon
  <2> QED BY <2>1, FrameLedger, Zenon
<1>3. CASE ops' = [ops EXCEPT ![l.op].callbacks = @ \cup {k}]
  <2> DEFINE o == l.op
  <2>1. o \in DOMAIN ops /\ ops[o] \in Operation /\ Sound(ops[o])
    BY <1>1, ControlTyped, Zenon DEF LedgerInv, Ledger
  <2>2. /\ DOMAIN ops' = DOMAIN ops
        /\ \A x \in DOMAIN ops : x # o => ops'[x] = ops[x]
        /\ ops'[o] = [ops[o] EXCEPT !.callbacks = @ \cup {k}]
    BY <1>3, <2>1, Zenon
  <2> HIDE DEF o
  <2>3. /\ ops'[o].outcome = ops[o].outcome /\ ops'[o].accounted = ops[o].accounted
        /\ ops'[o].refunded = ops[o].refunded
        /\ ops'[o].task = ops[o].task /\ ops'[o].subject = ops[o].subject
        /\ ops'[o].reservedAt = ops[o].reservedAt /\ ops'[o].deadline = ops[o].deadline
    BY <2>1, <2>2, Zenon DEF Operation
  <2>4. Sound(ops'[o]) /\ Held(ops'[o]) = Held(ops[o])
    BY <2>1, <2>3, Zenon DEF Sound, Held
  <2>5. ASSUME NEW x \in Accounts
        PROVE  /\ totals'[x].reserved = totals[x].reserved - Held(ops[o]) + Held(ops'[o])
               /\ totals'[x].gross = totals[x].gross - ops[o].accounted + ops'[o].accounted
               /\ totals'[x].refunded = totals[x].refunded - ops[o].refunded + ops'[o].refunded
    <3>1. totals[x].reserved \in Nat /\ totals[x].gross \in Nat /\ totals[x].refunded \in Nat
      BY ControlTyped, Zenon DEF TotalsRecord
    <3>2. Held(ops[o]) \in Nat /\ ops[o].accounted \in Nat /\ ops[o].refunded \in Nat
      BY <2>1, HeldIsNumber, Zenon DEF Sound
    <3> QED BY <1>1, <2>3, <2>4, <3>1, <3>2, NothingMoves, Zenon
  <2>6. Rewrites(ops, totals, o, ops', totals')
    BY <1>1, <2>1, <2>2, <2>3, <2>4, <2>5, Zenon DEF Rewrites
  <2>7. Ledger(ops', totals')
    BY <2>6, EntryChanges, Zenon DEF LedgerInv
  <2>8. LeasesMadeInTime'
    <3>1. leases' \subseteq leases
      BY <1>1, Zenon
    <3>2. \A x \in DOMAIN ops : ops'[x].reservedAt = ops[x].reservedAt
                                /\ ops'[x].deadline = ops[x].deadline
      BY <2>2, <2>3, Zenon
    <3> QED BY <3>1, <3>2, LeasesStay, Zenon
  <2> QED BY <2>7, <2>8, Zenon DEF LedgerInv
<1> QED BY <1>2, <1>3, Zenon DEF ObserveLateResult, RecordLateCallback

(* budget-refunded: the operation and its accounts are refunded the same,  *)
(* and no more than the operation has used.                                *)
LEMMA RefundLedger ==
  ASSUME ControlInv, LedgerInv, NEW o, NEW amount \in Refunds, RefundBudget(o, amount)
  PROVE  LedgerInv'
<1>1. /\ o \in DOMAIN ops /\ ops[o].outcome # "Pending"
      /\ ops[o].refunded + amount <= ops[o].accounted
      /\ RecordRefund(o, amount) /\ leases' = leases
  BY Zenon DEF RefundBudget, Settled, Operating, processVars
<1>2. ops[o] \in Operation /\ Sound(ops[o])
  BY <1>1, ControlTyped, Zenon DEF LedgerInv, Ledger
<1>3. PICK m \in Nat : m = amount
  BY ControlAssumption, CapabilityAssumption
<1>4. /\ DOMAIN ops' = DOMAIN ops
      /\ \A x \in DOMAIN ops : x # o => ops'[x] = ops[x]
      /\ ops'[o] = [ops[o] EXCEPT !.refunded = @ + m]
  BY <1>1, <1>3, Zenon DEF RecordRefund
<1>5. /\ ops'[o].outcome = ops[o].outcome /\ ops'[o].accounted = ops[o].accounted
      /\ ops'[o].refunded = ops[o].refunded + m
      /\ ops'[o].task = ops[o].task /\ ops'[o].subject = ops[o].subject
      /\ ops'[o].reservedAt = ops[o].reservedAt /\ ops'[o].deadline = ops[o].deadline
  BY <1>2, <1>4, Zenon DEF Operation
<1>6. PICK h, c, r \in Nat : h = Held(ops[o]) /\ c = ops[o].accounted /\ r = ops[o].refunded
  BY <1>2, HeldIsNumber, Zenon DEF Sound
<1>7. Sound(ops'[o]) /\ Held(ops'[o]) = h
  <2>1. r + m \in Nat
    BY <1>3, <1>6
  <2> QED BY <1>1, <1>2, <1>3, <1>5, <1>6, <2>1, Zenon DEF Sound, Held
<1>8. Rewrites(ops, totals, o, ops', totals')
  <2>1. \A x \in Accounts :
          totals'[x] = IF x \in Charged(ops[o].task, ops[o].subject)
                         THEN [totals[x] EXCEPT !.refunded = @ + m] ELSE totals[x]
    BY <1>1, <1>3, Zenon DEF RecordRefund
  <2>2. ASSUME NEW x \in Accounts, x \in Charged(ops[o].task, ops[o].subject)
        PROVE  /\ totals'[x].reserved = totals[x].reserved - Held(ops[o]) + Held(ops'[o])
               /\ totals'[x].gross = totals[x].gross - ops[o].accounted + ops'[o].accounted
               /\ totals'[x].refunded = totals[x].refunded - ops[o].refunded + ops'[o].refunded
    <3>1. PICK y \in TotalsRecord : y = totals[x]
      BY ControlTyped, Zenon
    <3>2. PICK z \in {totals'[x]} : z = [y EXCEPT !.refunded = @ + m]
      BY <2>1, <2>2, <3>1, Zenon
    <3>3. /\ z.reserved = y.reserved - h + h
          /\ z.gross = y.gross - c + c
          /\ z.refunded = y.refunded - r + (r + m)
      <4>1. /\ z.reserved = y.reserved /\ z.gross = y.gross /\ z.refunded = y.refunded + m
            /\ y.reserved \in Nat /\ y.gross \in Nat /\ y.refunded \in Nat
        BY <3>1, <3>2, Zenon DEF TotalsRecord
      <4>2. h \in Nat /\ c \in Nat /\ r \in Nat /\ m \in Nat
        BY <1>3, <1>6, Zenon
      <4>3. y.reserved = y.reserved - h + h
        BY <4>1, <4>2, NothingMoves, Zenon
      <4>4. y.gross = y.gross - c + c
        BY <4>1, <4>2, NothingMoves, Zenon
      <4>5. y.refunded + m = y.refunded - r + (r + m)
        BY <4>1, <4>2, SMT
      <4> QED BY <4>1, <4>3, <4>4, <4>5, Zenon
    <3> QED BY <1>5, <1>6, <1>7, <3>1, <3>2, <3>3, Zenon
  <2>3. ASSUME NEW x \in Accounts, x \notin Charged(ops[o].task, ops[o].subject)
        PROVE  totals'[x] = totals[x]
    BY <2>1, <2>3, Zenon
  <2> QED BY <1>1, <1>4, <1>5, <1>7, <2>2, <2>3, Zenon DEF Rewrites
<1>9. Ledger(ops', totals')
  BY <1>8, EntryChanges, Zenon DEF LedgerInv
<1>10. LeasesMadeInTime'
  <2>1. leases' \subseteq leases
    BY <1>1, Zenon
  <2>2. \A x \in DOMAIN ops : ops'[x].reservedAt = ops[x].reservedAt
                              /\ ops'[x].deadline = ops[x].deadline
    BY <1>4, <1>5, Zenon
  <2> QED BY <2>1, <2>2, LeasesStay, Zenon
<1> QED BY <1>9, <1>10, Zenon DEF LedgerInv

(* An accepted callback is about a lease made in time, so its event folds. *)
LEMMA LeaseFolds ==
  ASSUME ControlInv, LedgerInv, NEW l \in leases, NEW s \in samples,
         VerifyLease(l, s), BeforeDeadline(l, s)
  PROVE  CallbackAuthorityFolds(l, s) /\ s.mono < DeadlineMono(l)
BY ControlTyped, Zenon DEF CallbackAuthorityFolds, VerifyLease, BeforeDeadline, LedgerInv,
                    LeasesMadeInTime, ControlInv, ControlTypeOK, Lease, Sample

(* A settlement that comes in time for an operation without cancellation   *)
(* folds: the lease, the deadline and the accounts are as                  *)
(* apply_control_event asks.                                               *)
LEMMA CompletionFolds ==
  ASSUME ControlInv, LedgerInv, NEW l \in leases, NEW k, NEW s \in samples, NEW outcome, NEW meter,
         SettleOperation(l, k, outcome, meter, s)
  PROVE  StaysReadable
<1>1. CASE CancellationApplies(ops[l.op].task, l.op)
  BY <1>1, Zenon DEF StaysReadable
<1>2. CASE ~CancellationApplies(ops[l.op].task, l.op)
  <2>1. /\ VerifyLease(l, s) /\ Pending(l.op) /\ BeforeDeadline(l, s)
        /\ outcome \notin {"Cancelled", "TimedOut"}
        /\ Settlement(l.op, SettledOutcome(outcome, meter), meter, s.wall, {k},
                      CallbackAuthorityFolds(l, s) /\ s.mono < DeadlineMono(l))
    BY <1>2, Zenon DEF SettleOperation
  <2>2. SettledOutcome(outcome, meter) \notin {"Cancelled", "TimedOut"}
    BY <2>1, Zenon DEF SettledOutcome
  <2>3. Ledger(ops, totals) /\ l.op \in DOMAIN ops /\ ops[l.op].outcome = "Pending"
    BY <2>1, Zenon DEF LedgerInv, Pending, Operating
  <2>4. \A a \in Charged(ops[l.op].task, ops[l.op].subject) : Envelope <= totals[a].reserved
    BY <2>3, EnvelopeIsHeld, Zenon
  <2>5. SettlementFolds(l.op, SettledOutcome(outcome, meter), s.wall)
    BY <1>2, <2>1, <2>2, <2>4, Zenon DEF SettlementFolds, BeforeDeadline
  <2>6. CallbackAuthorityFolds(l, s) /\ s.mono < DeadlineMono(l)
    BY <2>1, LeaseFolds, Zenon
  <2>7. UNCHANGED corrupt
    BY <2>1, <2>5, <2>6, Zenon DEF Settlement
  <2> QED BY <2>7, Zenon DEF StaysReadable
<1> QED BY <1>1, <1>2, Zenon

(* So does every timeout recovery.                                         *)
LEMMA TimeoutFolds ==
  ASSUME LedgerInv, NEW o, NEW meter, NEW s, RecoverTimeout(o, meter, s)
  PROVE  StaysReadable
<1>1. /\ Pending(o) /\ s.wall >= ops[o].deadline
      /\ Settlement(o, "TimedOut", meter, s.wall, {}, TRUE)
  BY Zenon DEF RecoverTimeout
<1>2. Ledger(ops, totals) /\ o \in DOMAIN ops /\ ops[o].outcome = "Pending"
  BY <1>1, Zenon DEF LedgerInv, Pending, Operating
<1>3. \A a \in Charged(ops[o].task, ops[o].subject) : Envelope <= totals[a].reserved
  BY <1>2, EnvelopeIsHeld, Zenon
<1>4. SettlementFolds(o, "TimedOut", s.wall)
  BY <1>1, <1>3, Zenon DEF SettlementFolds
<1>5. UNCHANGED corrupt
  BY <1>1, <1>4, Zenon DEF Settlement
<1> QED BY <1>5, Zenon DEF StaysReadable

(* Every operation of the runtime control keeps the ledger, and makes the  *)
(* stream unreadable by a callback about a cancelled or ended operation    *)
(* only.                                                                   *)
LEMMA ControlStepLedger ==
  ASSUME ControlInv, LedgerInv, ControlStep
  PROVE  LedgerInv' /\ StaysReadable
<1>1. CASE \E o \in Ops, a \in Actors, t \in Parents, d \in Deadlines, s \in samples :
             Deny(o, a, t, d, s)
  <2>1. UNCHANGED <<ops, totals, leases, corrupt>>
    BY <1>1, Zenon DEF Deny, processVars
  <2>2. UNCHANGED <<ops, totals>> /\ leases' \subseteq leases
    BY <2>1, Zenon
  <2> QED BY <2>1, <2>2, FrameLedger, Zenon DEF StaysReadable
<1>2. CASE \E o \in Ops, a \in Actors, t \in Parents, d \in Deadlines, s \in samples :
             \E p \in Processes, delivered \in BOOLEAN : Reserve(o, a, t, d, p, s, delivered)
  <2>1. UNCHANGED corrupt
    <3>1. PICK o, a, t, d, s, p, delivered : Reserve(o, a, t, d, p, s, delivered)
      BY <1>2, Zenon
    <3> QED BY <3>1, Zenon DEF Reserve
  <2>2. LedgerInv'
    BY <1>2, ReserveLedger, Zenon
  <2> QED BY <2>1, <2>2, Zenon DEF StaysReadable
<1>3. CASE \E o \in Ops, p \in Processes, s \in samples : RebindOperationLease(o, p, s)
  <2>1. UNCHANGED corrupt
    BY <1>3, Zenon DEF RebindOperationLease, controlVars
  <2>2. LedgerInv'
    BY <1>3, RebindLedger, Zenon
  <2> QED BY <2>1, <2>2, Zenon DEF StaysReadable
<1>4. CASE \E l \in leases, k \in Callbacks, s \in samples :
             \E outcome \in Outcomes, meter \in Meters : SettleOperation(l, k, outcome, meter, s)
  <2>1. PICK l \in leases, k \in Callbacks, s \in samples, outcome \in Outcomes, meter \in Meters :
          SettleOperation(l, k, outcome, meter, s)
    BY <1>4, Zenon
  <2>2. SettledOutcome(outcome, meter) \in Outcomes
    BY <2>1, Zenon DEF SettledOutcome, Outcomes
  <2>3. /\ Settlement(l.op, SettledOutcome(outcome, meter), meter, s.wall, {k},
                      CallbackAuthorityFolds(l, s) /\ s.mono < DeadlineMono(l))
        /\ UNCHANGED leases
    BY <2>1, Zenon DEF SettleOperation, processVars
  <2>4. LedgerInv'
    BY <2>2, <2>3, SettlementLedger, Zenon
  <2> QED BY <2>1, <2>4, CompletionFolds, Zenon
<1>5. CASE \E l \in leases, k \in Callbacks, s \in samples :
             \/ SettleLate(l, k, s)
             \/ \E at \in CallerStamps \cup {s.wall} : ObserveLateResult(l, k, s, at)
  <2>1. PICK l \in leases, k \in Callbacks, s \in samples : \E at : ObserveLateResult(l, k, s, at)
    BY <1>5, Zenon DEF SettleLate
  <2>2. LedgerInv'
    BY <2>1, LateLedger, Zenon
  <2>3. Settled(l.op)
    BY <2>1, Zenon DEF ObserveLateResult
  <2> QED BY <2>2, <2>3, Zenon DEF StaysReadable
<1>6. CASE \E a \in Actors, target \in CancelTargets : RequestCancellation(a, target)
  <2>1. UNCHANGED <<ops, totals, leases, corrupt>>
    BY <1>6, Zenon DEF RequestCancellation, processVars
  <2>2. UNCHANGED <<ops, totals>> /\ leases' \subseteq leases
    BY <2>1, Zenon
  <2> QED BY <2>1, <2>2, FrameLedger, Zenon DEF StaysReadable
<1>7. CASE \E l \in leases, target \in cancellations, s \in samples :
             AcknowledgeCancellation(l, target, s)
  <2>1. PICK l \in leases, target \in cancellations, s \in samples :
          AcknowledgeCancellation(l, target, s)
    BY <1>7, Zenon
  <2>2. UNCHANGED <<ops, totals, leases>> /\ CancelTargetMatches(target, ops[l.op].task, l.op)
    BY <2>1, Zenon DEF AcknowledgeCancellation, processVars
  <2>3. CancellationApplies(ops[l.op].task, l.op)
    BY <2>2, Zenon DEF CancellationApplies
  <2>4. UNCHANGED <<ops, totals>> /\ leases' \subseteq leases
    BY <2>2, Zenon
  <2> QED BY <2>3, <2>4, FrameLedger, Zenon DEF StaysReadable
<1>8. CASE \E o \in Ops, amount \in Refunds : RefundBudget(o, amount)
  <2>1. UNCHANGED corrupt
    BY <1>8, Zenon DEF RefundBudget
  <2>2. LedgerInv'
    BY <1>8, RefundLedger, Zenon
  <2> QED BY <2>1, <2>2, Zenon DEF StaysReadable
<1>9. CASE \E o \in Ops : TimeoutStep(o)
  <2>1. PICK o \in Ops, meter \in Meters, s \in samples : RecoverTimeout(o, meter, s)
    BY <1>9, Zenon DEF TimeoutStep
  <2>2. Settlement(o, "TimedOut", meter, s.wall, {}, TRUE) /\ UNCHANGED leases
    BY <2>1, Zenon DEF RecoverTimeout, processVars
  <2>3. "TimedOut" \in Outcomes
    BY Zenon DEF Outcomes
  <2>4. LedgerInv'
    BY <2>2, <2>3, SettlementLedger, Zenon
  <2> QED BY <2>1, <2>4, TimeoutFolds, Zenon
<1>10. CASE \/ Tick
            \/ \E wall \in Times : Correct(wall)
            \/ \E p \in Processes : LoseLeases(p)
  <2>1. UNCHANGED <<ops, totals, corrupt>> /\ leases' \subseteq leases
    BY <1>10, Zenon DEF Tick, Correct, LoseLeases, controlVars
  <2>2. UNCHANGED <<ops, totals>> /\ leases' \subseteq leases
    BY <2>1, Zenon
  <2> QED BY <2>1, <2>2, FrameLedger, Zenon DEF StaysReadable
<1> QED BY <1>1, <1>2, <1>3, <1>4, <1>5, <1>6, <1>7, <1>8, <1>9, <1>10, ZenonT(60) DEF ControlStep

(* So does every step: lifecycle and capability steps append nothing to    *)
(* the control stream.                                                     *)
LEMMA NextLedger ==
  ASSUME ControlInv, LedgerInv, [Next]_vars
  PROVE  LedgerInv' /\ StaysReadable
<1>1. CASE ControlStep
  BY <1>1, ControlStepLedger, Zenon
<1>2. CASE UNCHANGED <<processVars, controlVars>>
  <2>1. UNCHANGED <<ops, totals, corrupt, leases>>
    BY <1>2, Zenon DEF processVars, controlVars
  <2>2. UNCHANGED <<ops, totals>> /\ leases' \subseteq leases
    BY <2>1, Zenon
  <2> QED BY <2>1, <2>2, FrameLedger, Zenon DEF StaysReadable
<1> QED BY <1>1, <1>2, Zenon DEF Next, vars

(* There is nothing to sum up at first.                                    *)
LEMMA NothingSumsToZero == IsFiniteSet({}) /\ \A f : SumOver(f, {}) = 0
<1>1. << >> \in Seq({}) /\ \A s \in {} : \E n \in 1..Len(<< >>) : << >>[n] = s
  OBVIOUS
<1>2. IsFiniteSet({})
  BY <1>1, Zenon DEF IsFiniteSet
<1> QED BY <1>2, SumTakes, Zenon

(* The totals kept per account are the sums over the operations charged to *)
(* it (reserve_allocations against release_allocations, settlements and    *)
(* refunds), and every lease was made in time, for any number of           *)
(* operations, processes and accounts.                                     *)
THEOREM LedgerCorrect == Spec => []LedgerInv
<1>1. Init => LedgerInv
  <2> SUFFICES ASSUME ControlInit PROVE LedgerInv
    BY Zenon DEF Init
  <2>1. /\ DOMAIN ops = {} /\ leases = {}
        /\ \A a \in Accounts : /\ totals[a].reserved = 0
                               /\ totals[a].gross = 0 /\ totals[a].refunded = 0
    BY Zenon DEF ControlInit
  <2>2. \A a : Charges(ops, a) = {}
    BY <2>1, Zenon DEF Charges
  <2>3. IsFiniteSet({}) /\ \A f : SumOver(f, {}) = 0
    BY NothingSumsToZero, Zenon
  <2>4. \A a \in Accounts : Balanced(ops, totals[a], a)
    BY <2>1, <2>2, <2>3, Zenon DEF Balanced
  <2>5. \A o \in DOMAIN ops : Sound(ops[o])
    BY <2>1, Zenon
  <2> QED BY <2>1, <2>3, <2>4, <2>5, Zenon DEF LedgerInv, Ledger, LeasesMadeInTime
<1>2. ControlInv /\ LedgerInv /\ [Next]_vars => LedgerInv'
  BY NextLedger, Zenon
<1> QED BY <1>1, <1>2, ControlCorrect, PTL DEF Spec

(* The books balance: the reserved, used and refunded totals of an account *)
(* are exactly those of the operations charged to it, and no more is       *)
(* refunded than was used, whatever the order of reservations,             *)
(* settlements, timeouts, late callbacks and refunds.                      *)
THEOREM BooksAlwaysBalance == Spec => []BooksBalance
<1>1. LedgerInv => BooksBalance
  <2> SUFFICES ASSUME LedgerInv, NEW a \in Accounts
               PROVE  /\ totals[a].reserved =
                           SumOver([o \in Operating |-> IF Pending(o) THEN Envelope ELSE 0],
                                   ChargedTo(a))
                      /\ totals[a].gross =
                           SumOver([o \in Operating |-> ops[o].accounted], ChargedTo(a))
                      /\ totals[a].refunded =
                           SumOver([o \in Operating |-> ops[o].refunded], ChargedTo(a))
                      /\ totals[a].refunded <= totals[a].gross
    BY Zenon DEF BooksBalance
  <2>1. Charges(ops, a) = ChargedTo(a)
    BY Zenon DEF Charges, ChargedTo, Operating
  <2>2. HeldBy(ops) = [o \in Operating |-> IF Pending(o) THEN Envelope ELSE 0]
    BY Zenon DEF HeldBy, Held, Pending, Operating
  <2>3. UsedBy(ops) = [o \in Operating |-> ops[o].accounted]
    BY Zenon DEF UsedBy, Operating
  <2>4. ReturnedTo(ops) = [o \in Operating |-> ops[o].refunded]
    BY Zenon DEF ReturnedTo, Operating
  <2>5. Ledger(ops, totals) /\ Balanced(ops, totals[a], a)
    BY Zenon DEF LedgerInv, Ledger
  <2>6. totals[a].refunded <= totals[a].gross
    BY <2>5, RefundsAreCovered, Zenon
  <2>7. /\ totals[a].reserved = SumOver(HeldBy(ops), Charges(ops, a))
        /\ totals[a].gross = SumOver(UsedBy(ops), Charges(ops, a))
        /\ totals[a].refunded = SumOver(ReturnedTo(ops), Charges(ops, a))
    BY <2>5, Zenon DEF Balanced
  <2> QED BY <2>1, <2>2, <2>3, <2>4, <2>6, <2>7, Zenon
<1> QED BY <1>1, LedgerCorrect, PTL

(* An event that apply_control_event rejects is only ever appended by a    *)
(* callback about an operation that was cancelled or has ended.            *)
THEOREM OnlyCallbacksCorrupt == Spec => UnreadableOnlyByCallbacks
<1>1. ControlInv /\ LedgerInv /\ [Next]_vars => [StaysReadable]_vars
  BY NextLedger, Zenon
<1>2. Spec => [][StaysReadable]_vars
  BY <1>1, ControlCorrect, LedgerCorrect, PTL DEF Spec
<1> QED BY <1>2, Zenon DEF UnreadableOnlyByCallbacks, StaysReadable
=============================================================================
