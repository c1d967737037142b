---------------------------- MODULE BerthProofs ----------------------------
(***************************************************************************)
(* Theorems of BAPSolver, for every complete dataset, every project and    *)
(* parameter file and all three partitioners: what the partitioners record *)
(* of vessels and sections is consistent, no section is ever overfull, and *)
(* the annealing reports the best solution it has met, at its true cost.   *)
(*                                                                         *)
(* The argument: the sweep over the schedule puts all the vessels that are *)
(* at the terminal together into one time zone, so that a section with     *)
(* room in each zone has room at each moment; every step of a partitioner  *)
(* keeps the copies of a solution that fits; the cost that is kept in a    *)
(* vector is the cost computed from the copies.                            *)
(***************************************************************************)
EXTENDS BAPSolver, FiniteSetTheorems, SequenceTheorems, WellFoundedInduction, TLAPS

(***************************************************************************)
(* Numbers, sets of numbers and sums.                                      *)
(***************************************************************************)

\* Every nonempty set of numbers has a smallest one.
LEMMA Smallest ==
  ASSUME NEW T \in SUBSET Nat, T # {}
  PROVE  \E n \in T : \A m \in T : n <= m
<1> DEFINE R == {ss \in Nat \X Nat : ss[1] < ss[2]}
<1>1. IsWellFoundedOn(R, Nat)
  BY NatLessThanWellFounded, Zenon DEF OpToRel
<1>2. PICK n \in T : \A m \in T : ~(<<m, n>> \in R)
  <2> HIDE DEF R
  <2> QED
    BY <1>1, WFMin
<1>3. ASSUME NEW m \in T, m < n
      PROVE  FALSE
  <2> DEFINE mn == <<m, n>>
  <2>1. mn \in Nat \X Nat /\ mn[1] = m /\ mn[2] = n
    OBVIOUS
  <2>2. mn \notin R
    BY <1>2
  <2> HIDE DEF mn
  <2>3. mn \in R
    BY <1>3, <2>1
  <2> QED
    BY <2>2, <2>3
<1> QED
  BY <1>3

\* Induction: a set of numbers that has n whenever it has all the smaller ones.
LEMMA Induction ==
  ASSUME NEW B \in SUBSET Nat,
         \A n \in Nat : (\A m \in Nat : m < n => m \in B) => n \in B
  PROVE  \A n \in Nat : n \in B
<1> SUFFICES ASSUME Nat \ B # {}
             PROVE  FALSE
  OBVIOUS
<1>1. PICK n \in Nat \ B : \A m \in Nat \ B : n <= m
  <2>1. Nat \ B \in SUBSET Nat
    OBVIOUS
  <2> QED
    BY <2>1, Smallest
<1> QED
  BY <1>1

(* Sums.  SumFunctionOnSet() takes the elements in an order that nothing   *)
(* says anything about; the lemmas say that the order does not matter.     *)

\* The element that SumFunctionOnSet() takes next, and what it leaves.
Pick(s) == CHOOSE e \in s : TRUE
Rest(s) == s \ {Pick(s)}

\* What the recursive function inside SumFunctionOnSet() is to satisfy.
Sums(g, f, Dom) == g = [s \in Dom |-> IF s = {} THEN 0 ELSE f[Pick(s)] + g[Rest(s)]]

\* The subsets of S of at most n elements.
UpTo(S, n) == {s \in SUBSET S : Cardinality(s) <= n}

\* Taking an element out leaves a smaller set.
LEMMA RestFacts ==
  \A S : \A s \in SUBSET S :
    IsFiniteSet(S) => /\ IsFiniteSet(s) /\ Cardinality(s) \in Nat
                      /\ Cardinality(s) <= Cardinality(S)
                      /\ (s = {} <=> Cardinality(s) = 0)
                      /\ s # {} => /\ Pick(s) \in s
                                   /\ Rest(s) \in SUBSET s
                                   /\ Rest(s) \in SUBSET S
                                   /\ Cardinality(Rest(s)) = Cardinality(s) - 1
<1> SUFFICES ASSUME NEW S, NEW s \in SUBSET S, IsFiniteSet(S)
             PROVE  /\ IsFiniteSet(s) /\ Cardinality(s) \in Nat
                    /\ Cardinality(s) <= Cardinality(S)
                    /\ (s = {} <=> Cardinality(s) = 0)
                    /\ s # {} => /\ Pick(s) \in s
                                 /\ Rest(s) \in SUBSET s
                                 /\ Rest(s) \in SUBSET S
                                 /\ Cardinality(Rest(s)) = Cardinality(s) - 1
  OBVIOUS
<1>1. IsFiniteSet(s) /\ Cardinality(s) <= Cardinality(S)
  BY FS_Subset
<1>2. Cardinality(s) \in Nat /\ (s = {} <=> Cardinality(s) = 0)
  BY <1>1, FS_CardinalityType, FS_EmptySet
<1>3. ASSUME s # {}
      PROVE  Pick(s) \in s
  BY <1>3 DEF Pick
<1>4. ASSUME s # {}
      PROVE  Cardinality(Rest(s)) = Cardinality(s) - 1
  BY <1>1, <1>3, <1>4, FS_RemoveElement DEF Rest
<1> QED
  BY <1>1, <1>2, <1>3, <1>4 DEF Rest

\* There is such a recursive function, by induction over the size of the set.
LEMMA SumsExists ==
  ASSUME NEW f, NEW S, IsFiniteSet(S)
  PROVE  \E g : Sums(g, f, SUBSET S)
<1> DEFINE P(n) == \E g : Sums(g, f, UpTo(S, n))
<1>1. P(0)
  <2>1. \A s \in UpTo(S, 0) : s = {}
    BY RestFacts DEF UpTo
  <2>2. Sums([s \in UpTo(S, 0) |-> 0], f, UpTo(S, 0))
    BY <2>1 DEF Sums
  <2> QED
    BY <2>2
<1>2. ASSUME NEW n \in Nat, P(n)
      PROVE  P(n + 1)
  <2>1. PICK g : Sums(g, f, UpTo(S, n))
    BY <1>2
  <2> DEFINE h == [s \in UpTo(S, n + 1) |-> IF s = {} THEN 0 ELSE f[Pick(s)] + g[Rest(s)]]
  <2>2. ASSUME NEW s \in UpTo(S, n + 1), s # {}
        PROVE  h[Rest(s)] = g[Rest(s)]
    <3>1. Rest(s) \in UpTo(S, n) /\ Rest(s) \in UpTo(S, n + 1)
      BY <2>2, RestFacts DEF UpTo
    <3> QED
      BY <2>1, <3>1 DEF Sums
  <2>3. h = [s \in UpTo(S, n + 1) |-> IF s = {} THEN 0 ELSE f[Pick(s)] + h[Rest(s)]]
    BY <2>2, Zenon
  <2> HIDE DEF h
  <2> QED
    BY <2>3 DEF Sums
<1>3. \A n \in Nat : P(n)
  <2> SUFFICES ASSUME NEW m \in Nat, ~P(m)
               PROVE  FALSE
    OBVIOUS
  <2> DEFINE Bad == {n \in Nat : ~P(n)}
  <2> HIDE DEF P
  <2>1. PICK n \in Bad : \A k \in Bad : n <= k
    BY Smallest
  <2>2. n \in Nat /\ n # 0 /\ ~P(n)
    BY <1>1, <2>1
  <2>3. n - 1 \in Nat /\ n - 1 \notin Bad /\ (n - 1) + 1 = n
    BY <2>1, <2>2
  <2> QED
    BY <1>2, <2>2, <2>3
<1>4. UpTo(S, Cardinality(S)) = SUBSET S /\ Cardinality(S) \in Nat
  BY RestFacts, FS_CardinalityType DEF UpTo
<1> QED
  BY <1>3, <1>4

\* The same for all subsets of S.
Solves(g, f, S) == Sums(g, f, SUBSET S)

\* A solution on the subsets of S agrees with one on those of T \subseteq S.
LEMMA SumsUnique ==
  ASSUME NEW f, NEW S, IsFiniteSet(S), NEW T \in SUBSET S, NEW g, NEW h,
         Solves(g, f, S), Solves(h, f, T)
  PROVE  \A s \in SUBSET T : g[s] = h[s]
<1> SUFFICES ASSUME NEW s0 \in SUBSET T, g[s0] # h[s0]
             PROVE  FALSE
  OBVIOUS
<1> DEFINE Bad == {n \in Nat : \E s \in SUBSET T : Cardinality(s) = n /\ g[s] # h[s]}
<1>0. \A s \in SUBSET T : s \in SUBSET S
  OBVIOUS
<1>1. Cardinality(s0) \in Bad
  BY <1>0, RestFacts
<1>2. PICK n \in Bad : \A k \in Bad : n <= k
  BY <1>1, Smallest
<1>3. PICK s \in SUBSET T : Cardinality(s) = n /\ g[s] # h[s]
  BY <1>2
<1>4. s # {}
  BY <1>0, <1>3 DEF Solves, Sums
<1>5. /\ g[s] = f[Pick(s)] + g[Rest(s)] /\ h[s] = f[Pick(s)] + h[Rest(s)]
  BY <1>0, <1>4 DEF Solves, Sums
<1>6. g[Rest(s)] # h[Rest(s)]
  BY <1>3, <1>5
<1>7. /\ Rest(s) \in SUBSET T /\ Cardinality(Rest(s)) \in Nat
      /\ Cardinality(Rest(s)) = n - 1 /\ n \in Nat
  <2>1. n \in Nat
    BY <1>2
  <2>2. Rest(s) \in SUBSET s /\ Cardinality(Rest(s)) = Cardinality(s) - 1
    BY <1>0, <1>4, RestFacts
  <2>3. Rest(s) \in SUBSET T /\ Rest(s) \in SUBSET S
    BY <2>2
  <2> QED
    BY <1>3, <2>1, <2>2, <2>3, RestFacts
<1>8. n - 1 \in Bad
  BY <1>6, <1>7
<1> QED
  BY <1>2, <1>7, <1>8

\* SumFunctionOnSet() is the value of such a function.
LEMMA SumSolution ==
  ASSUME NEW f, NEW S, IsFiniteSet(S)
  PROVE  \E g : Solves(g, f, S) /\ SumFunctionOnSet(f, S) = g[S]
<1> DEFINE Q(g) == g = [s \in SUBSET S |-> IF s = {} THEN 0
                          ELSE f[CHOOSE e \in s : TRUE] + g[s \ {CHOOSE e \in s : TRUE}]]
<1>1. SumFunctionOnSet(f, S) = (CHOOSE g : Q(g))[S]
  BY Zenon DEF SumFunctionOnSet, FoldFunctionOnSet, MapThenFoldSet
<1>2. \A g : Q(g) <=> Solves(g, f, S)
  BY DEF Solves, Sums, Pick, Rest
<1>3. \E g : Q(g)
  <2> HIDE DEF Q
  <2> QED
    BY <1>2, SumsExists DEF Solves
<1>4. Q(CHOOSE g : Q(g))
  <2> HIDE DEF Q
  <2> QED
    BY <1>3, Zenon
<1> HIDE DEF Q
<1> QED
  BY <1>1, <1>2, <1>4

\* The sum over nothing, and the sum of an element and the rest.
LEMMA SumEmpty == \A f : SumFunctionOnSet(f, {}) = 0
<1> SUFFICES ASSUME NEW f
             PROVE  SumFunctionOnSet(f, {}) = 0
  OBVIOUS
<1>1. PICK g : Solves(g, f, {}) /\ SumFunctionOnSet(f, {}) = g[{}]
  BY SumSolution, FS_EmptySet
<1> QED
  BY <1>1 DEF Solves, Sums

LEMMA SumRest ==
  ASSUME NEW f, NEW S, IsFiniteSet(S), S # {}
  PROVE  SumFunctionOnSet(f, S) = f[Pick(S)] + SumFunctionOnSet(f, Rest(S))
<1>1. PICK g : Solves(g, f, S) /\ SumFunctionOnSet(f, S) = g[S]
  BY SumSolution
<1>2. PICK T : T = Rest(S)
  OBVIOUS
<1>3. T \in SUBSET S /\ IsFiniteSet(T)
  <2>1. T \in SUBSET S
    BY <1>2 DEF Rest
  <2> QED
    BY <2>1, FS_Subset
<1>4. PICK h : Solves(h, f, T) /\ SumFunctionOnSet(f, T) = h[T]
  BY <1>3, SumSolution
<1>5. \A s \in SUBSET T : g[s] = h[s]
  BY <1>1, <1>3, <1>4, SumsUnique
<1>6. g[S] = f[Pick(S)] + g[T]
  BY <1>1, <1>2 DEF Solves, Sums
<1> QED
  BY <1>1, <1>2, <1>4, <1>5, <1>6

\* The elements may be taken out in any order.
LEMMA SumAnyOrder ==
  ASSUME NEW f, NEW S0, IsFiniteSet(S0), \A b \in S0 : f[b] \in Int
  PROVE  /\ SumFunctionOnSet(f, S0) \in Int
         /\ \A a \in S0 : /\ SumFunctionOnSet(f, S0 \ {a}) \in Int
                          /\ SumFunctionOnSet(f, S0) = f[a] + SumFunctionOnSet(f, S0 \ {a})
<1> DEFINE Sum(s) == SumFunctionOnSet(f, s)
           Typed(s) == Sum(s) \in Int
           AnyOrder(s) == \A a \in s : Sum(s) = f[a] + Sum(s \ {a})
           Size(n) == \A s \in SUBSET S0 : Cardinality(s) = n => Typed(s) /\ AnyOrder(s)
           Bad == {n \in Nat : ~Size(n)}
<1>1. Sum({}) = 0
  BY SumEmpty
<1>2. \A s \in SUBSET S0 : s # {} => Sum(s) = f[Pick(s)] + Sum(Rest(s))
  <2> SUFFICES ASSUME NEW s \in SUBSET S0, s # {}
               PROVE  Sum(s) = f[Pick(s)] + Sum(Rest(s))
    OBVIOUS
  <2>1. IsFiniteSet(s)
    BY FS_Subset
  <2> QED
    BY <2>1, SumRest
<1> HIDE DEF Sum
<1>3. ASSUME NEW n \in Nat, \A m \in Nat : m < n => Size(m)
      PROVE  Size(n)
  <2> SUFFICES ASSUME NEW s \in SUBSET S0, Cardinality(s) = n
               PROVE  Typed(s) /\ AnyOrder(s)
    OBVIOUS
  <2>1. CASE s = {}
    BY <1>1, <2>1
  <2>2. CASE s # {}
    <3>1. /\ Pick(s) \in s /\ Rest(s) \in SUBSET S0 /\ Cardinality(Rest(s)) = n - 1
          /\ n - 1 \in Nat /\ n - 1 < n
      BY <2>2, RestFacts
    <3>2. Typed(Rest(s)) /\ AnyOrder(Rest(s))
      BY <1>3, <3>1
    <3>3. Typed(s)
      BY <1>2, <2>2, <3>1, <3>2
    <3>4. ASSUME NEW a \in s
          PROVE  Sum(s) = f[a] + Sum(s \ {a})
      <4>1. CASE a = Pick(s)
        BY <1>2, <2>2, <4>1 DEF Rest
      <4>2. CASE a # Pick(s)
        <5>1. PICK c, r, t, u : c = Pick(s) /\ r = Rest(s) /\ t = s \ {a} /\ u = r \ {a}
          OBVIOUS
        <5>2. /\ t \in SUBSET S0 /\ Cardinality(t) = n - 1 /\ c \in t /\ t \ {c} = u
              /\ a \in r /\ u \in SUBSET S0
          <6>1. IsFiniteSet(s) 
            BY FS_Subset
          <6>2. Cardinality(s \ {a}) = n - 1
            BY <6>1, FS_RemoveElement
          <6> QED
            BY <3>1, <4>2, <5>1, <6>2 DEF Rest
        <5>3. Sum(s) = f[c] + Sum(r) /\ Sum(r) = f[a] + Sum(u)
          BY <1>2, <2>2, <3>2, <5>1, <5>2
        <5>4. AnyOrder(t) /\ Typed(t)
          BY <1>3, <3>1, <5>2
        <5>5. Sum(t) = f[c] + Sum(u)
          BY <5>2, <5>4
        <5>6. Sum(u) \in Int
          <6>1. Cardinality(u) \in Nat /\ Cardinality(u) < n
            BY <3>1, <5>2, RestFacts, FS_Subset, FS_RemoveElement
          <6> QED
            BY <1>3, <5>2, <6>1
        <5>7. f[a] \in Int /\ f[c] \in Int
          BY <3>1, <5>1
        <5> QED
          BY <5>1, <5>3, <5>5, <5>6, <5>7
      <4> QED
        BY <4>1, <4>2
    <3> QED
      BY <3>3, <3>4
  <2> QED
    BY <2>1, <2>2
<1>4. \A n \in Nat : Size(n)
  <2> SUFFICES ASSUME NEW m \in Nat, ~Size(m)
               PROVE  FALSE
    OBVIOUS
  <2> HIDE DEF Size
  <2>1. PICK n \in Bad : \A k \in Bad : n <= k
    BY Smallest
  <2>2. \A k \in Nat : k < n => Size(k)
    BY <2>1
  <2> QED
    BY <1>3, <2>1, <2>2
<1>5. \A s \in SUBSET S0 : Cardinality(s) \in Nat
  BY RestFacts
<1>6. Typed(S0) /\ AnyOrder(S0) /\ \A a \in S0 : Typed(S0 \ {a})
  BY <1>4, <1>5
<1> QED
  BY <1>6 DEF Sum

\* A sum of integers is an integer.
LEMMA SumInt ==
  ASSUME NEW f, NEW S, IsFiniteSet(S), \A b \in S : f[b] \in Int
  PROVE  SumFunctionOnSet(f, S) \in Int
BY SumAnyOrder

\* A sum is that of any one element and the others.
LEMMA SumRemove ==
  ASSUME NEW f, NEW S, IsFiniteSet(S), \A b \in S : f[b] \in Int, NEW a \in S
  PROVE  SumFunctionOnSet(f, S) = f[a] + SumFunctionOnSet(f, S \ {a})
BY SumAnyOrder

\* Of natural numbers, more have no smaller sum.
LEMMA SumMonotone ==
  ASSUME NEW f, NEW S, IsFiniteSet(S), \A b \in S : f[b] \in Nat, NEW T \in SUBSET S
  PROVE  0 <= SumFunctionOnSet(f, T) /\ SumFunctionOnSet(f, T) <= SumFunctionOnSet(f, S)
<1> DEFINE Sum(s) == SumFunctionOnSet(f, s)
           Grows(n) == \A s \in SUBSET S : Cardinality(s) = n
                         => \A t \in SUBSET s : Sum(t) <= Sum(s)
           B == {n \in Nat : Grows(n)}
<1>1. \A s \in SUBSET S : Sum(s) \in Int
  <2> SUFFICES ASSUME NEW s \in SUBSET S
               PROVE  Sum(s) \in Int
    OBVIOUS
  <2> QED
    BY FS_Subset, SumInt
<1>2. ASSUME NEW s \in SUBSET S, NEW a \in s
      PROVE  Sum(s) = f[a] + Sum(s \ {a})
  <2>1. IsFiniteSet(s) /\ a \in s /\ \A b \in s : f[b] \in Int
    BY FS_Subset
  <2> QED
    BY <2>1, SumRemove
<1>3. Sum({}) = 0
  BY SumEmpty
<1> HIDE DEF Sum
<1>4. ASSUME NEW n \in Nat, \A m \in Nat : m < n => m \in B
      PROVE  n \in B
  <2> SUFFICES ASSUME NEW s \in SUBSET S, Cardinality(s) = n, NEW t \in SUBSET s
               PROVE  Sum(t) <= Sum(s)
    OBVIOUS
  <2>1. CASE t = s
    BY <1>1, <2>1
  <2>2. CASE t # s
    <3>1. PICK a \in s : a \notin t
      BY <2>2
    <3>2. PICK r : r = s \ {a}
      OBVIOUS
    <3>3. /\ r \in SUBSET S /\ t \in SUBSET r /\ Cardinality(r) = n - 1 /\ n # 0
          /\ n - 1 \in Nat
      <4>1. IsFiniteSet(s)
        BY FS_Subset
      <4>2. Cardinality(s \ {a}) = n - 1 /\ n # 0
        BY <4>1, FS_RemoveElement, FS_EmptySet
      <4> QED
        BY <3>1, <3>2, <4>2
    <3>4. Sum(t) <= Sum(r)
      BY <1>4, <3>3
    <3>5. Sum(s) = f[a] + Sum(r) /\ f[a] \in Nat
      BY <1>2, <3>2
    <3>6. Sum(t) \in Int /\ Sum(r) \in Int /\ Sum(s) \in Int
      <4>1. t \in SUBSET S
        OBVIOUS
      <4> QED
        BY <1>1, <3>3, <4>1
    <3> QED
      BY <3>4, <3>5, <3>6
  <2> QED
    BY <2>1, <2>2
<1>5. \A n \in Nat : n \in B
  <2> HIDE DEF B
  <2>1. B \in SUBSET Nat
    BY DEF B
  <2> QED
    BY <1>4, <2>1, Induction
<1>6. \A s, t \in SUBSET S : t \in SUBSET s => Sum(t) <= Sum(s)
  <2> SUFFICES ASSUME NEW s \in SUBSET S, NEW t \in SUBSET s
               PROVE  Sum(t) <= Sum(s)
    OBVIOUS
  <2>1. Cardinality(s) \in Nat
    BY FS_Subset, FS_CardinalityType
  <2> QED
    BY <1>5, <2>1
<1>7. {} \in SUBSET T /\ S \in SUBSET S /\ T \in SUBSET S
  OBVIOUS
<1> QED
  BY <1>3, <1>6, <1>7 DEF Sum

(***************************************************************************)
(* Sections.  The record of a section that holds the vessels T.            *)
(***************************************************************************)

\* The time zones in which vessel i is there.
Zones(p, i) == StartTimeZone(p, i)..EndTimeZone(p, i)

\* What the vessels T need of a section in time zone z.
Needed(p, T, z) == SumFunctionOnSet(p.ves.length, {i \in T : z \in Zones(p, i)})

\* The vessels T are never longer together than section k.
Fits(p, k, T) == \A z \in 1..NumTimeZones(p) : Needed(p, T, z) <= p.sect.length[k]

\* The copy of section k that holds the vessels T.
Holding(p, k, T) ==
  [ID |-> k, length |-> p.sect.length[k], vessels |-> T, sound |-> TRUE,
   capacity |-> [z \in 1..NumTimeZones(p) |-> p.sect.length[k] - Needed(p, T, z)]]

\* What the proofs need to know of a package.
Usable(p) ==
  /\ NumVessels(p) \in Nat /\ NumSections(p) \in Nat /\ NumTimeZones(p) \in Nat
  /\ \A i \in VesselIDs(p) : /\ p.ves.length[i] \in Nat /\ p.ves.departure[i] \in Int
                             /\ Zones(p, i) \in SUBSET (1..NumTimeZones(p))
  /\ \A k \in SectionIDs(p) : p.sect.length[k] \in Nat

\* v is the working copy of vessel i.
Copy(p, i, v) == v.ID = i /\ v.length = p.ves.length[i] /\ v.zones = Zones(p, i)

\* Sets of vessels are finite, so that sums over them are defined.
LEMMA VesselsFinite ==
  \A p : Usable(p) => \A T \in SUBSET VesselIDs(p) : IsFiniteSet(T)
<1> SUFFICES ASSUME NEW p, Usable(p), NEW T \in SUBSET VesselIDs(p)
             PROVE  IsFiniteSet(T)
  OBVIOUS
<1>1. IsFiniteSet(VesselIDs(p))
  BY FS_Interval DEF VesselIDs, Usable
<1> QED
  BY <1>1, FS_Subset

\* S is T without the vessel i, which needs a share of every zone it is there.
OneLess(S, T, i) == i \in T /\ S = T \ {i}
Share(p, i, z) == IF z \in Zones(p, i) THEN p.ves.length[i] ELSE 0

\* What no vessels, fewer vessels and one vessel less need.
LEMMA NeededNone ==
  ASSUME NEW p, NEW z
  PROVE  Needed(p, {}, z) = 0
<1>1. {i \in {} : z \in Zones(p, i)} = {}
  OBVIOUS
<1> QED
  BY <1>1, SumEmpty DEF Needed

LEMMA NeededNat ==
  ASSUME NEW p, Usable(p), NEW T \in SUBSET VesselIDs(p), NEW z
  PROVE  Needed(p, T, z) \in Nat
<1> DEFINE len == p.ves.length
           At == {i \in T : z \in Zones(p, i)}
<1>1. IsFiniteSet(At) /\ \A i \in At : len[i] \in Nat
  BY VesselsFinite DEF Usable
<1>2. SumFunctionOnSet(len, At) \in Int /\ 0 <= SumFunctionOnSet(len, At)
  <2> HIDE DEF At, len
  <2>1. \A i \in At : len[i] \in Int
    BY <1>1
  <2> QED
    BY <1>1, <2>1, SumInt, SumMonotone
<1> QED
  BY <1>2 DEF Needed

LEMMA NeededFewer ==
  ASSUME NEW p, Usable(p), NEW T \in SUBSET VesselIDs(p), NEW z, NEW S \in SUBSET T
  PROVE  Needed(p, S, z) <= Needed(p, T, z)
<1> DEFINE len == p.ves.length
           At(U) == {i \in U : z \in Zones(p, i)}
<1>1. IsFiniteSet(At(T)) /\ \A i \in At(T) : len[i] \in Nat
  BY VesselsFinite DEF Usable
<1>2. At(S) \in SUBSET At(T)
  OBVIOUS
<1>3. SumFunctionOnSet(len, At(S)) <= SumFunctionOnSet(len, At(T))
  BY <1>1, <1>2, SumMonotone
<1> QED
  BY <1>3 DEF Needed

LEMMA NeededOneLess ==
  ASSUME NEW p, Usable(p), NEW T \in SUBSET VesselIDs(p), NEW z, NEW S, NEW i,
         OneLess(S, T, i)
  PROVE  Needed(p, T, z) = Needed(p, S, z) + Share(p, i, z)
<1> DEFINE len == p.ves.length
           At(U) == {c \in U : z \in Zones(p, c)}
<1>1. IsFiniteSet(At(T)) /\ \A c \in At(T) : len[c] \in Nat
  BY VesselsFinite DEF Usable
<1>2. Needed(p, T, z) \in Nat
  BY NeededNat
<1>3. CASE z \in Zones(p, i)
  <2>1. i \in At(T) /\ At(S) = At(T) \ {i}
    BY <1>3 DEF OneLess
  <2>2. Needed(p, T, z) = SumFunctionOnSet(len, At(T))
        /\ Needed(p, S, z) = SumFunctionOnSet(len, At(S))
    BY Zenon DEF Needed
  <2>3. \A c \in At(T) : len[c] \in Int
    BY <1>1
  <2> HIDE DEF At
  <2>4. SumFunctionOnSet(len, At(T)) = len[i] + SumFunctionOnSet(len, At(T) \ {i})
    BY <1>1, <2>1, <2>3, SumRemove
  <2>5. Needed(p, T, z) = len[i] + Needed(p, S, z)
    BY <2>1, <2>2, <2>4, Zenon
  <2>6. Needed(p, S, z) \in Int
    <3>1. IsFiniteSet(At(S)) /\ \A c \in At(S) : len[c] \in Int
      BY <1>1, <2>1, <2>3, FS_RemoveElement
    <3> QED
      BY <2>2, <3>1, SumInt
  <2>7. len[i] \in Int
    BY <2>1, <2>3
  <2>8. Share(p, i, z) = len[i]
    BY <1>3 DEF Share
  <2> HIDE DEF len
  <2> QED
    BY <2>5, <2>6, <2>7, <2>8
<1>4. CASE z \notin Zones(p, i)
  <2>1. At(S) = At(T)
    BY <1>4 DEF OneLess
  <2>2. Needed(p, S, z) = Needed(p, T, z)
    BY <2>1, Zenon DEF Needed
  <2>3. Share(p, i, z) = 0
    BY <1>4 DEF Share
  <2> QED
    BY <1>2, <2>2, <2>3
<1> QED
  BY <1>3, <1>4

LEMMA AddedTo ==
  ASSUME NEW p, Usable(p), NEW k \in SectionIDs(p), NEW T \in SUBSET VesselIDs(p),
         NEW S, NEW i, OneLess(S, T, i),
         NEW v, Copy(p, i, v), Fits(p, k, T)
  PROVE  AddVessel(Holding(p, k, S), v) = Holding(p, k, T)
<1> DEFINE Zone == 1..NumTimeZones(p)
           len == p.sect.length[k]
           cap == [z \in Zone |-> len - Needed(p, T, z)]
<1>1. i \in T /\ S = T \ {i} /\ S \in SUBSET VesselIDs(p)
  BY DEF OneLess
<1>2. PICK s : s = Holding(p, k, S)
  OBVIOUS
<1>3. /\ s.ID = k /\ s.length = len /\ s.vessels = S /\ s.sound = TRUE
      /\ DOMAIN s.capacity = Zone /\ \A z \in Zone : s.capacity[z] = len - Needed(p, S, z)
  BY <1>2 DEF Holding
<1>4. /\ len \in Nat /\ i \in VesselIDs(p) /\ v.length \in Nat /\ v.zones \in SUBSET Zone
  BY <1>1 DEF Usable, Copy
<1>5. ASSUME NEW z \in Zone
      PROVE  s.capacity[z] - (IF z \in v.zones THEN v.length ELSE 0) = len - Needed(p, T, z)
  <2>1. Needed(p, T, z) = Needed(p, S, z) + Share(p, i, z) /\ Needed(p, T, z) \in Nat
    BY NeededOneLess, NeededNat
  <2>2. Needed(p, S, z) \in Nat
    BY <1>1, NeededNat
  <2> QED
    BY <1>3, <1>4, <2>1, <2>2 DEF Copy, Share
<1>6. [z \in DOMAIN s.capacity |-> s.capacity[z] - IF z \in v.zones THEN v.length ELSE 0] = cap
  BY <1>3, <1>5
<1>7. \A z \in v.zones : cap[z] >= 0
  <2>1. ASSUME NEW z \in v.zones
        PROVE  cap[z] >= 0
    <3>1. Needed(p, T, z) \in Nat /\ Needed(p, T, z) <= len
      BY <1>4, NeededNat DEF Fits
    <3> QED
      BY <1>4, <3>1
  <2> HIDE DEF cap
  <2> QED
    BY <2>1
<1>8. i \notin S /\ S \cup {i} = T
  BY <1>1
<1>9. AddVessel(s, v) = [s EXCEPT !.capacity = cap, !.vessels = T, !.sound = TRUE]
  <2> HIDE DEF cap
  <2> QED
    BY <1>3, <1>6, <1>7, <1>8 DEF AddVessel, Copy
<1>10. Holding(p, k, T) = [ID |-> k, length |-> len, vessels |-> T, sound |-> TRUE,
                           capacity |-> cap]
  BY DEF Holding
<1>11. PICK c : s = [ID |-> k, length |-> len, vessels |-> S, sound |-> TRUE, capacity |-> c]
  BY <1>2 DEF Holding
<1>12. AddVessel(s, v) = Holding(p, k, T)
  <2> HIDE DEF cap, len
  <2> QED
    BY <1>9, <1>10, <1>11
<1> QED
  BY <1>2, <1>12

\* RemoveVessel() of one of the vessels.
LEMMA RemovedFrom ==
  ASSUME NEW p, Usable(p), NEW k \in SectionIDs(p), NEW T \in SUBSET VesselIDs(p),
         NEW S, NEW i, OneLess(S, T, i),
         NEW v, Copy(p, i, v), Fits(p, k, T)
  PROVE  RemoveVessel(Holding(p, k, T), v) = Holding(p, k, S)
<1> DEFINE Zone == 1..NumTimeZones(p)
           len == p.sect.length[k]
<1>1. i \in T /\ S = T \ {i} /\ S \in SUBSET VesselIDs(p)
  BY DEF OneLess
<1> DEFINE cap == [z \in Zone |-> len - Needed(p, S, z)]
<1>2. PICK s : s = Holding(p, k, T)
  OBVIOUS
<1>3. /\ s.ID = k /\ s.length = len /\ s.vessels = T /\ s.sound = TRUE
      /\ DOMAIN s.capacity = Zone /\ \A z \in Zone : s.capacity[z] = len - Needed(p, T, z)
  BY <1>2 DEF Holding
<1>4. /\ len \in Nat /\ i \in VesselIDs(p) /\ v.length \in Nat /\ v.zones \in SUBSET Zone
  BY <1>1 DEF Usable, Copy
<1>a. ASSUME NEW z \in Zone
      PROVE  Needed(p, S, z) \in Nat
  BY <1>1, NeededNat
<1>5. ASSUME NEW z \in Zone
      PROVE  s.capacity[z] + (IF z \in v.zones THEN v.length ELSE 0) = len - Needed(p, S, z)
  <2>1. Needed(p, T, z) = Needed(p, S, z) + Share(p, i, z) /\ Needed(p, T, z) \in Nat
    BY NeededOneLess, NeededNat
  <2>2. (IF z \in v.zones THEN v.length ELSE 0) = Share(p, i, z) /\ Share(p, i, z) \in Nat
    BY <1>1 DEF Copy, Share, Usable
  <2> QED
    BY <1>3, <1>4, <1>a, <2>1, <2>2
<1>6. [z \in DOMAIN s.capacity |-> s.capacity[z] + IF z \in v.zones THEN v.length ELSE 0] = cap
  BY <1>3, <1>5
<1>7. \A z \in v.zones : cap[z] <= s.length
  <2>1. ASSUME NEW z \in v.zones
        PROVE  cap[z] <= s.length
    BY <1>3, <1>4, <1>a
  <2> HIDE DEF cap
  <2> QED
    BY <2>1
<1>8. i \in T /\ T \ {i} = S
  BY <1>1
<1>9. RemoveVessel(s, v) = [s EXCEPT !.capacity = cap, !.vessels = S, !.sound = TRUE]
  <2> HIDE DEF cap
  <2> QED
    BY <1>3, <1>6, <1>7, <1>8 DEF RemoveVessel, Copy
<1>10. Holding(p, k, S) = [ID |-> k, length |-> len, vessels |-> S, sound |-> TRUE,
                           capacity |-> cap]
  BY DEF Holding
<1>11. PICK c : s = [ID |-> k, length |-> len, vessels |-> T, sound |-> TRUE, capacity |-> c]
  BY <1>2 DEF Holding
<1>12. RemoveVessel(s, v) = Holding(p, k, S)
  <2> HIDE DEF cap, len
  <2> QED
    BY <1>9, <1>10, <1>11
<1> QED
  BY <1>2, <1>12

\* Fewer vessels fit where more do.
LEMMA FitsFewer ==
  ASSUME NEW p, Usable(p), NEW k \in SectionIDs(p), NEW T \in SUBSET VesselIDs(p),
         Fits(p, k, T), NEW S \in SUBSET T
  PROVE  Fits(p, k, S)
<1> SUFFICES ASSUME NEW z \in 1..NumTimeZones(p)
             PROVE  Needed(p, S, z) <= p.sect.length[k]
  BY DEF Fits
<1>1. Needed(p, S, z) <= Needed(p, T, z) /\ Needed(p, T, z) \in Nat
  BY NeededFewer, NeededNat
<1>2. Needed(p, S, z) \in Nat
  <2>1. S \in SUBSET VesselIDs(p)
    OBVIOUS
  <2> QED
    BY <2>1, NeededNat
<1>3. p.sect.length[k] \in Nat /\ Needed(p, T, z) <= p.sect.length[k]
  BY DEF Usable, Fits
<1> QED
  BY <1>1, <1>2, <1>3

\* The test that comes before a vessel is added.
LEMMA RoomForMore ==
  ASSUME NEW p, Usable(p), NEW k \in SectionIDs(p), NEW T \in SUBSET VesselIDs(p),
         NEW S, NEW i, OneLess(S, T, i),
         NEW v, Copy(p, i, v), Fits(p, k, S),
         CanAccommodate(Holding(p, k, S), v)
  PROVE  Fits(p, k, T)
<1> SUFFICES ASSUME NEW z \in 1..NumTimeZones(p)
             PROVE  Needed(p, T, z) <= p.sect.length[k]
  BY DEF Fits
<1>1. i \in T /\ S = T \ {i} /\ S \in SUBSET VesselIDs(p)
  BY DEF OneLess
<1>2. Needed(p, S, z) \in Nat
  BY <1>1, NeededNat
<1>3. Needed(p, T, z) = Needed(p, S, z) + Share(p, i, z)
  BY NeededOneLess
<1>4. p.sect.length[k] \in Nat /\ p.ves.length[i] \in Nat
  BY <1>1 DEF Usable
<1>5. CASE z \in Zones(p, i)
  <2>1. PICK s : s = Holding(p, k, S)
    OBVIOUS
  <2>2. s.capacity[z] = p.sect.length[k] - Needed(p, S, z)
    BY <2>1 DEF Holding
  <2>3. s.capacity[z] >= p.ves.length[i]
    BY <1>1, <1>5, <2>1 DEF CanAccommodate, Copy
  <2> QED
    BY <1>2, <1>3, <1>4, <1>5, <2>2, <2>3 DEF Share
<1>6. CASE z \notin Zones(p, i)
  <2>1. Needed(p, S, z) <= p.sect.length[k]
    BY <1>1 DEF Fits
  <2> QED
    BY <1>2, <1>3, <1>6, <2>1 DEF Share
<1> QED
  BY <1>5, <1>6

LEMMA PickedFirst ==
  ASSUME NEW S, IsFiniteSet(S), NEW s \in SUBSET S, s # {}
  PROVE  /\ OneLess(Rest(s), s, Pick(s)) /\ Pick(s) \in s /\ Rest(s) \in SUBSET s
         /\ Rest(s) \in SUBSET S
         /\ Cardinality(Rest(s)) \in Nat /\ Cardinality(Rest(s)) < Cardinality(s)
         /\ Cardinality(s) \in Nat
<1>1. /\ Pick(s) \in s /\ Rest(s) \in SUBSET s /\ Rest(s) \in SUBSET S
      /\ Cardinality(Rest(s)) = Cardinality(s) - 1 /\ Cardinality(s) \in Nat
  BY RestFacts
<1>2. Cardinality(Rest(s)) \in Nat
  BY <1>1, RestFacts
<1> QED
  BY <1>1, <1>2 DEF OneLess, Rest

\* One Add() for each of the vessels that a vector has at an empty section.
LEMMA AddAllHolding ==
  ASSUME NEW p, Usable(p), NEW k \in SectionIDs(p), NEW T \in SUBSET VesselIDs(p),
         NEW ves, \A i \in T : Copy(p, i, ves[i]), Fits(p, k, T)
  PROVE  AddAll(Holding(p, k, {}), ves, T) = Holding(p, k, T)
<1> DEFINE Q(g) == g = [s \in SUBSET T |-> IF s = {} THEN Holding(p, k, {})
                          ELSE AddVessel(g[s \ {CHOOSE e \in s : TRUE}],
                                         ves[CHOOSE e \in s : TRUE])]
           h == [s \in SUBSET T |-> Holding(p, k, s)]
           QQ(g) == g = [s \in SUBSET T |-> IF s = {} THEN Holding(p, k, {})
                           ELSE AddVessel(g[Rest(s)], ves[Pick(s)])]
<1>1. AddAll(Holding(p, k, {}), ves, T) = (CHOOSE g : Q(g))[T]
  BY Zenon DEF AddAll, FoldSet, MapThenFoldSet
<1>2. \A g : Q(g) <=> QQ(g)
  BY Zenon DEF Pick, Rest
<1>3. IsFiniteSet(T)
  BY VesselsFinite
<1>4. ASSUME NEW s \in SUBSET T, s # {}
      PROVE  AddVessel(Holding(p, k, Rest(s)), ves[Pick(s)]) = Holding(p, k, s)
  <2>1. s \in SUBSET VesselIDs(p) /\ Fits(p, k, s)
    BY FitsFewer
  <2>2. OneLess(Rest(s), s, Pick(s)) /\ Copy(p, Pick(s), ves[Pick(s)])
    BY <1>3, <1>4, PickedFirst
  <2> QED
    BY <2>1, <2>2, AddedTo
<1>5. QQ(h)
  <2>1. ASSUME NEW s \in SUBSET T, s # {}
        PROVE  h[Rest(s)] = Holding(p, k, Rest(s))
    BY <1>3, <2>1, PickedFirst
  <2>2. \A s \in SUBSET T : h[s] = IF s = {} THEN Holding(p, k, {})
                                   ELSE AddVessel(h[Rest(s)], ves[Pick(s)])
    BY <1>4, <2>1
  <2> QED
    BY <2>2
<1>6. ASSUME NEW g, QQ(g)
      PROVE  g[T] = Holding(p, k, T)
  <2> DEFINE B == {n \in Nat : \A s \in SUBSET T : Cardinality(s) = n => g[s] = Holding(p, k, s)}
  <2>1. ASSUME NEW n \in Nat, \A m \in Nat : m < n => m \in B
        PROVE  n \in B
    <3> SUFFICES ASSUME NEW s \in SUBSET T, Cardinality(s) = n
                 PROVE  g[s] = Holding(p, k, s)
      OBVIOUS
    <3>1. CASE s = {}
      BY <1>6, <3>1
    <3>2. CASE s # {}
      <4>1. g[Rest(s)] = Holding(p, k, Rest(s))
        BY <1>3, <2>1, <3>2, PickedFirst
      <4>2. g[s] = AddVessel(g[Rest(s)], ves[Pick(s)])
        BY <1>6, <3>2
      <4> QED
        BY <1>4, <3>2, <4>1, <4>2
    <3> QED
      BY <3>1, <3>2
  <2>2. \A n \in Nat : n \in B
    <3> HIDE DEF B
    <3>1. B \in SUBSET Nat
      BY DEF B
    <3> QED
      BY <2>1, <3>1, Induction
  <2>3. Cardinality(T) \in Nat
    BY <1>3, FS_CardinalityType
  <2> QED
    BY <2>2, <2>3
<1>7. QQ(CHOOSE g : Q(g))
  <2> HIDE DEF Q, QQ, h
  <2>1. Q(h)
    BY <1>2, <1>5
  <2> QED
    BY <1>2, <2>1, Zenon
<1> HIDE DEF Q, QQ
<1> QED
  BY <1>1, <1>6, <1>7

\* One Remove() for each of the vessels of a section leaves it empty.
LEMMA RemoveAllHolding ==
  ASSUME NEW p, Usable(p), NEW k \in SectionIDs(p), NEW T \in SUBSET VesselIDs(p),
         NEW ves, \A i \in T : Copy(p, i, ves[i]), Fits(p, k, T)
  PROVE  RemoveAll(Holding(p, k, T), ves, T) = Holding(p, k, {})
<1> DEFINE Q(g) == g = [s \in SUBSET T |-> IF s = {} THEN Holding(p, k, T)
                          ELSE RemoveVessel(g[s \ {CHOOSE e \in s : TRUE}],
                                            ves[CHOOSE e \in s : TRUE])]
           h == [s \in SUBSET T |-> Holding(p, k, T \ s)]
           QQ(g) == g = [s \in SUBSET T |-> IF s = {} THEN Holding(p, k, T)
                           ELSE RemoveVessel(g[Rest(s)], ves[Pick(s)])]
<1>1. RemoveAll(Holding(p, k, T), ves, T) = (CHOOSE g : Q(g))[T]
  BY Zenon DEF RemoveAll, FoldSet, MapThenFoldSet
<1>2. \A g : Q(g) <=> QQ(g)
  BY Zenon DEF Pick, Rest
<1>3. IsFiniteSet(T)
  BY VesselsFinite
<1>4. ASSUME NEW s \in SUBSET T, s # {}
      PROVE  RemoveVessel(Holding(p, k, T \ Rest(s)), ves[Pick(s)]) = Holding(p, k, T \ s)
  <2>1. PICK a, b : a = T \ Rest(s) /\ b = T \ s
    OBVIOUS
  <2>2. a \in SUBSET T /\ a \in SUBSET VesselIDs(p)
    BY <2>1
  <2>3. OneLess(b, a, Pick(s)) /\ Copy(p, Pick(s), ves[Pick(s)])
    <3>1. Pick(s) \in s /\ Rest(s) = s \ {Pick(s)}
      BY <1>3, <1>4, PickedFirst DEF Rest
    <3> QED
      BY <2>1, <3>1 DEF OneLess
  <2>4. Fits(p, k, a)
    BY <2>2, FitsFewer
  <2>5. RemoveVessel(Holding(p, k, a), ves[Pick(s)]) = Holding(p, k, b)
    BY <2>2, <2>3, <2>4, RemovedFrom
  <2> QED
    BY <2>1, <2>5
<1>5. QQ(h)
  <2>0. T \ {} = T
    OBVIOUS
  <2>1. ASSUME NEW s \in SUBSET T, s # {}
        PROVE  h[Rest(s)] = Holding(p, k, T \ Rest(s))
    BY <1>3, <2>1, PickedFirst
  <2>2. \A s \in SUBSET T : h[s] = IF s = {} THEN Holding(p, k, T)
                                   ELSE RemoveVessel(h[Rest(s)], ves[Pick(s)])
    BY <1>4, <2>0, <2>1
  <2> QED
    BY <2>2
<1>6. ASSUME NEW g, QQ(g)
      PROVE  g[T] = Holding(p, k, {})
  <2> DEFINE B == {n \in Nat : \A s \in SUBSET T :
                                 Cardinality(s) = n => g[s] = Holding(p, k, T \ s)}
  <2>1. ASSUME NEW n \in Nat, \A m \in Nat : m < n => m \in B
        PROVE  n \in B
    <3> SUFFICES ASSUME NEW s \in SUBSET T, Cardinality(s) = n
                 PROVE  g[s] = Holding(p, k, T \ s)
      OBVIOUS
    <3>1. CASE s = {}
      <4>1. T \ s = T /\ g[s] = Holding(p, k, T)
        BY <1>6, <3>1
      <4> QED
        BY <4>1
    <3>2. CASE s # {}
      <4>1. g[Rest(s)] = Holding(p, k, T \ Rest(s))
        BY <1>3, <2>1, <3>2, PickedFirst
      <4>2. g[s] = RemoveVessel(g[Rest(s)], ves[Pick(s)])
        BY <1>6, <3>2
      <4> QED
        BY <1>4, <3>2, <4>1, <4>2
    <3> QED
      BY <3>1, <3>2
  <2>2. \A n \in Nat : n \in B
    <3> HIDE DEF B
    <3>1. B \in SUBSET Nat
      BY DEF B
    <3> QED
      BY <2>1, <3>1, Induction
  <2>3. Cardinality(T) \in Nat /\ T \ T = {}
    BY <1>3, FS_CardinalityType
  <2>4. g[T] = Holding(p, k, T \ T)
    BY <2>2, <2>3
  <2> QED
    BY <2>3, <2>4
<1>7. QQ(CHOOSE g : Q(g))
  <2> HIDE DEF Q, QQ, h
  <2>1. Q(h)
    BY <1>2, <1>5
  <2> QED
    BY <1>2, <2>1, Zenon
<1> HIDE DEF Q, QQ
<1> QED
  BY <1>1, <1>6, <1>7

(***************************************************************************)
(* The package: the time zones of a schedule.                              *)
(***************************************************************************)

\* While a vessel arrives, it and all the others that are there share a zone.
Covered(p) ==
  \A a \in VesselIDs(p) : \E z \in 1..NumTimeZones(p) : \A i \in VesselIDs(p) :
    p.ves.arrival[i] <= p.ves.arrival[a] /\ p.ves.departure[i] > p.ves.arrival[a]
      => z \in Zones(p, i)

\* Distances and flows are numbers.
Charged(p) ==
  /\ \A k, l \in 0..NumSections(p) : p.sect.dist[<<k, l>>] \in Nat
  /\ \A i, j \in 0..NumVessels(p) : p.trans[<<i, j>>] \in Nat

\* A vessel of a time zone is one of the vessels, and is there in that zone.
Zoned(p) ==
  \A z \in 1..NumTimeZones(p) : \A i \in p.zones[z].vessels :
    i \in VesselIDs(p) /\ z \in Zones(p, i)

\* What the proofs need to know of the package of a job.
Good(p) ==
  /\ {"ves", "sect", "trans", "zones"} \subseteq DOMAIN p
  /\ Usable(p) /\ Covered(p) /\ Charged(p)

(* The points of the sweep.  TimePoints() sorts them by their rank.        *)

\* The schedule of the vessels 1..V.
Schedule(ves, V) ==
  /\ V \in Nat \ {0} /\ DOMAIN ves.length = 0..V
  /\ \A i \in 1..V : /\ ves.arrival[i] \in Int /\ ves.departure[i] \in Int
                     /\ ves.arrival[i] < ves.departure[i]

\* The two points of vessel i, and those of all vessels.
Arrival(ves, i) == TimePoint(ves.arrival[i], i, TRUE)
Departure(ves, i) == TimePoint(ves.departure[i], i, FALSE)

Points(ves, V) == {Arrival(ves, i) : i \in 1..V} \cup {Departure(ves, i) : i \in 1..V}

\* There are finitely many points, and at least one.
LEMMA PointsNumbered ==
  ASSUME NEW ves, NEW V, Schedule(ves, V)
  PROVE  /\ IsFiniteSet(Points(ves, V))
         /\ Arrival(ves, 1) \in Points(ves, V)
<1>1. V \in Nat /\ 1 \in 1..V /\ IsFiniteSet(1..V)
  BY FS_Interval DEF Schedule
<1>2. PICK I : I = 1..V
  OBVIOUS
<1>3. IsFiniteSet({Arrival(ves, i) : i \in I}) /\ IsFiniteSet({Departure(ves, i) : i \in I})
  <2>1. IsFiniteSet(I)
    BY <1>1, <1>2
  <2>2. PICK f, g : f = [i \in I |-> Arrival(ves, i)] /\ g = [i \in I |-> Departure(ves, i)]
    OBVIOUS
  <2>3. f \in Surjection(I, {Arrival(ves, i) : i \in I})
    BY <2>2 DEF Surjection
  <2>4. g \in Surjection(I, {Departure(ves, i) : i \in I})
    BY <2>2 DEF Surjection
  <2>5. \A T : \A h \in Surjection(I, T) : IsFiniteSet(T)
    BY <2>1, FS_Surjection
  <2> QED
    BY <2>3, <2>4, <2>5
<1>4. Points(ves, V) = {Arrival(ves, i) : i \in I} \cup {Departure(ves, i) : i \in I}
  BY <1>2 DEF Points
<1>5. IsFiniteSet(Points(ves, V))
  <2>1. PICK L, R : L = {Arrival(ves, i) : i \in I} /\ R = {Departure(ves, i) : i \in I}
    BY Zenon
  <2> QED
    BY <1>3, <1>4, <2>1, FS_Union, Zenon
<1> QED
  BY <1>1, <1>5 DEF Points

\* The order of two points by their kinds.
LEMMA BeforeCases ==
  \A t, u, i, j \in Int :
    /\ Before(TimePoint(t, i, TRUE), TimePoint(u, j, TRUE)) <=> t < u \/ (t = u /\ i <= j)
    /\ Before(TimePoint(t, i, FALSE), TimePoint(u, j, FALSE)) <=> t < u \/ (t = u /\ i <= j)
    /\ Before(TimePoint(t, i, FALSE), TimePoint(u, j, TRUE)) <=> t <= u
    /\ Before(TimePoint(t, i, TRUE), TimePoint(u, j, FALSE)) <=> t < u
BY DEF Before, TimePoint

\* A point by its time, its kind (1 arrives, 0 leaves) and its vessel.
Point(t, k, i) == IF k = 1 THEN TimePoint(t, i, TRUE) ELSE TimePoint(t, i, FALSE)

\* The order of points is the lexical one of time, kind and vessel.
LEMMA PointBefore ==
  \A t, u, i, j \in Int : \A k, l \in {0, 1} :
    Before(Point(t, k, i), Point(u, l, j))
      <=> t < u \/ (t = u /\ (k < l \/ (k = l /\ i <= j)))
<1> SUFFICES ASSUME NEW t \in Int, NEW u \in Int, NEW i \in Int, NEW j \in Int,
                    NEW k \in {0, 1}, NEW l \in {0, 1}
             PROVE  Before(Point(t, k, i), Point(u, l, j))
                      <=> t < u \/ (t = u /\ (k < l \/ (k = l /\ i <= j)))
  OBVIOUS
<1>1. Point(t, 1, i) = TimePoint(t, i, TRUE) /\ Point(t, 0, i) = TimePoint(t, i, FALSE)
  BY DEF Point
<1>2. Point(u, 1, j) = TimePoint(u, j, TRUE) /\ Point(u, 0, j) = TimePoint(u, j, FALSE)
  BY DEF Point
<1>3. PICK a, b, c, d :
        /\ a = TimePoint(t, i, TRUE) /\ b = TimePoint(t, i, FALSE)
        /\ c = TimePoint(u, j, TRUE) /\ d = TimePoint(u, j, FALSE)
  BY Zenon
<1>4. /\ Before(a, c) <=> t < u \/ (t = u /\ i <= j)
      /\ Before(b, d) <=> t < u \/ (t = u /\ i <= j)
      /\ Before(b, c) <=> t <= u
      /\ Before(a, d) <=> t < u
  BY <1>3, BeforeCases, Zenon
<1>5. Point(t, 1, i) = a /\ Point(t, 0, i) = b /\ Point(u, 1, j) = c /\ Point(u, 0, j) = d
  BY <1>1, <1>2, <1>3, Zenon
<1>6. CASE k = 1 /\ l = 1
  BY <1>4, <1>5, <1>6
<1>7. CASE k = 1 /\ l = 0
  BY <1>4, <1>5, <1>7
<1>8. CASE k = 0 /\ l = 1
  BY <1>4, <1>5, <1>8
<1>9. CASE k = 0 /\ l = 0
  BY <1>4, <1>5, <1>9
<1> QED
  BY <1>6, <1>7, <1>8, <1>9

\* Every point of the schedule is such a point.
LEMMA PointForm ==
  ASSUME NEW ves, NEW V, Schedule(ves, V), NEW p \in Points(ves, V)
  PROVE  \E t, i \in Int : \E k \in {0, 1} : p = Point(t, k, i)
<1>1. PICK i \in 1..V : p = Arrival(ves, i) \/ p = Departure(ves, i)
  BY DEF Points
<1>2. i \in Int /\ ves.arrival[i] \in Int /\ ves.departure[i] \in Int
  BY DEF Schedule
<1>3. Arrival(ves, i) = Point(ves.arrival[i], 1, i) 
  BY DEF Arrival, Point
<1>4. Departure(ves, i) = Point(ves.departure[i], 0, i)
  BY DEF Departure, Point
<1> QED
  BY <1>1, <1>2, <1>3, <1>4

\* Before() is a total order of the points.
LEMMA PointsOrdered ==
  ASSUME NEW ves, NEW V, Schedule(ves, V)
  PROVE  \A p, q, r \in Points(ves, V) :
           /\ Before(p, q) \/ Before(q, p)
           /\ Before(p, q) /\ Before(q, p) => p = q
           /\ Before(p, q) /\ Before(q, r) => Before(p, r)
<1> SUFFICES ASSUME NEW p \in Points(ves, V), NEW q \in Points(ves, V), NEW r \in Points(ves, V)
             PROVE  /\ Before(p, q) \/ Before(q, p)
                    /\ Before(p, q) /\ Before(q, p) => p = q
                    /\ Before(p, q) /\ Before(q, r) => Before(p, r)
  OBVIOUS
<1>1. PICK t1, i1 \in Int, k1 \in {0, 1} : p = Point(t1, k1, i1)
  BY PointForm
<1>2. PICK t2, i2 \in Int, k2 \in {0, 1} : q = Point(t2, k2, i2)
  BY PointForm
<1>3. PICK t3, i3 \in Int, k3 \in {0, 1} : r = Point(t3, k3, i3)
  BY PointForm
<1>4. Before(p, q) <=> t1 < t2 \/ (t1 = t2 /\ (k1 < k2 \/ (k1 = k2 /\ i1 <= i2)))
  BY <1>1, <1>2, PointBefore
<1>5. Before(q, p) <=> t2 < t1 \/ (t2 = t1 /\ (k2 < k1 \/ (k2 = k1 /\ i2 <= i1)))
  BY <1>1, <1>2, PointBefore
<1>6. Before(q, r) <=> t2 < t3 \/ (t2 = t3 /\ (k2 < k3 \/ (k2 = k3 /\ i2 <= i3)))
  BY <1>2, <1>3, PointBefore
<1>7. Before(p, r) <=> t1 < t3 \/ (t1 = t3 /\ (k1 < k3 \/ (k1 = k3 /\ i1 <= i3)))
  BY <1>1, <1>3, PointBefore
<1>8. Before(p, q) \/ Before(q, p)
  BY <1>4, <1>5
<1>9. ASSUME Before(p, q), Before(q, p)
      PROVE  p = q
  <2>1. t1 = t2 /\ k1 = k2 /\ i1 = i2
    BY <1>4, <1>5, <1>9
  <2> QED
    BY <1>1, <1>2, <2>1
<1>10. ASSUME Before(p, q), Before(q, r)
       PROVE  Before(p, r)
  BY <1>4, <1>6, <1>7, <1>10
<1> QED
  BY <1>8, <1>9, <1>10

\* The points up to p, and how many they are.
UpToPoint(ves, V, p) == {q \in Points(ves, V) : Before(q, p)}
Rank(ves, V, p) == Cardinality(UpToPoint(ves, V, p))

\* A later point has a higher rank.
LEMMA RankFacts ==
  ASSUME NEW ves, NEW V, Schedule(ves, V)
  PROVE  LET P == Points(ves, V) IN
         \A p, q \in P : /\ Rank(ves, V, p) \in 1..Cardinality(P)
                         /\ Before(p, q) /\ p # q => Rank(ves, V, p) < Rank(ves, V, q)
<1> SUFFICES ASSUME NEW p \in Points(ves, V), NEW q \in Points(ves, V)
             PROVE  /\ Rank(ves, V, p) \in 1..Cardinality(Points(ves, V))
                    /\ Before(p, q) /\ p # q => Rank(ves, V, p) < Rank(ves, V, q)
  OBVIOUS
<1>1. PICK P, L, R : P = Points(ves, V) /\ L = UpToPoint(ves, V, p) /\ R = UpToPoint(ves, V, q)
  OBVIOUS
<1>2. /\ IsFiniteSet(P) /\ L \in SUBSET P /\ R \in SUBSET P
      /\ IsFiniteSet(L) /\ IsFiniteSet(R)
      /\ Cardinality(P) \in Nat /\ Cardinality(L) \in Nat /\ Cardinality(R) \in Nat
      /\ Cardinality(L) <= Cardinality(P)
  <2>1. IsFiniteSet(P)
    BY <1>1, PointsNumbered
  <2>2. L \in SUBSET P /\ R \in SUBSET P
    BY <1>1 DEF UpToPoint
  <2>3. IsFiniteSet(L) /\ IsFiniteSet(R) /\ Cardinality(L) <= Cardinality(P)
    BY <2>1, <2>2, FS_Subset
  <2> QED
    BY <2>1, <2>2, <2>3, FS_CardinalityType
<1>3. p \in L
  BY <1>1, PointsOrdered DEF UpToPoint
<1>4. Cardinality(L) # 0
  BY <1>2, <1>3, FS_EmptySet
<1>5. ASSUME Before(p, q), p # q
      PROVE  Cardinality(L) < Cardinality(R)
  <2>1. L \subseteq R
    BY <1>1, <1>5, PointsOrdered DEF UpToPoint
  <2>2. q \in R /\ q \notin L
    BY <1>1, <1>5, PointsOrdered DEF UpToPoint
  <2>3. L \in SUBSET R /\ L # R
    BY <2>1, <2>2
  <2> QED
    BY <1>2, <2>3, FS_Subset
<1> QED
  BY <1>1, <1>2, <1>4, <1>5 DEF Rank

\* Every number up to that of the points is the rank of a point.
LEMMA RankOnto ==
  ASSUME NEW ves, NEW V, Schedule(ves, V), NEW n \in 1..Cardinality(Points(ves, V))
  PROVE  \E p \in Points(ves, V) : Rank(ves, V, p) = n
<1>1. PICK P, N : P = Points(ves, V) /\ N = Cardinality(P)
  OBVIOUS
<1>2. IsFiniteSet(P) /\ N \in Nat
  BY <1>1, PointsNumbered, FS_CardinalityType
<1>3. PICK f : f = [p \in P |-> Rank(ves, V, p)]
  OBVIOUS
<1>4. f \in [P -> 1..N]
  BY <1>1, <1>3, RankFacts
<1>5. \A p, q \in P : f[p] = f[q] => p = q
  <2> SUFFICES ASSUME NEW p \in P, NEW q \in P, p # q
               PROVE  f[p] # f[q]
    OBVIOUS
  <2>1. Before(p, q) \/ Before(q, p)
    BY <1>1, PointsOrdered
  <2>2. f[p] \in Int /\ f[q] \in Int
    BY <1>2, <1>4
  <2> QED
    BY <1>1, <1>3, <2>1, <2>2, RankFacts
<1>6. f \in Injection(P, 1..N)
  BY <1>4, <1>5 DEF Injection, IsInjective
<1>7. IsFiniteSet(1..N) /\ Cardinality(1..N) = N
  BY <1>2, FS_Interval
<1>8. f \in Surjection(P, 1..N)
  BY <1>1, <1>2, <1>6, <1>7, FS_Injection
<1> QED
  BY <1>1, <1>3, <1>8 DEF Surjection

\* The points in their order: vessel i arrives at number at[i], leaves at off[i].
Listed(ves, V, pts, at, off, N) ==
  /\ N \in Nat \ {0} /\ pts \in Seq(Points(ves, V)) /\ Len(pts) = N
  /\ \A i \in 1..V : /\ at[i] \in 1..N /\ pts[at[i]] = Arrival(ves, i)
                     /\ off[i] \in 1..N /\ pts[off[i]] = Departure(ves, i)
  /\ \A n \in 1..N : \E i \in 1..V : at[i] = n \/ off[i] = n
  /\ \A i, j \in 1..V : /\ at[i] < off[j] => ves.arrival[i] < ves.departure[j]
                        /\ off[i] < at[j] => ves.departure[i] <= ves.arrival[j]
                        /\ at[i] < at[j] => ves.arrival[i] <= ves.arrival[j]
                        /\ at[i] = at[j] => i = j
                        /\ at[i] # off[j]

\* TimePoints() lists every point once, in order.
LEMMA PointsListed ==
  ASSUME NEW ves, NEW V, Schedule(ves, V)
  PROVE  \E at, off, N : Listed(ves, V, TimePoints(ves), at, off, N)
<1>1. PICK P, N : P = Points(ves, V) /\ N = Cardinality(P)
  OBVIOUS
<1>2. PICK pts : pts = TimePoints(ves)
  OBVIOUS
<1>3. N \in Nat \ {0} /\ IsFiniteSet(P)
  <2>1. P # {} /\ IsFiniteSet(P)
    BY <1>1, PointsNumbered
  <2> QED
    BY <1>1, <2>1, FS_EmptySet, FS_CardinalityType
<1>4. pts = [n \in 1..Cardinality(P) |->
                CHOOSE p \in P : Cardinality({q \in P : Before(q, p)}) = n]
  <2> DEFINE F(T) == [n \in 1..Cardinality(T) |->
                        CHOOSE p \in T : Cardinality({q \in T : Before(q, p)}) = n]
             Q == {TimePoint(ves.arrival[i], i, TRUE) : i \in DOMAIN ves.length \ {0}}
                   \cup {TimePoint(ves.departure[i], i, FALSE) : i \in DOMAIN ves.length \ {0}}
  <2>1. TimePoints(ves) = F(Q)
    BY Zenon DEF TimePoints
  <2>2. Q = P
    <3>1. DOMAIN ves.length \ {0} = 1..V
      BY DEF Schedule
    <3> QED
      BY <1>1, <3>1, Zenon DEF Points, Arrival, Departure
  <2> HIDE DEF F, Q
  <2>3. pts = F(P)
    BY <1>2, <2>1, <2>2, Zenon
  <2> QED
    BY <2>3, Zenon DEF F
<1>5. \A n \in 1..N : pts[n] \in P /\ Rank(ves, V, pts[n]) = n
  <2> SUFFICES ASSUME NEW n \in 1..N
               PROVE  pts[n] \in P /\ Rank(ves, V, pts[n]) = n
    OBVIOUS
  <2>1. \A p : Rank(ves, V, p) = Cardinality({q \in P : Before(q, p)})
    BY <1>1, Zenon DEF Rank, UpToPoint
  <2>2. \E p \in P : Rank(ves, V, p) = n
    BY <1>1, RankOnto
  <2>3. \E p \in P : Cardinality({q \in P : Before(q, p)}) = n
    BY <2>1, <2>2, Zenon
  <2>4. pts[n] = CHOOSE p \in P : Cardinality({q \in P : Before(q, p)}) = n
    BY <1>1, <1>4, Zenon
  <2>5. pts[n] \in P /\ Cardinality({q \in P : Before(q, pts[n])}) = n
    BY <2>3, <2>4, Zenon
  <2> QED
    BY <2>1, <2>5, Zenon
<1>6. \A p \in P : Rank(ves, V, p) \in 1..N
  BY <1>1, RankFacts
<1>7. \A p, q \in P : Rank(ves, V, p) = Rank(ves, V, q) => p = q
  <2> SUFFICES ASSUME NEW p \in P, NEW q \in P, p # q
               PROVE  Rank(ves, V, p) # Rank(ves, V, q)
    OBVIOUS
  <2>1. Before(p, q) \/ Before(q, p)
    BY <1>1, PointsOrdered
  <2>2. Rank(ves, V, p) \in Int /\ Rank(ves, V, q) \in Int
    BY <1>3, <1>6
  <2> QED
    BY <1>1, <2>1, <2>2, RankFacts
<1>8. \A p, q \in P : Rank(ves, V, p) < Rank(ves, V, q) => Before(p, q)
  <2> SUFFICES ASSUME NEW p \in P, NEW q \in P, Rank(ves, V, p) < Rank(ves, V, q)
               PROVE  Before(p, q)
    OBVIOUS
  <2>1. Rank(ves, V, p) \in Int /\ Rank(ves, V, q) \in Int
    BY <1>3, <1>6
  <2>2. ~(Before(q, p) /\ q # p)
    BY <1>1, <2>1, RankFacts
  <2>3. p # q
    BY <2>1
  <2> QED
    BY <1>1, <2>2, <2>3, PointsOrdered
<1>9. PICK at, off : /\ at = [i \in 1..V |-> Rank(ves, V, Arrival(ves, i))]
                     /\ off = [i \in 1..V |-> Rank(ves, V, Departure(ves, i))]
  OBVIOUS
<1>10. \A i \in 1..V : Arrival(ves, i) \in P /\ Departure(ves, i) \in P
  BY <1>1 DEF Points
<1>11. \A p \in P : pts[Rank(ves, V, p)] = p
  BY <1>5, <1>6, <1>7
<1>12. \A i \in 1..V : /\ at[i] \in 1..N /\ pts[at[i]] = Arrival(ves, i)
                       /\ off[i] \in 1..N /\ pts[off[i]] = Departure(ves, i)
  BY <1>6, <1>9, <1>10, <1>11
<1>13. ASSUME NEW n \in 1..N
       PROVE  \E i \in 1..V : at[i] = n \/ off[i] = n
  <2>1. PICK i \in 1..V : pts[n] = Arrival(ves, i) \/ pts[n] = Departure(ves, i)
    BY <1>1, <1>5 DEF Points
  <2>2. Rank(ves, V, pts[n]) = n
    BY <1>5
  <2> QED
    BY <1>9, <2>1, <2>2
<1>14. \A i, j \in 1..V :
         /\ Before(Arrival(ves, i), Departure(ves, j)) => ves.arrival[i] < ves.departure[j]
         /\ Before(Departure(ves, i), Arrival(ves, j)) => ves.departure[i] <= ves.arrival[j]
         /\ Before(Arrival(ves, i), Arrival(ves, j)) => ves.arrival[i] <= ves.arrival[j]
         /\ Arrival(ves, i) = Arrival(ves, j) => i = j
         /\ Arrival(ves, i) # Departure(ves, j)
  <2> SUFFICES ASSUME NEW i \in 1..V, NEW j \in 1..V
               PROVE
         /\ Before(Arrival(ves, i), Departure(ves, j)) => ves.arrival[i] < ves.departure[j]
         /\ Before(Departure(ves, i), Arrival(ves, j)) => ves.departure[i] <= ves.arrival[j]
         /\ Before(Arrival(ves, i), Arrival(ves, j)) => ves.arrival[i] <= ves.arrival[j]
         /\ Arrival(ves, i) = Arrival(ves, j) => i = j
         /\ Arrival(ves, i) # Departure(ves, j)
    OBVIOUS
  <2>1. PICK a, b, c, d : /\ a = ves.arrival[i] /\ b = ves.departure[i]
                          /\ c = ves.arrival[j] /\ d = ves.departure[j]
    OBVIOUS
  <2>2. /\ a \in Int /\ b \in Int /\ c \in Int /\ d \in Int /\ i \in Int /\ j \in Int
    BY <2>1 DEF Schedule
  <2>3. /\ Before(TimePoint(a, i, TRUE), TimePoint(d, j, FALSE)) <=> a < d
        /\ Before(TimePoint(b, i, FALSE), TimePoint(c, j, TRUE)) <=> b <= c
        /\ Before(TimePoint(a, i, TRUE), TimePoint(c, j, TRUE)) <=> a < c \/ (a = c /\ i <= j)
    BY <2>2, BeforeCases, Zenon
  <2>4. a < c \/ (a = c /\ i <= j) => a <= c
    BY <2>2
  <2>5. /\ Arrival(ves, i) = TimePoint(a, i, TRUE) /\ Arrival(ves, j) = TimePoint(c, j, TRUE)
        /\ Departure(ves, i) = TimePoint(b, i, FALSE) /\ Departure(ves, j) = TimePoint(d, j, FALSE)
    BY <2>1, Zenon DEF Arrival, Departure
  <2>6. /\ TimePoint(a, i, TRUE).ID = i /\ TimePoint(c, j, TRUE).ID = j
        /\ TimePoint(a, i, TRUE).Arrive = TRUE /\ TimePoint(d, j, FALSE).Arrive = FALSE
    BY DEF TimePoint
  <2>7. TimePoint(a, i, TRUE) # TimePoint(d, j, FALSE)
    BY <2>6, Zenon
  <2> QED
    BY <2>1, <2>3, <2>4, <2>5, <2>6, <2>7, Zenon
<1>15. ASSUME NEW i \in 1..V, NEW j \in 1..V
       PROVE  /\ at[i] < off[j] => ves.arrival[i] < ves.departure[j]
              /\ off[i] < at[j] => ves.departure[i] <= ves.arrival[j]
              /\ at[i] < at[j] => ves.arrival[i] <= ves.arrival[j]
              /\ at[i] = at[j] => i = j
              /\ at[i] # off[j]
  <2>1. /\ at[i] = Rank(ves, V, Arrival(ves, i)) /\ off[i] = Rank(ves, V, Departure(ves, i))
        /\ at[j] = Rank(ves, V, Arrival(ves, j)) /\ off[j] = Rank(ves, V, Departure(ves, j))
    BY <1>9
  <2>2. at[i] < off[j] => Before(Arrival(ves, i), Departure(ves, j))
    BY <1>8, <1>10, <2>1
  <2>3. off[i] < at[j] => Before(Departure(ves, i), Arrival(ves, j))
    BY <1>8, <1>10, <2>1
  <2>4. at[i] < at[j] => Before(Arrival(ves, i), Arrival(ves, j))
    BY <1>8, <1>10, <2>1
  <2>5. at[i] = at[j] => Arrival(ves, i) = Arrival(ves, j)
    BY <1>7, <1>10, <2>1
  <2>6. at[i] = off[j] => Arrival(ves, i) = Departure(ves, j)
    BY <1>7, <1>10, <2>1
  <2> QED
    BY <1>14, <2>2, <2>3, <2>4, <2>5, <2>6
<1>16. pts \in Seq(P) /\ Len(pts) = N
  <2>1. DOMAIN pts = 1..N /\ pts = [n \in 1..N |-> pts[n]]
    <3> DEFINE R(n) == CHOOSE p \in P : Cardinality({q \in P : Before(q, p)}) = n
    <3>1. pts = [n \in 1..Cardinality(P) |-> R(n)]
      BY <1>4, Zenon
    <3> HIDE DEF R
    <3>2. pts = [n \in 1..N |-> R(n)]
      BY <1>1, <3>1
    <3> QED
      BY <3>2
  <2>2. pts \in [1..N -> P]
    BY <1>5, <2>1, Zenon
  <2>3. N \in Nat
    BY <1>3
  <2> QED
    BY <2>1, <2>2, <2>3
<1>17. Listed(ves, V, pts, at, off, N)
  BY <1>1, <1>3, <1>12, <1>13, <1>15, <1>16 DEF Listed
<1> QED
  BY <1>2, <1>17

(* The sweep.  FoldLeft() goes by the greatest index of a set of indices.  *)

\* A nonempty set of indices has a greatest one, which Max() finds.
LEMMA Greatest ==
  ASSUME NEW M \in Nat, NEW T \in SUBSET (1..M), T # {}
  PROVE  Max(T) \in T /\ \A m \in T : Max(T) >= m
<1>1. PICK R : R = {M - m : m \in T}
  OBVIOUS
<1>2. R \in SUBSET Nat /\ R # {}
  <2>1. \A m \in T : M - m \in Nat
    OBVIOUS
  <2> QED
    BY <1>1, <2>1
<1>3. PICK r \in R : \A q \in R : r <= q
  BY <1>2, Smallest
<1>4. PICK n \in T : r = M - n
  BY <1>1, <1>3
<1>5. \A m \in T : n >= m
  <2> SUFFICES ASSUME NEW m \in T
               PROVE  n >= m
    OBVIOUS
  <2>1. M - m \in R
    BY <1>1
  <2>2. M - n <= M - m
    BY <1>3, <1>4, <2>1
  <2> QED
    BY <2>2
<1>6. \E e \in T : \A m \in T : e >= m
  BY <1>5
<1> QED
  BY <1>6, Zenon DEF Max

\* The indices that are folded before the greatest one.
Fewer(s) == s \ {Max(s)}

\* ReadSolution() goes from line to line, ComputeTimeZones() from point to point.
TakeSolution(q, mode, d) ==
  CASE mode = "_NUM_UNALLOCATED" -> [q EXCEPT !.unallocatedVessels = d[1]]
    [] mode = "_OBJECTIVE_VALUE" -> [q EXCEPT !.objectiveValue = d[1]]
    [] mode = "_TRANSHIPMENT_VALUE" -> [q EXCEPT !.transhipmentCost = d[1]]
    [] mode = "_PENALTY_VALUE" -> [q EXCEPT !.penalty = d[1]]
    [] mode = "_NUM_VESSELS" -> [q EXCEPT !.sound = d[1] = NumVessels(q) + 1]
    [] mode = "_ALLOCATION" /\ d[1] # 0 ->
         [q EXCEPT !.section[d[1]] = d[2], !.wharfmark[d[1]] = d[3]]
    [] OTHER -> q

ReadLine(acc, line) ==
  IF line.word # "" THEN [acc EXCEPT !.mode = line.word]
  ELSE [acc EXCEPT !.value = TakeSolution(acc.value, acc.mode, line.data)]

Step(how, ves, s, p) == IF how = "sweep" THEN Sweep(s, ves, p) ELSE ReadLine(s, p)

\* What the recursive function inside FoldLeft() is to satisfy.
Folds(g, init, how, ves, seq, Dom) ==
  g = [s \in Dom |-> IF s = {} THEN init ELSE Step(how, ves, g[Fewer(s)], seq[Max(s)])]

\* Taking the greatest index away leaves a smaller set.
LEMMA FewerFacts ==
  ASSUME NEW M \in Nat, NEW s \in SUBSET (1..M), s # {}
  PROVE  /\ Max(s) \in s /\ Fewer(s) \in SUBSET (1..M)
         /\ IsFiniteSet(s) /\ Cardinality(s) \in Nat \ {0}
         /\ Cardinality(Fewer(s)) = Cardinality(s) - 1
<1>1. Max(s) \in s
  BY Greatest
<1>2. IsFiniteSet(1..M)
  BY FS_Interval
<1>3. IsFiniteSet(s)
  BY <1>2, FS_Subset
<1>4. Cardinality(s) \in Nat \ {0}
  BY <1>3, FS_CardinalityType, FS_EmptySet
<1>5. Cardinality(s \ {Max(s)}) = Cardinality(s) - 1
  BY <1>1, <1>3, FS_RemoveElement
<1> QED
  BY <1>1, <1>3, <1>4, <1>5 DEF Fewer

\* There is such a function, by induction over the number of indices.
LEMMA FoldsExists ==
  ASSUME NEW M \in Nat, NEW init, NEW how, NEW ves, NEW seq
  PROVE  \E g : Folds(g, init, how, ves, seq, SUBSET (1..M))
<1>1. PICK S : S = 1..M
  OBVIOUS
<1>2. \A s \in SUBSET S : s # {} =>
         /\ Cardinality(s) \in Nat \ {0} /\ Fewer(s) \in SUBSET S
         /\ Cardinality(Fewer(s)) = Cardinality(s) - 1
  BY <1>1, FewerFacts
<1>3. Cardinality({}) = 0
  BY FS_EmptySet
<1> DEFINE P(n) == \E g : Folds(g, init, how, ves, seq, UpTo(S, n))
           B == {n \in Nat : P(n)}
<1>4. P(0)
  <2>1. \A s \in UpTo(S, 0) : s = {}
    BY <1>2 DEF UpTo
  <2>2. Folds([s \in UpTo(S, 0) |-> init], init, how, ves, seq, UpTo(S, 0))
    BY <2>1 DEF Folds
  <2> QED
    BY <2>2
<1>5. ASSUME NEW n \in Nat, P(n)
      PROVE  P(n + 1)
  <2>1. PICK g : Folds(g, init, how, ves, seq, UpTo(S, n))
    BY <1>5
  <2> DEFINE h == [s \in UpTo(S, n + 1) |->
                     IF s = {} THEN init ELSE Step(how, ves, g[Fewer(s)], seq[Max(s)])]
  <2>2. ASSUME NEW s \in UpTo(S, n + 1), s # {}
        PROVE  h[Fewer(s)] = g[Fewer(s)]
    <3>1. PICK r : r = Fewer(s)
      OBVIOUS
    <3>2. r \in UpTo(S, n) /\ r \in UpTo(S, n + 1)
      <4>1. /\ s \in SUBSET S /\ Cardinality(s) <= n + 1 /\ Cardinality(s) \in Nat
            /\ r \in SUBSET S /\ Cardinality(r) = Cardinality(s) - 1
        BY <1>2, <2>2, <3>1 DEF UpTo
      <4> QED
        BY <4>1 DEF UpTo
    <3>3. h[r] = IF r = {} THEN init ELSE Step(how, ves, g[Fewer(r)], seq[Max(r)])
      BY <3>2, Zenon
    <3>4. g[r] = IF r = {} THEN init ELSE Step(how, ves, g[Fewer(r)], seq[Max(r)])
      BY <2>1, <3>2, Zenon DEF Folds
    <3> QED
      BY <3>1, <3>3, <3>4, Zenon
  <2>3. h = [s \in UpTo(S, n + 1) |->
               IF s = {} THEN init ELSE Step(how, ves, h[Fewer(s)], seq[Max(s)])]
    <3> DEFINE F(s) == IF s = {} THEN init ELSE Step(how, ves, g[Fewer(s)], seq[Max(s)])
               H(s) == IF s = {} THEN init ELSE Step(how, ves, h[Fewer(s)], seq[Max(s)])
    <3>1. h = [s \in UpTo(S, n + 1) |-> F(s)]
      OBVIOUS
    <3> HIDE DEF h
    <3>2. \A s \in UpTo(S, n + 1) : F(s) = H(s)
      BY <2>2, Zenon
    <3> HIDE DEF F, H
    <3>3. h = [s \in UpTo(S, n + 1) |-> H(s)]
      BY <3>1, <3>2
    <3> QED
      BY <3>3, Zenon DEF H
  <2> HIDE DEF h
  <2> QED
    BY <2>3 DEF Folds
<1>6. \A n \in Nat : n \in B
  <2> HIDE DEF P
  <2>1. \A n \in Nat : (\A m \in Nat : m < n => m \in B) => n \in B
    <3> SUFFICES ASSUME NEW n \in Nat, \A m \in Nat : m < n => m \in B
                 PROVE  P(n)
      OBVIOUS
    <3>1. CASE n = 0
      BY <1>4, <3>1
    <3>2. CASE n # 0
      <4>1. n - 1 \in Nat /\ n - 1 < n /\ (n - 1) + 1 = n
        BY <3>2
      <4>2. P(n - 1)
        BY <4>1
      <4> QED
        BY <1>5, <4>1, <4>2
    <3> QED
      BY <3>1, <3>2
  <2> HIDE DEF B
  <2>2. B \in SUBSET Nat
    BY DEF B
  <2> QED
    BY <2>1, <2>2, Induction
<1>7. UpTo(S, Cardinality(S)) = SUBSET S /\ Cardinality(S) \in Nat
  <2>1. IsFiniteSet(S)
    BY <1>1, FS_Interval
  <2> QED
    BY <2>1, RestFacts, FS_CardinalityType DEF UpTo
<1> QED
  BY <1>1, <1>6, <1>7

\* The states that are gone through: st[n] after the first n of seq.
Steps(st, init, how, ves, seq, M) ==
  st[0] = init /\ \A n \in 1..M : st[n] = Step(how, ves, st[n - 1], seq[n])

\* Such a function goes through them one by one.
GoesThrough(g, init, how, ves, seq, M) ==
  \E st : Steps(st, init, how, ves, seq, M) /\ g[1..M] = st[M]

LEMMA FoldSteps ==
  \A M \in Nat : \A init, how, ves, seq, g :
    Folds(g, init, how, ves, seq, SUBSET (1..M)) => GoesThrough(g, init, how, ves, seq, M)
<1> SUFFICES ASSUME NEW M \in Nat, NEW init, NEW how, NEW ves, NEW seq, NEW g,
                    Folds(g, init, how, ves, seq, SUBSET (1..M))
             PROVE  \E st : Steps(st, init, how, ves, seq, M) /\ g[1..M] = st[M]
  BY Zenon DEF GoesThrough
<1>4. Folds(g, init, how, ves, seq, SUBSET (1..M))
  OBVIOUS
<1>5. PICK st : st = [n \in 0..M |-> g[1..n]]
  OBVIOUS
<1>6. st[0] = init
  <2>1. 1..0 = {} /\ {} \in SUBSET (1..M) /\ 0 \in 0..M
    OBVIOUS
  <2>2. g[{}] = init
    BY <1>4, <2>1, Zenon DEF Folds
  <2>3. st[0] = g[1..0]
    BY <1>5, <2>1, Zenon
  <2> QED
    BY <2>1, <2>2, <2>3, Zenon
<1>7. ASSUME NEW n \in 1..M
      PROVE  st[n] = Step(how, ves, st[n - 1], seq[n])
  <2>1. PICK s, r, m : s = 1..n /\ r = 1..m /\ m = n - 1
    OBVIOUS
  <2>2. s \in SUBSET (1..M) /\ s # {} /\ n \in 0..M /\ m \in 0..M /\ n \in s
    <3>1. n \in s /\ n \in 0..M /\ m \in 0..M
      BY <2>1
    <3>2. \A k \in s : k \in 1..M
      BY <2>1
    <3> QED
      BY <3>1, <3>2
  <2>3. Max(s) = n
    <3>1. Max(s) \in s /\ Max(s) >= n
      BY <2>2, Greatest
    <3> QED
      BY <2>1, <3>1
  <2>4. Fewer(s) = r
    <3>1. s \ {n} = r
      BY <2>1
    <3> QED
      BY <2>3, <3>1, Zenon DEF Fewer
  <2>5. g[s] = Step(how, ves, g[Fewer(s)], seq[Max(s)])
    BY <1>4, <2>2, Zenon DEF Folds
  <2>6. st[n] = g[s] /\ st[m] = g[r]
    BY <1>5, <2>1, <2>2, Zenon
  <2>7. st[n] = Step(how, ves, st[m], seq[n])
    BY <2>3, <2>4, <2>5, <2>6, Zenon
  <2> QED
    BY <2>1, <2>7
<1>8. g[1..M] = st[M]
  <2>1. M \in 0..M
    OBVIOUS
  <2> QED
    BY <1>5, <2>1, Zenon
<1> QED
  BY <1>6, <1>7, <1>8, Zenon DEF Steps

\* seq is numbered 1..M, and its fold ends in the state after the last.
Numbered(seq, M) == M \in Nat /\ DOMAIN seq = 1..M

\* The states of the sweep, and the sweep of ComputeTimeZones().
Sweeps(st, init, ves, seq, M) ==
  st[0] = init /\ \A n \in 1..M : st[n] = Sweep(st[n - 1], ves, seq[n])
SweepAll(init, ves, seq) == FoldLeft(LAMBDA s, p : Sweep(s, ves, p), init, seq)
Unfolds(init, ves, seq, M) ==
  \E st : Sweeps(st, init, ves, seq, M) /\ SweepAll(init, ves, seq) = st[M]

\* The sweep goes through the points one by one.
LEMMA SweepUnfolds ==
  \A M, init, ves, seq : Numbered(seq, M) => Unfolds(init, ves, seq, M)
<1> SUFFICES ASSUME NEW M \in Nat, NEW init, NEW ves, NEW seq, DOMAIN seq = 1..M
             PROVE  \E st : Sweeps(st, init, ves, seq, M) /\ SweepAll(init, ves, seq) = st[M]
  BY DEF Numbered, Unfolds
<1>1. \A s, p : Step("sweep", ves, s, p) = Sweep(s, ves, p)
  BY DEF Step
<1> DEFINE F(g, s) == IF s = {} THEN init ELSE Sweep(g[Fewer(s)], ves, seq[Max(s)])
           H(g, s) == IF s = {} THEN init ELSE Step("sweep", ves, g[Fewer(s)], seq[Max(s)])
           Q(g) == g = [s \in SUBSET DOMAIN seq |-> F(g, s)]
<1>2. SweepAll(init, ves, seq) = (CHOOSE g : Q(g))[DOMAIN seq]
  BY Zenon DEF SweepAll, FoldLeft, MapThenFoldSet, Fewer
<1>3. \A g : Folds(g, init, "sweep", ves, seq, SUBSET (1..M))
              <=> g = [s \in SUBSET (1..M) |-> H(g, s)]
  BY Zenon DEF Folds
<1>4. \A g, s : F(g, s) = H(g, s)
  BY <1>1, Zenon
<1> HIDE DEF F, H
<1>5. \A g : [s \in SUBSET (1..M) |-> F(g, s)] = [s \in SUBSET (1..M) |-> H(g, s)]
  BY <1>4, Zenon
<1>6. \A g : Q(g) <=> Folds(g, init, "sweep", ves, seq, SUBSET (1..M))
  BY <1>3, <1>5, Zenon
<1> HIDE DEF Q
<1>7. PICK g : g = CHOOSE h : Q(h)
  OBVIOUS
<1>8. Q(g)
  <2>1. \E h : Q(h)
    BY <1>6, FoldsExists
  <2> QED
    BY <1>7, <2>1, Zenon
<1>9. PICK st : Steps(st, init, "sweep", ves, seq, M) /\ g[1..M] = st[M]
  <2>1. Folds(g, init, "sweep", ves, seq, SUBSET (1..M))
    BY <1>6, <1>8, Zenon
  <2>2. M \in Nat
    OBVIOUS
  <2>3. GoesThrough(g, init, "sweep", ves, seq, M)
    BY <2>1, <2>2, FoldSteps, Zenon
  <2> QED
    BY <2>3, Zenon DEF GoesThrough
<1>10. Sweeps(st, init, ves, seq, M)
  BY <1>1, <1>9, Zenon DEF Sweeps, Steps
<1>11. SweepAll(init, ves, seq) = st[M]
  BY <1>2, <1>7, <1>9, Zenon
<1> QED
  BY <1>10, <1>11

(* What the sweep has done after n points: a vessel that arrived shares a  *)
(* closed zone with all that were there, or they are all in the open zone. *)

\* Vessel i is at the terminal when vessel a arrives.
There(ves, i, a) ==
  ves.arrival[i] <= ves.arrival[a] /\ ves.departure[i] > ves.arrival[a]

\* Some zone holds all the vessels that are there when a arrives.
Covers(ves, V, zones, a) ==
  \E z \in 1..Len(zones) : \A i \in 1..V : There(ves, i, a) => i \in zones[z].vessels

\* A state of the sweep has its fields.
Sweeping(s) == {"zones", "vSet", "leaving", "start", "end"} \subseteq DOMAIN s

\* After n points: s is leaving only right after a departure, has those that
\* are there in its open zone, and covers the vessels that arrived.
Swept(ves, V, at, off, n, s) ==
  /\ Sweeping(s) /\ \E S : s.zones \in Seq(S)
  /\ s.leaving = FALSE \/ (s.leaving = TRUE /\ \E d \in 1..V : off[d] = n)
  /\ \A i \in 1..V : at[i] <= n /\ off[i] > n => i \in s.vSet
  /\ \A a \in 1..V : at[a] <= n =>
       \/ Covers(ves, V, s.zones, a)
       \/ \A i \in 1..V : There(ves, i, a) /\ at[i] <= n => i \in s.vSet

\* A zone that is added covers whom it holds, and uncovers nobody.
LEMMA AppendZone ==
  ASSUME NEW ves, NEW V, NEW zones, NEW S, zones \in Seq(S), NEW r
  PROVE  /\ \E U : Append(zones, r) \in Seq(U)
         /\ \A a : Covers(ves, V, zones, a) => Covers(ves, V, Append(zones, r), a)
         /\ \A a : (\A i \in 1..V : There(ves, i, a) => i \in r.vessels)
                     => Covers(ves, V, Append(zones, r), a)
<1>1. PICK M, app : M = Len(zones) /\ app = Append(zones, r)
  OBVIOUS
<1>2. /\ M \in Nat /\ Len(app) = M + 1 /\ app[M + 1] = r /\ \A z \in 1..M : app[z] = zones[z]
      /\ \E U : app \in Seq(U)
  <2>1. PICK U : U = S \cup {r}
    OBVIOUS
  <2>2. zones \in Seq(U) /\ r \in U
    <3>1. S \subseteq U /\ r \in U
      BY <2>1
    <3> QED
      BY <3>1, SeqMonotonic
  <2>3. app \in Seq(U)
    BY <1>1, <2>2
  <2>4. /\ M \in Nat /\ Len(app) = M + 1 /\ app[M + 1] = r
        /\ \A z \in 1..M : app[z] = zones[z]
    BY <1>1, <2>2
  <2> QED
    BY <2>3, <2>4
<1>3. ASSUME NEW a, Covers(ves, V, zones, a)
      PROVE  Covers(ves, V, app, a)
  <2>1. PICK z \in 1..M : \A i \in 1..V : There(ves, i, a) => i \in zones[z].vessels
    BY <1>1, <1>3 DEF Covers
  <2>2. z \in 1..Len(app) /\ app[z] = zones[z]
    BY <1>2
  <2> QED
    BY <2>1, <2>2, Zenon DEF Covers
<1>4. ASSUME NEW a, \A i \in 1..V : There(ves, i, a) => i \in r.vessels
      PROVE  Covers(ves, V, app, a)
  <2>1. PICK z : z = M + 1
    OBVIOUS
  <2>2. z \in 1..Len(app) /\ app[z] = r
    BY <1>2, <2>1
  <2> QED
    BY <1>4, <2>2, Zenon DEF Covers
<1> QED
  BY <1>1, <1>2, <1>3, <1>4

\* c is s with its zone closed at time t.
Closed(c, s, ves, t) ==
  /\ Sweeping(c) /\ c.leaving = FALSE
  /\ \E r : c.zones = Append(s.zones, r) /\ r.vessels = s.vSet
  /\ \A v : v \in c.vSet <=> v \in s.vSet /\ ves.departure[v] > t

\* CloseZone() does just that.
LEMMA CloseFacts == \A ves, s, t : Closed(CloseZone(s, ves, t), s, ves, t)
<1> SUFFICES ASSUME NEW ves, NEW s, NEW t
             PROVE  Closed(CloseZone(s, ves, t), s, ves, t)
  OBVIOUS
<1>1. PICK c : c = CloseZone(s, ves, t)
  OBVIOUS
<1>2. PICK r : r = [Start |-> s.start, End |-> t, vessels |-> s.vSet]
  OBVIOUS
<1>3. /\ DOMAIN c = {"zones", "vSet", "leaving", "start", "end"}
      /\ c.zones = Append(s.zones, r) /\ c.leaving = FALSE
      /\ c.vSet = {v \in s.vSet : ves.departure[v] > t}
  BY <1>1, <1>2, Zenon DEF CloseZone
<1>4. r.vessels = s.vSet
  BY <1>2
<1>5. \A v : v \in c.vSet <=> v \in s.vSet /\ ves.departure[v] > t
  BY <1>3, Zenon
<1>6. Sweeping(c)
  BY <1>3, Zenon DEF Sweeping
<1> QED
  BY <1>1, <1>3, <1>4, <1>5, <1>6, Zenon DEF Closed

\* What the order of the points says of those up to n.
LEMMA OrderFacts ==
  ASSUME NEW ves, NEW V, Schedule(ves, V), NEW pts, NEW at, NEW off, NEW N,
         Listed(ves, V, pts, at, off, N), NEW n \in 1..N - 1
  PROVE  /\ \A a, i \in 1..V : \A d \in 1..V :
              off[d] = n /\ at[a] <= n /\ at[i] > n => ~There(ves, i, a)
         /\ \A b, i \in 1..V : at[b] = n + 1 /\ off[i] > n + 1
              => ves.departure[i] > ves.arrival[b]
         /\ \A b, i \in 1..V : at[b] = n + 1 /\ off[i] <= n => ~There(ves, i, b)
         /\ \A b, i \in 1..V : at[b] = n + 1 /\ at[i] <= n + 1 => at[i] <= n \/ i = b
         /\ \A b, i \in 1..V : off[b] = n + 1 /\ at[i] <= n + 1 => at[i] <= n
<1>1. /\ N \in Nat /\ n \in Nat
      /\ \A i \in 1..V : at[i] \in Int /\ off[i] \in Int
      /\ \A i \in 1..V : ves.arrival[i] \in Int /\ ves.departure[i] \in Int
      /\ \A i, j \in 1..V : /\ at[i] < off[j] => ves.arrival[i] < ves.departure[j]
                            /\ off[i] < at[j] => ves.departure[i] <= ves.arrival[j]
                            /\ at[i] < at[j] => ves.arrival[i] <= ves.arrival[j]
                            /\ at[i] = at[j] => i = j
                            /\ at[i] # off[j]
  <2>1. N \in Nat /\ n \in Nat
    BY DEF Listed
  <2>2. \A i \in 1..V : at[i] \in Int /\ off[i] \in Int
    BY <2>1 DEF Listed
  <2>3. \A i \in 1..V : ves.arrival[i] \in Int /\ ves.departure[i] \in Int
    BY DEF Schedule
  <2> QED
    BY <2>1, <2>2, <2>3 DEF Listed
<1>2. ASSUME NEW a \in 1..V, NEW i \in 1..V, NEW d \in 1..V,
             off[d] = n, at[a] <= n, at[i] > n
      PROVE  ~There(ves, i, a)
  <2>1. at[a] < off[d] /\ off[d] < at[i]
    BY <1>1, <1>2
  <2>2. ves.arrival[a] < ves.departure[d] /\ ves.departure[d] <= ves.arrival[i]
    BY <1>1, <2>1
  <2> QED
    BY <1>1, <2>2 DEF There
<1>3. ASSUME NEW b \in 1..V, NEW i \in 1..V, at[b] = n + 1, off[i] > n + 1
      PROVE  ves.departure[i] > ves.arrival[b]
  BY <1>1, <1>3
<1>4. ASSUME NEW b \in 1..V, NEW i \in 1..V, at[b] = n + 1, off[i] <= n
      PROVE  ~There(ves, i, b)
  <2>1. ves.departure[i] <= ves.arrival[b]
    BY <1>1, <1>4
  <2> QED
    BY <1>1, <2>1 DEF There
<1>5. ASSUME NEW b \in 1..V, NEW i \in 1..V, at[b] = n + 1, at[i] <= n + 1
      PROVE  at[i] <= n \/ i = b
  BY <1>1, <1>5
<1>6. ASSUME NEW b \in 1..V, NEW i \in 1..V, off[b] = n + 1, at[i] <= n + 1
      PROVE  at[i] <= n
  BY <1>1, <1>6
<1> QED
  BY <1>2, <1>3, <1>4, <1>5, <1>6

\* t is s with vessel b, which came.
Coming(t, s, b) ==
  DOMAIN t = DOMAIN s /\ t.zones = s.zones /\ t.leaving = s.leaving /\ t.vSet = s.vSet \cup {b}

\* s has the fields of a state of the sweep, and knows whether vessels leave.
Fielded(s) == Sweeping(s) /\ s.leaving \in BOOLEAN

\* The zone that is open when vessel b arrives.
Opened(s, ves, b) == IF s.leaving THEN CloseZone(s, ves, ves.arrival[b]) ELSE s

\* Vessel b comes to those of s, without and after the close of a zone.
LEMMA SweepArrives ==
  ASSUME NEW ves, NEW s, NEW b, Fielded(s)
  PROVE  Coming(Sweep(s, ves, Arrival(ves, b)), Opened(s, ves, b), b)
<1>1. Sweeping(s) /\ s.leaving \in BOOLEAN
  BY DEF Fielded
<1>2. PICK c : c = Opened(s, ves, b)
  OBVIOUS
<1>3. c = IF s.leaving THEN CloseZone(s, ves, ves.arrival[b]) ELSE s
  BY <1>2, Zenon DEF Opened
<1>4. Sweeping(c)
  <2>1. CASE s.leaving
    <3>1. c = CloseZone(s, ves, ves.arrival[b])
      BY <1>3, <2>1, Zenon
    <3> QED
      BY <3>1, CloseFacts, Zenon DEF Closed
  <2>2. CASE ~s.leaving
    BY <1>1, <1>3, <2>2, Zenon
  <2> QED
    BY <2>1, <2>2
<1>5. PICK p : p = Arrival(ves, b)
  OBVIOUS
<1>6. p.Arrive = TRUE /\ p.ID = b /\ p.Time = ves.arrival[b]
  BY <1>5 DEF Arrival, TimePoint
<1>7. Sweep(s, ves, p) = [c EXCEPT !.vSet = @ \cup {b}]
  <2>1. c = IF s.leaving THEN CloseZone(s, ves, p.Time) ELSE s
    BY <1>3, <1>6, Zenon
  <2>2. p.Arrive
    BY <1>6
  <2>3. Sweep(s, ves, p) = [c EXCEPT !.vSet = @ \cup {p.ID}]
    BY <2>1, <2>2, Zenon DEF Sweep
  <2> QED
    BY <1>6, <2>3, Zenon
<1>8. PICK t : t = [c EXCEPT !.vSet = @ \cup {b}]
  OBVIOUS
<1>9. DOMAIN t = DOMAIN c /\ t.zones = c.zones /\ t.leaving = c.leaving
  BY <1>4, <1>8 DEF Sweeping
<1>10. t.vSet = c.vSet \cup {b}
  BY <1>4, <1>8 DEF Sweeping
<1>11. Coming(t, c, b)
  BY <1>9, <1>10, Zenon DEF Coming
<1>12. t = Sweep(s, ves, Arrival(ves, b))
  BY <1>5, <1>7, <1>8, Zenon
<1> QED
  BY <1>2, <1>11, <1>12, Zenon

\* t is s while vessels leave, b among them.
Leaving(t, s, b) ==
  /\ DOMAIN t = DOMAIN s /\ t.zones = s.zones /\ t.leaving = TRUE
  /\ t.vSet = s.vSet \cup {b}

\* The point at which vessel b leaves.
LEMMA SweepLeaves ==
  ASSUME NEW ves, NEW s, NEW b, Sweeping(s)
  PROVE  Leaving(Sweep(s, ves, Departure(ves, b)), s, b)
<1>1. PICK p : p = Departure(ves, b)
  OBVIOUS
<1>2. p.Arrive = FALSE /\ p.ID = b
  BY <1>1 DEF Departure, TimePoint
<1>3. Sweep(s, ves, p) = [s EXCEPT !.vSet = @ \cup {b}, !.leaving = TRUE, !.end = p.Time]
  <2>1. ~p.Arrive
    BY <1>2
  <2>2. Sweep(s, ves, p)
          = [s EXCEPT !.vSet = @ \cup {p.ID}, !.leaving = TRUE, !.end = p.Time]
    BY <2>1, Zenon DEF Sweep
  <2> QED
    BY <1>2, <2>2, Zenon
<1>4. PICK e, t : e = p.Time /\ t = [s EXCEPT !.vSet = @ \cup {b}, !.leaving = TRUE, !.end = e]
  OBVIOUS
<1>5. DOMAIN t = DOMAIN s /\ t.zones = s.zones /\ t.leaving = TRUE
  BY <1>4 DEF Sweeping
<1>6. t.vSet = s.vSet \cup {b}
  BY <1>4 DEF Sweeping
<1> QED
  BY <1>1, <1>3, <1>4, <1>5, <1>6, Zenon DEF Leaving

\* Every point of the sweep preserves what it is to achieve.
LEMMA SweepStep ==
  ASSUME NEW ves, NEW V, Schedule(ves, V), NEW pts, NEW at, NEW off, NEW N,
         Listed(ves, V, pts, at, off, N), NEW n \in 1..N - 1,
         NEW s, Swept(ves, V, at, off, n, s)
  PROVE  Swept(ves, V, at, off, n + 1, Sweep(s, ves, pts[n + 1]))
<1>1. /\ N \in Nat /\ n \in Nat /\ n + 1 \in 1..N
      /\ \A i \in 1..V : at[i] \in Int /\ off[i] \in Int
  <2>1. N \in Nat
    BY DEF Listed
  <2> QED
    BY <2>1 DEF Listed
<1>2. /\ Sweeping(s)
      /\ s.leaving \in BOOLEAN /\ \E S : s.zones \in Seq(S)
      /\ s.leaving = TRUE => \E d \in 1..V : off[d] = n
      /\ \A i \in 1..V : at[i] <= n /\ off[i] > n => i \in s.vSet
      /\ \A a \in 1..V : at[a] <= n =>
           \/ Covers(ves, V, s.zones, a)
           \/ \A i \in 1..V : There(ves, i, a) /\ at[i] <= n => i \in s.vSet
  BY DEF Swept
<1>3. PICK b \in 1..V : at[b] = n + 1 \/ off[b] = n + 1
  BY <1>1 DEF Listed
<1>4. CASE off[b] = n + 1
  <2>1. pts[n + 1] = Departure(ves, b)
    BY <1>4 DEF Listed
  <2>2. PICK t : /\ t = Sweep(s, ves, Departure(ves, b))
                 /\ DOMAIN t = DOMAIN s /\ t.zones = s.zones /\ t.leaving = TRUE
                 /\ t.vSet = s.vSet \cup {b}
    <3>1. Sweeping(s)
      BY <1>2
    <3>2. Leaving(Sweep(s, ves, Departure(ves, b)), s, b)
      BY <3>1, SweepLeaves, Zenon
    <3> QED
      BY <3>2, Zenon DEF Leaving
  <2>3. \A i \in 1..V : at[i] <= n + 1 => at[i] <= n
    BY <1>4, OrderFacts
  <2>4. \A i \in 1..V : off[i] > n + 1 => off[i] > n
    BY <1>1
  <2>5. \A i \in s.vSet : i \in t.vSet
    BY <2>2
  <2>6. \A i \in 1..V : at[i] <= n + 1 /\ off[i] > n + 1 => i \in t.vSet
    BY <1>2, <2>3, <2>4, <2>5
  <2>7. \A a \in 1..V : at[a] <= n + 1 =>
          \/ Covers(ves, V, t.zones, a)
          \/ \A i \in 1..V : There(ves, i, a) /\ at[i] <= n + 1 => i \in t.vSet
    BY <1>2, <2>2, <2>3, <2>5, Zenon
  <2>8. Swept(ves, V, at, off, n + 1, t)
    BY <1>2, <1>4, <2>2, <2>6, <2>7, Zenon DEF Swept, Sweeping
  <2> QED
    BY <2>1, <2>2, <2>8, Zenon
<1>5. CASE at[b] = n + 1
  <2>1. pts[n + 1] = Arrival(ves, b)
    BY <1>5 DEF Listed
  <2>2. PICK c, t : /\ c = (IF s.leaving THEN CloseZone(s, ves, ves.arrival[b]) ELSE s)
                    /\ t = Sweep(s, ves, Arrival(ves, b))
                    /\ DOMAIN t = DOMAIN c /\ t.zones = c.zones /\ t.leaving = c.leaving
                    /\ t.vSet = c.vSet \cup {b}
    <3>1. PICK c : c = Opened(s, ves, b)
      OBVIOUS
    <3>2. PICK t : t = Sweep(s, ves, Arrival(ves, b))
      OBVIOUS
    <3>3. Fielded(s)
      BY <1>2 DEF Fielded
    <3>4. Coming(t, c, b)
      BY <3>1, <3>2, <3>3, SweepArrives, Zenon
    <3>5. /\ DOMAIN t = DOMAIN c /\ t.zones = c.zones /\ t.leaving = c.leaving
          /\ t.vSet = c.vSet \cup {b}
      BY <3>4, Zenon DEF Coming
    <3>6. c = (IF s.leaving THEN CloseZone(s, ves, ves.arrival[b]) ELSE s)
      BY <3>1, Zenon DEF Opened
    <3> QED
      BY <3>2, <3>5, <3>6, Zenon
  <2>3. \A i : i \in t.vSet <=> i \in c.vSet \/ i = b
    BY <2>2
  <2>4. \A i \in 1..V : at[i] <= n + 1 => at[i] <= n \/ i = b
    BY <1>5, OrderFacts
  <2>5. \A i \in 1..V : off[i] > n + 1 => off[i] > n
    BY <1>1
  <2>6. \A i \in 1..V : off[i] <= n => ~There(ves, i, b)
    BY <1>5, OrderFacts
  <2>7. \A i \in 1..V : off[i] > n \/ off[i] <= n
    BY <1>1
  <2>8. CASE s.leaving = TRUE
    <3>1. PICK d \in 1..V : off[d] = n
      BY <1>2, <2>8
    <3>2. PICK r : /\ Sweeping(c)
                   /\ c.zones = Append(s.zones, r) /\ r.vessels = s.vSet
                   /\ \A v : v \in c.vSet <=> v \in s.vSet /\ ves.departure[v] > ves.arrival[b]
                   /\ c.leaving = FALSE
      <4>1. c = CloseZone(s, ves, ves.arrival[b])
        BY <2>2, <2>8, Zenon
      <4>2. Closed(c, s, ves, ves.arrival[b])
        BY <4>1, CloseFacts, Zenon
      <4> QED
        BY <4>2, Zenon DEF Closed
    <3>3. PICK S : s.zones \in Seq(S)
      BY <1>2
    <3>4. /\ \E U : c.zones \in Seq(U)
          /\ \A a : Covers(ves, V, s.zones, a) => Covers(ves, V, c.zones, a)
          /\ \A a : (\A i \in 1..V : There(ves, i, a) => i \in r.vessels)
                      => Covers(ves, V, c.zones, a)
      BY <3>2, <3>3, AppendZone, Zenon
    <3>5. ASSUME NEW a \in 1..V, at[a] <= n
          PROVE  Covers(ves, V, c.zones, a)
      <4>1. \A i \in 1..V : at[i] > n => ~There(ves, i, a)
        BY <3>1, <3>5, OrderFacts
      <4>2. \A i \in 1..V : at[i] > n \/ at[i] <= n
        BY <1>1
      <4>3. \/ Covers(ves, V, s.zones, a)
            \/ \A i \in 1..V : There(ves, i, a) => i \in s.vSet
        BY <1>2, <3>5, <4>1, <4>2, Zenon
      <4> QED
        BY <3>2, <3>4, <4>3, Zenon
    <3>6. ASSUME NEW i \in 1..V, at[i] <= n + 1, off[i] > n + 1
          PROVE  i \in t.vSet
      <4>1. ves.departure[i] > ves.arrival[b]
        BY <1>5, <3>6, OrderFacts
      <4>2. at[i] <= n => i \in s.vSet
        BY <1>2, <2>5, <3>6
      <4> QED
        BY <2>3, <2>4, <3>2, <3>6, <4>1, <4>2
    <3>7. ASSUME NEW i \in 1..V, There(ves, i, b), at[i] <= n + 1
          PROVE  i \in t.vSet
      <4>1. ves.departure[i] > ves.arrival[b]
        BY <3>7 DEF There
      <4>2. off[i] > n
        BY <2>6, <2>7, <3>7
      <4>3. at[i] <= n => i \in s.vSet
        BY <1>2, <4>2
      <4> QED
        BY <2>3, <2>4, <3>2, <3>7, <4>1, <4>3
    <3>8. \A a \in 1..V : at[a] <= n + 1 =>
            \/ Covers(ves, V, t.zones, a)
            \/ \A i \in 1..V : There(ves, i, a) /\ at[i] <= n + 1 => i \in t.vSet
      <4>1. ASSUME NEW a \in 1..V, at[a] <= n
            PROVE  Covers(ves, V, t.zones, a)
        BY <2>2, <3>5, <4>1, Zenon
      <4>2. \A i \in 1..V : There(ves, i, b) /\ at[i] <= n + 1 => i \in t.vSet
        BY <3>7
      <4> QED
        BY <2>4, <4>1, <4>2, Zenon
    <3>9. Swept(ves, V, at, off, n + 1, t)
      BY <2>2, <3>2, <3>4, <3>6, <3>8, Zenon DEF Swept, Sweeping
    <3> QED
      BY <2>1, <2>2, <3>9, Zenon
  <2>9. CASE s.leaving = FALSE
    <3>1. c = s
      BY <2>2, <2>9
    <3>2. ASSUME NEW i \in 1..V, at[i] <= n + 1, off[i] > n + 1
          PROVE  i \in t.vSet
      <4>1. at[i] <= n => i \in s.vSet
        BY <1>2, <2>5, <3>2
      <4> QED
        BY <2>3, <2>4, <3>1, <3>2, <4>1
    <3>3. ASSUME NEW i \in 1..V, There(ves, i, b), at[i] <= n + 1
          PROVE  i \in t.vSet
      <4>1. off[i] > n
        BY <2>6, <2>7, <3>3
      <4>2. at[i] <= n => i \in s.vSet
        BY <1>2, <4>1
      <4> QED
        BY <2>3, <2>4, <3>1, <3>3, <4>2
    <3>4. \A a \in 1..V : at[a] <= n + 1 =>
            \/ Covers(ves, V, t.zones, a)
            \/ \A i \in 1..V : There(ves, i, a) /\ at[i] <= n + 1 => i \in t.vSet
      <4>1. ASSUME NEW a \in 1..V, at[a] <= n
            PROVE  \/ Covers(ves, V, t.zones, a)
                   \/ \A i \in 1..V : There(ves, i, a) /\ at[i] <= n + 1 => i \in t.vSet
        <5>1. \/ Covers(ves, V, s.zones, a)
              \/ \A i \in 1..V : There(ves, i, a) /\ at[i] <= n => i \in s.vSet
          BY <1>2, <4>1
        <5>2. (\A i \in 1..V : There(ves, i, a) /\ at[i] <= n => i \in s.vSet)
                => \A i \in 1..V : There(ves, i, a) /\ at[i] <= n + 1 => i \in t.vSet
          BY <2>3, <2>4, <3>1, Zenon
        <5> QED
          BY <2>2, <3>1, <5>1, <5>2, Zenon
      <4>2. \A i \in 1..V : There(ves, i, b) /\ at[i] <= n + 1 => i \in t.vSet
        BY <3>3
      <4> QED
        BY <2>4, <4>1, <4>2, Zenon
    <3>5. t.leaving = FALSE /\ Sweeping(t)
          /\ \E U : t.zones \in Seq(U)
      BY <1>2, <2>2, <2>9, <3>1, Zenon DEF Sweeping
    <3>6. Swept(ves, V, at, off, n + 1, t)
      BY <3>2, <3>4, <3>5, Zenon DEF Swept
    <3> QED
      BY <2>1, <2>2, <3>6, Zenon
  <2> QED
    BY <1>2, <2>8, <2>9
<1> QED
  BY <1>3, <1>4, <1>5

LEMMA FirstSwept ==
  ASSUME NEW ves, NEW V, Schedule(ves, V), NEW pts, NEW at, NEW off, NEW N,
         Listed(ves, V, pts, at, off, N), NEW s, Sweeping(s),
         s.zones = <<>>, s.vSet = {pts[1].ID}, s.leaving = FALSE
  PROVE  Swept(ves, V, at, off, 1, s)
<1>1. /\ N \in Nat \ {0} /\ 1 \in 1..N
      /\ \A i \in 1..V : /\ at[i] \in 1..N /\ pts[at[i]] = Arrival(ves, i)
                         /\ at[i] \in Int /\ 1 <= at[i]
  <2>1. N \in Nat \ {0} /\ \A i \in 1..V : at[i] \in 1..N /\ pts[at[i]] = Arrival(ves, i)
    BY DEF Listed
  <2> QED
    BY <2>1
<1>2. ASSUME NEW i \in 1..V, at[i] <= 1
      PROVE  i \in s.vSet
  <2>1. at[i] = 1
    BY <1>1, <1>2
  <2>2. pts[1] = Arrival(ves, i)
    BY <1>1, <2>1
  <2>3. pts[1].ID = i
    BY <2>2 DEF Arrival, TimePoint
  <2> QED
    BY <2>3
<1>3. \E S : s.zones \in Seq(S)
  <2>1. <<>> \in Seq({})
    OBVIOUS
  <2> QED
    BY <2>1
<1> QED
  BY <1>2, <1>3, Zenon DEF Swept

\* There are only vessels in the zones, those that are closed and the open one.
VesselZones(V, zones) ==
  (\E S : zones \in Seq(S)) /\ \A z \in 1..Len(zones) : zones[z].vessels \in SUBSET (1..V)
OnlyVessels(V, s) == Fielded(s) /\ s.vSet \in SUBSET (1..V) /\ VesselZones(V, s.zones)

LEMMA AppendVessels ==
  \A V, zones, r : VesselZones(V, zones) /\ r.vessels \in SUBSET (1..V)
    => VesselZones(V, Append(zones, r))
<1> SUFFICES ASSUME NEW V, NEW zones, NEW r, VesselZones(V, zones), r.vessels \in SUBSET (1..V)
             PROVE  VesselZones(V, Append(zones, r))
  OBVIOUS
<1>1. PICK S : zones \in Seq(S)
  BY DEF VesselZones
<1>2. PICK M, app, U : M = Len(zones) /\ app = Append(zones, r) /\ U = S \cup {r}
  OBVIOUS
<1>3. zones \in Seq(U) /\ r \in U
  <2>1. S \subseteq U /\ r \in U
    BY <1>2
  <2> QED
    BY <1>1, <2>1, SeqMonotonic
<1>4. /\ M \in Nat /\ Len(app) = M + 1 /\ app[M + 1] = r /\ \A z \in 1..M : app[z] = zones[z]
      /\ app \in Seq(U)
  BY <1>2, <1>3, AppendProperties, LenProperties
<1>5. \A z \in 1..M : zones[z].vessels \in SUBSET (1..V)
  BY <1>2 DEF VesselZones
<1>6. \A z \in 1..M + 1 : z \in 1..M \/ z = M + 1
  BY <1>4
<1>7. \A z \in 1..M + 1 : app[z].vessels \in SUBSET (1..V)
  BY <1>4, <1>5, <1>6, Zenon
<1> QED
  BY <1>2, <1>4, <1>7, Zenon DEF VesselZones

LEMMA ClosedVessels ==
  \A V, s, c, ves, t : OnlyVessels(V, s) /\ Closed(c, s, ves, t) => OnlyVessels(V, c)
<1> SUFFICES ASSUME NEW V, NEW s, NEW c, NEW ves, NEW t, OnlyVessels(V, s), Closed(c, s, ves, t)
             PROVE  OnlyVessels(V, c)
  OBVIOUS
<1>1. PICK r : c.zones = Append(s.zones, r) /\ r.vessels = s.vSet
  BY Zenon DEF Closed
<1>2. VesselZones(V, s.zones) /\ s.vSet \in SUBSET (1..V)
  BY Zenon DEF OnlyVessels
<1>3. VesselZones(V, c.zones)
  <2>1. r.vessels \in SUBSET (1..V)
    BY <1>1, <1>2, Zenon
  <2>2. VesselZones(V, Append(s.zones, r))
    BY <1>2, <2>1, AppendVessels, Zenon
  <2> QED
    BY <1>1, <2>2, Zenon
<1>4. c.vSet \in SUBSET (1..V)
  <2>1. \A v \in c.vSet : v \in s.vSet
    BY Zenon DEF Closed
  <2> QED
    BY <1>2, <2>1
<1>5. Sweeping(c) /\ c.leaving = FALSE
  BY Zenon DEF Closed
<1>6. Fielded(c)
  BY <1>5 DEF Fielded
<1> QED
  BY <1>3, <1>4, <1>6, Zenon DEF OnlyVessels

LEMMA SweepVessels ==
  \A V, ves, s, p : OnlyVessels(V, s) /\ p \in Points(ves, V) => OnlyVessels(V, Sweep(s, ves, p))
<1> SUFFICES ASSUME NEW V, NEW ves, NEW s, NEW p, OnlyVessels(V, s), p \in Points(ves, V)
             PROVE  OnlyVessels(V, Sweep(s, ves, p))
  OBVIOUS
<1>1. PICK b \in 1..V : p = Arrival(ves, b) \/ p = Departure(ves, b)
  BY DEF Points
<1>2. Fielded(s) /\ Sweeping(s)
  BY DEF OnlyVessels, Fielded
<1>3. PICK t : t = Sweep(s, ves, p)
  OBVIOUS
<1>4. CASE p = Departure(ves, b)
  <2>1. Leaving(t, s, b)
    <3>1. Leaving(Sweep(s, ves, Departure(ves, b)), s, b)
      BY <1>2, SweepLeaves, Zenon
    <3> QED
      BY <1>3, <1>4, <3>1, Zenon
  <2>2. /\ DOMAIN t = DOMAIN s /\ t.zones = s.zones /\ t.leaving = TRUE
        /\ t.vSet = s.vSet \cup {b}
    BY <2>1, Zenon DEF Leaving
  <2>3. Fielded(t)
    BY <1>2, <2>2 DEF Fielded, Sweeping
  <2>4. VesselZones(V, t.zones) /\ s.vSet \in SUBSET (1..V)
    BY <2>2, Zenon DEF OnlyVessels
  <2>5. t.vSet \in SUBSET (1..V)
    BY <2>2, <2>4
  <2> QED
    BY <1>3, <2>3, <2>4, <2>5, Zenon DEF OnlyVessels
<1>5. CASE p = Arrival(ves, b)
  <2>1. PICK c : c = Opened(s, ves, b)
    OBVIOUS
  <2>2. Coming(t, c, b)
    <3>1. Coming(Sweep(s, ves, Arrival(ves, b)), Opened(s, ves, b), b)
      BY <1>2, SweepArrives, Zenon
    <3> QED
      BY <1>3, <1>5, <2>1, <3>1, Zenon
  <2>3. OnlyVessels(V, c)
    <3>1. CASE s.leaving
      <4>1. c = CloseZone(s, ves, ves.arrival[b])
        BY <2>1, <3>1, Zenon DEF Opened
      <4>2. Closed(c, s, ves, ves.arrival[b])
        BY <4>1, CloseFacts, Zenon
      <4> QED
        BY <4>2, ClosedVessels, Zenon
    <3>2. CASE ~s.leaving
      BY <2>1, <3>2, Zenon DEF Opened
    <3> QED
      BY <3>1, <3>2
  <2>4. /\ DOMAIN t = DOMAIN c /\ t.zones = c.zones /\ t.leaving = c.leaving
        /\ t.vSet = c.vSet \cup {b}
    BY <2>2, Zenon DEF Coming
  <2>5. Fielded(c) /\ VesselZones(V, c.zones) /\ c.vSet \in SUBSET (1..V)
    BY <2>3, Zenon DEF OnlyVessels
  <2>6. Fielded(t)
    BY <2>4, <2>5, Zenon DEF Fielded, Sweeping
  <2>7. t.vSet \in SUBSET (1..V)
    BY <2>4, <2>5
  <2>8. VesselZones(V, t.zones)
    BY <2>4, <2>5, Zenon
  <2> QED
    BY <1>3, <2>6, <2>7, <2>8, Zenon DEF OnlyVessels
<1> QED
  BY <1>1, <1>4, <1>5

\* ComputeTimeZones(): while a vessel arrives, it and all the vessels that are
\* there share a time zone, whatever the schedule.
LEMMA ZonesCover ==
  ASSUME NEW ves, NEW V, Schedule(ves, V)
  PROVE  /\ \E S : ComputeTimeZones(ves) \in Seq(S)
         /\ \A a \in 1..V : Covers(ves, V, ComputeTimeZones(ves), a)
         /\ VesselZones(V, ComputeTimeZones(ves))
<1>1. PICK pts : pts = TimePoints(ves)
  OBVIOUS
<1>2. PICK at, off, N : Listed(ves, V, pts, at, off, N)
  BY <1>1, PointsListed
<1>3. N \in Nat \ {0} /\ pts \in Seq(Points(ves, V)) /\ Len(pts) = N
  BY <1>2 DEF Listed
<1>4. PICK seq, M : seq = Tail(pts) /\ M = N - 1
  OBVIOUS
<1>5. /\ M \in Nat /\ DOMAIN seq = 1..M /\ \A n \in 1..M : seq[n] = pts[n + 1]
      /\ Head(pts) = pts[1]
  BY <1>3, <1>4
<1>6. PICK init : init = [zones |-> <<>>, vSet |-> {Head(pts).ID}, leaving |-> FALSE,
                          start |-> Head(pts).Time, end |-> UNSET]
  OBVIOUS
<1>7. PICK st : Sweeps(st, init, ves, seq, M) /\ SweepAll(init, ves, seq) = st[M]
  <2>1. Numbered(seq, M)
    BY <1>5 DEF Numbered
  <2>2. Unfolds(init, ves, seq, M)
    BY <2>1, SweepUnfolds, Zenon
  <2> QED
    BY <2>2 DEF Unfolds
<1>8. PICK last : last = st[M]
  OBVIOUS
<1>9. ComputeTimeZones(ves)
        = IF last.vSet = {} THEN last.zones ELSE CloseZone(last, ves, last.end).zones
  <2>1. last = SweepAll([zones |-> <<>>, vSet |-> {Head(TimePoints(ves)).ID}, leaving |-> FALSE,
                         start |-> Head(TimePoints(ves)).Time, end |-> UNSET],
                        ves, Tail(TimePoints(ves)))
    BY <1>1, <1>4, <1>6, <1>7, <1>8, Zenon
  <2> QED
    BY <2>1, Zenon DEF ComputeTimeZones, SweepAll
<1>10. Swept(ves, V, at, off, 1, init) /\ OnlyVessels(V, init)
  <2>1. Sweeping(init)
    BY <1>6, Zenon DEF Sweeping
  <2>2. init.zones = <<>> /\ init.vSet = {Head(pts).ID} /\ init.leaving = FALSE
    BY <1>6, Zenon
  <2>3. init.vSet = {pts[1].ID}
    BY <1>5, <2>2, Zenon
  <2>4. Swept(ves, V, at, off, 1, init)
    BY <1>2, <2>1, <2>2, <2>3, FirstSwept
  <2>5. OnlyVessels(V, init)
    <3>1. Fielded(init)
      BY <2>1, <2>2 DEF Fielded
    <3>2. VesselZones(V, init.zones)
      <4>1. <<>> \in Seq({}) /\ Len(<<>>) = 0
        OBVIOUS
      <4>2. VesselZones(V, <<>>)
        BY <4>1 DEF VesselZones
      <4> QED
        BY <2>2, <4>2, Zenon
    <3>3. init.vSet \in SUBSET (1..V)
      <4>1. pts[1] \in Points(ves, V)
        BY <1>3
      <4>2. PICK i \in 1..V : pts[1] = Arrival(ves, i) \/ pts[1] = Departure(ves, i)
        BY <4>1 DEF Points
      <4>3. pts[1].ID = i
        BY <4>2 DEF Arrival, Departure, TimePoint
      <4> QED
        BY <2>3, <4>3
    <3> QED
      BY <3>1, <3>2, <3>3, Zenon DEF OnlyVessels
  <2> QED
    BY <2>4, <2>5
<1>11. \A n \in Nat : n <= M => Swept(ves, V, at, off, n + 1, st[n]) /\ OnlyVessels(V, st[n])
  <2> DEFINE B == {n \in Nat :
                     n <= M => Swept(ves, V, at, off, n + 1, st[n]) /\ OnlyVessels(V, st[n])}
  <2>1. ASSUME NEW n \in Nat, \A m \in Nat : m < n => m \in B, n <= M
        PROVE  Swept(ves, V, at, off, n + 1, st[n]) /\ OnlyVessels(V, st[n])
    <3>1. CASE n = 0
      <4>1. st[0] = init
        BY <1>7, Zenon DEF Sweeps
      <4>2. st[n] = init /\ n + 1 = 1
        BY <3>1, <4>1
      <4> QED
        BY <1>10, <4>2
    <3>2. CASE n # 0
      <4>1. PICK m : m = n - 1
        OBVIOUS
      <4>2. m \in Nat /\ m < n /\ m <= M /\ n \in 1..M /\ m + 1 = n /\ n \in 1..N - 1
        BY <1>3, <1>4, <2>1, <3>2, <4>1
      <4>3. Swept(ves, V, at, off, n, st[m]) /\ OnlyVessels(V, st[m])
        BY <2>1, <4>2
      <4>4. st[n] = Sweep(st[m], ves, pts[n + 1])
        BY <1>5, <1>7, <4>1, <4>2 DEF Sweeps
      <4>5. Swept(ves, V, at, off, n + 1, Sweep(st[m], ves, pts[n + 1]))
        BY <1>2, <4>2, <4>3, SweepStep
      <4>6. OnlyVessels(V, Sweep(st[m], ves, pts[n + 1]))
        <5>1. pts[n + 1] \in Points(ves, V)
          BY <1>3, <4>2
        <5> QED
          BY <4>3, <5>1, SweepVessels, Zenon
      <4> QED
        BY <4>4, <4>5, <4>6, Zenon
    <3> QED
      BY <3>1, <3>2
  <2>2. \A n \in Nat : n \in B
    <3>1. \A n \in Nat : (\A m \in Nat : m < n => m \in B) => n \in B
      BY <2>1
    <3> HIDE DEF B
    <3>2. B \in SUBSET Nat
      BY DEF B
    <3> QED
      BY <3>1, <3>2, Induction
  <2> QED
    BY <2>2
<1>12. Swept(ves, V, at, off, N, last) /\ OnlyVessels(V, last)
  <2>1. M + 1 = N /\ M <= M
    BY <1>3, <1>4
  <2> QED
    BY <1>5, <1>8, <1>11, <2>1
<1>13. \A i \in 1..V : at[i] <= N
  BY <1>2, <1>3 DEF Listed
<1>14. /\ \E S : last.zones \in Seq(S)
       /\ \A a \in 1..V : \/ Covers(ves, V, last.zones, a)
                          \/ \A i \in 1..V : There(ves, i, a) => i \in last.vSet
  BY <1>12, <1>13, Zenon DEF Swept
<1>15. \A a \in 1..V : There(ves, a, a)
  BY DEF Schedule, There
<1>16. CASE last.vSet = {}
  <2>1. \A a \in 1..V : Covers(ves, V, last.zones, a)
    BY <1>14, <1>15, <1>16, Zenon
  <2>2. ComputeTimeZones(ves) = last.zones
    BY <1>9, <1>16, Zenon
  <2>3. VesselZones(V, last.zones)
    BY <1>12, Zenon DEF OnlyVessels
  <2> QED
    BY <1>14, <2>1, <2>2, <2>3, Zenon
<1>17. CASE last.vSet # {}
  <2>1. PICK c : c = CloseZone(last, ves, last.end)
    OBVIOUS
  <2>2. Closed(c, last, ves, last.end)
    BY <2>1, CloseFacts, Zenon
  <2>3. PICK r : c.zones = Append(last.zones, r) /\ r.vessels = last.vSet
    BY <2>2, Zenon DEF Closed
  <2>4. PICK S : last.zones \in Seq(S)
    BY <1>14
  <2>5. /\ \E U : c.zones \in Seq(U)
        /\ \A a : Covers(ves, V, last.zones, a) => Covers(ves, V, c.zones, a)
        /\ \A a : (\A i \in 1..V : There(ves, i, a) => i \in r.vessels)
                    => Covers(ves, V, c.zones, a)
    BY <2>3, <2>4, AppendZone, Zenon
  <2>6. \A a \in 1..V : Covers(ves, V, c.zones, a)
    BY <1>14, <2>3, <2>5, Zenon
  <2>7. ComputeTimeZones(ves) = c.zones
    BY <1>9, <1>17, <2>1, Zenon
  <2>8. VesselZones(V, c.zones)
    <3>1. OnlyVessels(V, c)
      BY <1>12, <2>2, ClosedVessels, Zenon
    <3> QED
      BY <3>1, Zenon DEF OnlyVessels
  <2> QED
    BY <2>5, <2>6, <2>7, <2>8, Zenon
<1> QED
  BY <1>16, <1>17

(* The package of a project.                                               *)

\* Min() finds the least time zone, Max() the highest number of a range.
LEMMA LeastZone ==
  ASSUME NEW M \in Nat, NEW T \in SUBSET (1..M), T # {}
  PROVE  Min(T) \in T /\ \A m \in T : Min(T) <= m
<1>1. T \in SUBSET Nat
  OBVIOUS
<1>2. \E n \in T : \A m \in T : n <= m
  BY <1>1, Smallest
<1> QED
  BY <1>2, Zenon DEF Min

LEMMA MaxUpTo ==
  ASSUME NEW M \in Nat
  PROVE  Max(0..M) = M
<1>1. \E n \in 0..M : \A m \in 0..M : n >= m
  OBVIOUS
<1>2. PICK T, n : T = 0..M /\ n = Max(T)
  OBVIOUS
<1>3. n \in T /\ \A m \in T : n >= m
  BY <1>1, <1>2, Zenon DEF Max
<1>4. M \in T
  BY <1>2
<1> QED
  BY <1>2, <1>3, <1>4

\* A package made from the vessels, sections and flows of a dataset.
LEMMA PackageFacts ==
  ASSUME NEW files, DatasetOK(files), NEW p, NEW V, NEW K,
         {"ves", "sect", "trans", "zones"} \subseteq DOMAIN p,
         p.ves = ReadVessels(files.ves), p.sect = ReadSections(files.sect),
         V = Max(DOMAIN p.ves.length), K = Max(DOMAIN p.sect.length),
         p.trans = ReadTranshipments(files.trans, V), p.zones = ComputeTimeZones(p.ves)
  PROVE  Good(p) /\ Zoned(p)
<1>1. PICK ves, sect, trans, zones :
        ves = p.ves /\ sect = p.sect /\ trans = p.trans /\ zones = p.zones
  OBVIOUS
<1>2. /\ V \in Nat \ {0} /\ DOMAIN ves.length = 0..V
      /\ \A v \in 1..V : /\ ves.length[v] \in Nat
                         /\ {ves.arrival[v], ves.departure[v]} \subseteq Int
                         /\ ves.arrival[v] < ves.departure[v]
      /\ K \in Nat /\ DOMAIN sect.length = 0..K
      /\ \A k \in 1..K : sect.length[k] \in Nat
      /\ \A k, l \in 0..K : sect.dist[<<k, l>>] \in Nat
      /\ \A i, j \in 0..V : trans[<<i, j>>] \in Nat
  <2> DEFINE OK(vs, st, tr, W, L) ==
        /\ W \in Nat \ {0} /\ DOMAIN vs.length = 0..W
        /\ \A v \in 1..W : /\ vs.length[v] \in Nat
                           /\ {vs.arrival[v], vs.departure[v]} \subseteq Int
                           /\ vs.arrival[v] < vs.departure[v]
        /\ L \in Nat /\ DOMAIN st.length = 0..L
        /\ \A k \in 1..L : st.length[k] \in Nat
        /\ \A k, l \in 0..L : st.dist[<<k, l>>] \in Nat
        /\ \A i, j \in 0..W : tr[<<i, j>>] \in Nat
  <2>1. OK(ReadVessels(files.ves), ReadSections(files.sect),
           ReadTranshipments(files.trans, Max(DOMAIN ReadVessels(files.ves).length)),
           Max(DOMAIN ReadVessels(files.ves).length), Max(DOMAIN ReadSections(files.sect).length))
    BY Zenon DEF DatasetOK
  <2> HIDE DEF OK
  <2>2. OK(ves, sect, trans, V, K)
    BY <1>1, <2>1, Zenon
  <2> QED
    BY <2>2, Zenon DEF OK
<1>3. \A v \in 1..V : ves.arrival[v] \in Int /\ ves.departure[v] \in Int
  BY <1>2
<1>4. Schedule(ves, V)
  BY <1>2, <1>3 DEF Schedule
<1>5. NumVessels(p) = V /\ NumSections(p) = K /\ VesselIDs(p) = 1..V /\ SectionIDs(p) = 1..K
  BY Zenon DEF NumVessels, NumSections, VesselIDs, SectionIDs
<1>6. PICK S, M : zones \in Seq(S) /\ M = Len(zones)
  BY <1>1, <1>4, ZonesCover, Zenon
<1>7. M \in Nat /\ NumTimeZones(p) = M
  BY <1>1, <1>6 DEF NumTimeZones
<1>8. \A a \in 1..V : \E z \in 1..M : \A i \in 1..V :
        There(ves, i, a) => i \in zones[z].vessels
  BY <1>1, <1>4, <1>6, ZonesCover, Zenon DEF Covers
<1>9. ASSUME NEW i, NEW z \in 1..M, i \in zones[z].vessels
      PROVE  z \in Zones(p, i) /\ Zones(p, i) \in SUBSET (1..M)
  <2>1. PICK T, a, b : T = TimeZones(p, i) /\ a = Min(T) /\ b = Max(T)
    OBVIOUS
  <2>2. T \in SUBSET (1..M) /\ z \in T
    <3>1. TimeZones(p, i) = {y \in 1..M : i \in zones[y].vessels}
      BY <1>1, <1>7, Zenon DEF TimeZones
    <3> QED
      BY <1>9, <2>1, <3>1
  <2>3. a \in T /\ b \in T /\ a <= z /\ z <= b
    <3>1. T # {}
      BY <2>2
    <3>2. a \in T /\ \A m \in T : a <= m
      BY <1>7, <2>1, <2>2, <3>1, LeastZone
    <3>3. b \in T /\ \A m \in T : b >= m
      BY <1>7, <2>1, <2>2, <3>1, Greatest
    <3>4. b \in Int /\ z \in Int
      BY <2>2, <3>3
    <3> QED
      BY <2>2, <3>2, <3>3, <3>4
  <2>4. Zones(p, i) = a..b
    BY <2>1, Zenon DEF Zones, StartTimeZone, EndTimeZone
  <2>5. a \in 1..M /\ b \in 1..M
    BY <2>2, <2>3
  <2> QED
    BY <1>7, <2>3, <2>4, <2>5
<1>10. ASSUME NEW i \in 1..V
       PROVE  Zones(p, i) \in SUBSET (1..M)
  <2>1. There(ves, i, i)
    BY <1>2, <1>3 DEF There
  <2>2. PICK z \in 1..M : i \in zones[z].vessels
    BY <1>8, <2>1
  <2> QED
    BY <1>9, <2>2
<1>11. Usable(p)
  BY <1>1, <1>2, <1>3, <1>5, <1>7, <1>10 DEF Usable
<1>12. Covered(p)
  <2> SUFFICES ASSUME NEW a \in 1..V
               PROVE  \E z \in 1..M : \A i \in 1..V :
                        p.ves.arrival[i] <= p.ves.arrival[a]
                          /\ p.ves.departure[i] > p.ves.arrival[a] => z \in Zones(p, i)
    BY <1>5, <1>7, Zenon DEF Covered
  <2>1. PICK z \in 1..M : \A i \in 1..V : There(ves, i, a) => i \in zones[z].vessels
    BY <1>8
  <2>2. \A i \in 1..V : There(ves, i, a) => z \in Zones(p, i)
    BY <1>9, <2>1
  <2> QED
    BY <1>1, <2>2, Zenon DEF There
<1>13. Charged(p)
  BY <1>1, <1>2, <1>5, Zenon DEF Charged
<1>14. Zoned(p)
  <2>1. VesselZones(V, zones)
    BY <1>1, <1>4, ZonesCover, Zenon
  <2>2. \A z \in 1..M : zones[z].vessels \in SUBSET (1..V)
    BY <1>6, <2>1 DEF VesselZones
  <2>3. \A z \in 1..M : \A i \in zones[z].vessels : i \in 1..V /\ z \in Zones(p, i)
    BY <1>9, <2>2
  <2> QED
    BY <1>1, <1>5, <1>7, <2>3, Zenon DEF Zoned
<1> QED
  BY <1>11, <1>12, <1>13, <1>14 DEF Good

\* NewPackage(): the package of every project is good, as its dataset is complete.
LEMMA PackageGood ==
  ASSUME NEW file \in Projects
  PROVE  Good(NewPackage(ReadProject(file))) /\ Zoned(NewPackage(ReadProject(file)))
<1>1. PICK p, project, files : /\ p = NewPackage(ReadProject(file))
                               /\ project = ReadProject(file)
                               /\ files = Database[project["_DATASET"]]
  OBVIOUS
<1>2. DatasetOK(files)
  BY <1>1, ProjectsAssumption, DatasetAssumption
<1>3. PICK ves, V : ves = ReadVessels(files.ves) /\ V = Max(DOMAIN ves.length)
  OBVIOUS
<1>4. /\ p.ves = ves /\ p.sect = ReadSections(files.sect)
      /\ p.trans = ReadTranshipments(files.trans, V) /\ p.zones = ComputeTimeZones(ves)
  BY <1>1, <1>3, Zenon DEF NewPackage
<1>5. {"ves", "sect", "trans", "zones"} \subseteq DOMAIN p
  BY <1>1, Zenon DEF NewPackage
<1>6. PICK K : K = Max(DOMAIN p.sect.length)
  OBVIOUS
<1> QED
  BY <1>1, <1>2, <1>3, <1>4, <1>5, <1>6, PackageFacts, Zenon

(***************************************************************************)
(* Solutions.  A solution gives each vessel a section or UNASSIGNED.       *)
(***************************************************************************)

\* The vessels at section k, and a solution in which every section has room.
HeldAt(p, at, k) == {i \in VesselIDs(p) : at[i] = k}

Feasible(p, at) ==
  /\ \A i \in VesselIDs(p) : at[i] \in SectionIDs(p) \cup {UNASSIGNED}
  /\ \A k \in SectionIDs(p) : Fits(p, k, HeldAt(p, at, k))

\* The working copies of the sections, for a solution.
Layout(p, at) == [k \in SectionIDs(p) |-> Holding(p, k, HeldAt(p, at, k))]

\* bt is at but for vessel i, which is at k.
Puts(p, at, bt, i, k) ==
  /\ i \in VesselIDs(p)
  /\ \A j \in VesselIDs(p) : bt[j] = IF j = i THEN k ELSE at[j]

\* A section is not UNASSIGNED.
LEMMA SectionNumbers ==
  ASSUME NEW p, NEW k \in SectionIDs(p), Usable(p)
  PROVE  k \in Nat /\ k > 0 /\ k # UNASSIGNED
BY DEF SectionIDs, Usable, UNASSIGNED

\* Assign(): a vessel without a section gets one that has room.
LEMMA AssignLayout ==
  ASSUME NEW p, Usable(p), NEW at, Feasible(p, at), NEW i, at[i] = UNASSIGNED,
         NEW k \in SectionIDs(p), NEW bt, Puts(p, at, bt, i, k), NEW v, Copy(p, i, v),
         CanAccommodate(Holding(p, k, HeldAt(p, at, k)), v)
  PROVE  /\ Feasible(p, bt)
         /\ AddVessel(Holding(p, k, HeldAt(p, at, k)), v) = Holding(p, k, HeldAt(p, bt, k))
         /\ \A l \in SectionIDs(p) \ {k} : HeldAt(p, bt, l) = HeldAt(p, at, l)
         /\ HeldAt(p, bt, UNASSIGNED) = HeldAt(p, at, UNASSIGNED) \ {i}
<1>1. k # UNASSIGNED /\ i \in VesselIDs(p)
  BY SectionNumbers DEF Puts
<1>2. PICK S, T : S = HeldAt(p, at, k) /\ T = HeldAt(p, bt, k)
  OBVIOUS
<1>3. OneLess(S, T, i) /\ S \in SUBSET VesselIDs(p) /\ T \in SUBSET VesselIDs(p)
  BY <1>1, <1>2 DEF HeldAt, Puts, OneLess
<1>4. Fits(p, k, S) /\ CanAccommodate(Holding(p, k, S), v)
  BY <1>2 DEF Feasible
<1>5. Fits(p, k, T)
  BY <1>3, <1>4, RoomForMore
<1>6. AddVessel(Holding(p, k, S), v) = Holding(p, k, T)
  BY <1>3, <1>5, AddedTo
<1>7. ASSUME NEW l \in SectionIDs(p) \ {k}
      PROVE  HeldAt(p, bt, l) = HeldAt(p, at, l)
  <2>1. l # UNASSIGNED
    BY SectionNumbers
  <2> QED
    BY <1>1, <1>7, <2>1 DEF HeldAt, Puts
<1>8. HeldAt(p, bt, UNASSIGNED) = HeldAt(p, at, UNASSIGNED) \ {i}
  BY <1>1 DEF HeldAt, Puts
<1>9. Feasible(p, bt)
  <2>1. \A j \in VesselIDs(p) : bt[j] \in SectionIDs(p) \cup {UNASSIGNED}
    BY DEF Feasible, Puts
  <2>2. ASSUME NEW l \in SectionIDs(p)
        PROVE  Fits(p, l, HeldAt(p, bt, l))
    <3>1. CASE l = k
      BY <1>2, <1>5, <3>1
    <3>2. CASE l # k
      <4>1. HeldAt(p, bt, l) = HeldAt(p, at, l) /\ Fits(p, l, HeldAt(p, at, l))
        BY <1>7, <3>2 DEF Feasible
      <4> QED
        BY <4>1
    <3> QED
      BY <3>1, <3>2
  <2> QED
    BY <2>1, <2>2 DEF Feasible
<1> QED
  BY <1>2, <1>6, <1>7, <1>8, <1>9

\* What CanExchange() does to the section of a vessel and what it undoes.
LEMMA TakeOutPutBack ==
  ASSUME NEW p, Usable(p), NEW at, Feasible(p, at), NEW i \in VesselIDs(p),
         NEW k \in SectionIDs(p), at[i] = k, NEW v, Copy(p, i, v)
  PROVE  /\ RemoveVessel(Holding(p, k, HeldAt(p, at, k)), v)
              = Holding(p, k, HeldAt(p, at, k) \ {i})
         /\ AddVessel(Holding(p, k, HeldAt(p, at, k) \ {i}), v)
              = Holding(p, k, HeldAt(p, at, k))
<1>1. PICK S, T : S = HeldAt(p, at, k) \ {i} /\ T = HeldAt(p, at, k)
  OBVIOUS
<1>2. OneLess(S, T, i) /\ S \in SUBSET VesselIDs(p) /\ T \in SUBSET VesselIDs(p)
  BY <1>1 DEF HeldAt, OneLess
<1>3. Fits(p, k, T)
  BY <1>1 DEF Feasible
<1>4. /\ RemoveVessel(Holding(p, k, T), v) = Holding(p, k, S)
      /\ AddVessel(Holding(p, k, S), v) = Holding(p, k, T)
  BY <1>2, <1>3, RemovedFrom, AddedTo
<1> QED
  BY <1>1, <1>4

\* Two vessels change places, each into a section that has room without the
\* other one.
Swaps(p, at, bt, i, j) ==
  /\ i \in VesselIDs(p) /\ j \in VesselIDs(p) /\ at[i] # at[j]
  /\ \A c \in VesselIDs(p) : bt[c] = IF c = i THEN at[j] ELSE IF c = j THEN at[i] ELSE at[c]

\* Section v has room for i once j has left it.
RoomFor(p, at, i, j, v) ==
  at[i] # UNASSIGNED =>
    CanAccommodate(Holding(p, at[i], HeldAt(p, at, at[i]) \ {i}), v)

\* The room for i is not taken by vessels elsewhere.
LEMMA RoomForOther ==
  ASSUME NEW p, Usable(p), NEW at, Feasible(p, at), NEW i, NEW j, NEW bt,
         Swaps(p, at, bt, i, j), NEW v, Copy(p, j, v), RoomFor(p, at, i, j, v),
         at[i] # UNASSIGNED
  PROVE  Fits(p, at[i], HeldAt(p, bt, at[i]))
<1>1. PICK k : k = at[i]
  OBVIOUS
<1>2. k \in SectionIDs(p) /\ i \in VesselIDs(p) /\ j \in VesselIDs(p) /\ at[j] # k
  BY <1>1 DEF Swaps, Feasible
<1>3. PICK S, T, U : S = HeldAt(p, at, k) \ {i} /\ T = HeldAt(p, bt, k) /\ U = HeldAt(p, at, k)
  OBVIOUS
<1>4. /\ OneLess(S, T, j) /\ S \in SUBSET U
      /\ T \in SUBSET VesselIDs(p) /\ U \in SUBSET VesselIDs(p)
  BY <1>1, <1>2, <1>3 DEF HeldAt, Swaps, OneLess
<1>5. Fits(p, k, U)
  BY <1>2, <1>3 DEF Feasible
<1>6. Fits(p, k, S)
  BY <1>2, <1>4, <1>5, FitsFewer
<1>7. CanAccommodate(Holding(p, k, S), v)
  BY <1>1, <1>3 DEF RoomFor
<1>8. Fits(p, k, T)
  BY <1>2, <1>4, <1>6, <1>7, RoomForMore
<1> QED
  BY <1>1, <1>3, <1>8

\* Two vessels may swap their sections where each has room without the other.
LEMMA SwapFeasible ==
  ASSUME NEW p, Usable(p), NEW at, Feasible(p, at), NEW i, NEW j, NEW bt,
         Swaps(p, at, bt, i, j), NEW v, Copy(p, i, v), NEW w, Copy(p, j, w),
         RoomFor(p, at, i, j, w), RoomFor(p, at, j, i, v)
  PROVE  Feasible(p, bt)
<1>1. \A c \in VesselIDs(p) : bt[c] \in SectionIDs(p) \cup {UNASSIGNED}
  BY DEF Feasible, Swaps
<1>2. Swaps(p, at, bt, j, i)
  BY DEF Swaps
<1>3. ASSUME NEW k \in SectionIDs(p)
      PROVE  Fits(p, k, HeldAt(p, bt, k))
  <2>0. k # UNASSIGNED
    BY SectionNumbers
  <2>1. CASE k = at[i]
    BY <2>0, <2>1, RoomForOther
  <2>2. CASE k = at[j]
    BY <1>2, <2>0, <2>2, RoomForOther
  <2>3. CASE k # at[i] /\ k # at[j]
    <3>1. HeldAt(p, bt, k) = HeldAt(p, at, k)
      BY <2>3 DEF HeldAt, Swaps
    <3>2. Fits(p, k, HeldAt(p, at, k))
      BY DEF Feasible
    <3> QED
      BY <3>1, <3>2
  <2> QED
    BY <2>1, <2>2, <2>3
<1> QED
  BY <1>1, <1>3 DEF Feasible

(***************************************************************************)
(* Costs.  The cost of a solution, from the package alone.                 *)
(***************************************************************************)

\* Flows and distances as the partitioners read them from their copies.
PortFlowOf(p, i) == p.trans[<<i, 0>>] + p.trans[<<0, i>>]
FlowOf(p, i, j) == p.trans[<<i, j>>] + p.trans[<<j, i>>]
Distance(p, k, l) == IF k >= 0 /\ l >= 0 THEN p.sect.dist[<<k, l>>] ELSE INFINITY

\* The later neighbours of i that share the port with it, and the others.
Both(at, i, j) == at[i] # UNASSIGNED /\ at[j] # UNASSIGNED
AfterBoth(p, at, i) == {j \in {j \in Neighbours(p, i) : j > i} : Both(at, i, j)}
AfterNotBoth(p, at, i) == {j \in {j \in Neighbours(p, i) : j > i} : ~Both(at, i, j)}

\* What vessel i and the later ones cost by their distance, and by being left out.
MoveCost(p, at, i) ==
  SumFunction([j \in AfterBoth(p, at, i) |-> FlowOf(p, i, j) * Distance(p, at[i], at[j])])
    + (IF at[i] = UNASSIGNED THEN 0 ELSE PortFlowOf(p, i) * Distance(p, at[i], 0))

LeftCost(p, at, i) ==
  SumFunction([j \in AfterNotBoth(p, at, i) |-> FlowOf(p, i, j) * INFINITY])
    + (IF at[i] = UNASSIGNED THEN PortFlowOf(p, i) * INFINITY ELSE 0)

TranshipmentCost(p, at) == Unsigned(SumFunction([i \in VesselIDs(p) |-> MoveCost(p, at, i)]))
PenaltyCost(p, at) == Unsigned(SumFunction([i \in VesselIDs(p) |-> LeftCost(p, at, i)]))
ValueOf(p, at) == Unsigned(TranshipmentCost(p, at) + PenaltyCost(p, at))

\* v is a working copy of vessel i: it may have a section and destinations.
Vessel(p, i, v) ==
  /\ Copy(p, i, v) /\ v.departure = p.ves.departure[i] /\ v.neighbours = Neighbours(p, i)
  /\ v.export = p.trans[<<0, i>>] /\ v.import = p.trans[<<i, 0>>]
  /\ v.destinations \in SUBSET SectionIDs(p)
  /\ {"section", "destinations"} \subseteq DOMAIN v

\* The working copies are those of all vessels of the package.
Copies(p, ves) ==
  DOMAIN ves = VesselIDs(p) /\ \A i \in VesselIDs(p) : Vessel(p, i, ves[i])

\* Two solutions that agree on the vessels cost the same.
Agree(p, at, bt) == \A i \in VesselIDs(p) : at[i] = bt[i]

\* Solutions that agree cost the same.
LEMMA AgreeCosts ==
  ASSUME NEW p, NEW at, NEW bt, Agree(p, at, bt)
  PROVE  ValueOf(p, at) = ValueOf(p, bt)
<1>1. ASSUME NEW i \in VesselIDs(p)
      PROVE  MoveCost(p, at, i) = MoveCost(p, bt, i) /\ LeftCost(p, at, i) = LeftCost(p, bt, i)
  <2>1. at[i] = bt[i] /\ \A j \in Neighbours(p, i) : at[j] = bt[j]
    BY DEF Agree, Neighbours
  <2>2. AfterBoth(p, at, i) = AfterBoth(p, bt, i) /\ AfterNotBoth(p, at, i) = AfterNotBoth(p, bt, i)
    BY <2>1 DEF AfterBoth, AfterNotBoth, Both
  <2>3. [j \in AfterBoth(p, at, i) |-> FlowOf(p, i, j) * Distance(p, at[i], at[j])]
          = [j \in AfterBoth(p, bt, i) |-> FlowOf(p, i, j) * Distance(p, bt[i], bt[j])]
    <3>1. \A j \in AfterBoth(p, bt, i) : at[j] = bt[j]
      BY <2>1 DEF AfterBoth
    <3> QED
      BY <2>1, <2>2, <3>1, Zenon
  <2>4. MoveCost(p, at, i) = MoveCost(p, bt, i)
    BY <2>1, <2>3, Zenon DEF MoveCost
  <2>5. LeftCost(p, at, i) = LeftCost(p, bt, i)
    BY <2>1, <2>2, Zenon DEF LeftCost
  <2> QED
    BY <2>4, <2>5
<1>2. [i \in VesselIDs(p) |-> MoveCost(p, at, i)] = [i \in VesselIDs(p) |-> MoveCost(p, bt, i)]
  BY <1>1, Zenon
<1>3. [i \in VesselIDs(p) |-> LeftCost(p, at, i)] = [i \in VesselIDs(p) |-> LeftCost(p, bt, i)]
  BY <1>1, Zenon
<1> QED
  BY <1>2, <1>3, Zenon DEF ValueOf, TranshipmentCost, PenaltyCost

\* Sums and products of integers are integers.
LEMMA SumFunctionInt ==
  ASSUME NEW f, IsFiniteSet(DOMAIN f), \A b \in DOMAIN f : f[b] \in Int
  PROVE  SumFunction(f) \in Int
BY SumInt DEF SumFunction

LEMMA TimesInt == \A m, n \in Int : m * n \in Int
OBVIOUS

\* The cost of a solution is a number.
LEMMA CostNat ==
  ASSUME NEW p, Good(p), NEW at, Feasible(p, at)
  PROVE  /\ TranshipmentCost(p, at) \in Nat /\ PenaltyCost(p, at) \in Nat
         /\ ValueOf(p, at) \in Nat
<1>1. Usable(p) /\ Charged(p) /\ IsFiniteSet(VesselIDs(p))
  BY VesselsFinite DEF Good
<1>2. WORD \in Nat \ {0} /\ INFINITY \in Int
  BY WordAssumption
<1>3. \A n \in Int : Unsigned(n) \in Nat
  BY <1>2 DEF Unsigned
<1>4. ASSUME NEW i \in VesselIDs(p), NEW j \in VesselIDs(p)
      PROVE  FlowOf(p, i, j) \in Int /\ PortFlowOf(p, i) \in Int
  <2>1. {0, i, j} \subseteq 0..NumVessels(p)
    BY <1>1 DEF VesselIDs, Usable
  <2> QED
    BY <1>1, <2>1 DEF Charged, FlowOf, PortFlowOf
<1>5. ASSUME NEW i \in VesselIDs(p)
      PROVE  /\ at[i] # UNASSIGNED => at[i] \in 0..NumSections(p)
             /\ at[i] \in Int
  BY <1>1, <1>5 DEF Feasible, SectionIDs, Usable, UNASSIGNED
<1>6. ASSUME NEW k \in 0..NumSections(p), NEW l \in 0..NumSections(p)
      PROVE  Distance(p, k, l) \in Int
  BY <1>1 DEF Charged, Distance, Usable
<1>7. ASSUME NEW i \in VesselIDs(p)
      PROVE  /\ AfterBoth(p, at, i) \in SUBSET VesselIDs(p) /\ IsFiniteSet(AfterBoth(p, at, i))
             /\ AfterNotBoth(p, at, i) \in SUBSET VesselIDs(p) /\ IsFiniteSet(AfterNotBoth(p, at, i))
  <2>1. /\ AfterBoth(p, at, i) \in SUBSET VesselIDs(p)
        /\ AfterNotBoth(p, at, i) \in SUBSET VesselIDs(p)
    BY DEF AfterBoth, AfterNotBoth, Neighbours
  <2> QED
    BY <1>1, <2>1, VesselsFinite
<1>8. ASSUME NEW i \in VesselIDs(p)
      PROVE  MoveCost(p, at, i) \in Int
  <2> DEFINE f == [j \in AfterBoth(p, at, i) |-> FlowOf(p, i, j) * Distance(p, at[i], at[j])]
  <2>1. ASSUME NEW j \in AfterBoth(p, at, i)
        PROVE  FlowOf(p, i, j) * Distance(p, at[i], at[j]) \in Int
    <3>1. j \in VesselIDs(p) /\ at[i] # UNASSIGNED /\ at[j] # UNASSIGNED
      BY <1>7 DEF AfterBoth, Both
    <3>2. FlowOf(p, i, j) \in Int /\ Distance(p, at[i], at[j]) \in Int
      BY <1>4, <1>5, <1>6, <3>1
    <3> QED
      BY <3>2, TimesInt
  <2>2. SumFunction(f) \in Int
    <3>1. DOMAIN f = AfterBoth(p, at, i) /\ \A j \in DOMAIN f : f[j] \in Int
      BY <2>1
    <3> HIDE DEF f
    <3> QED
      BY <1>7, <3>1, SumFunctionInt
  <2>3. at[i] # UNASSIGNED => PortFlowOf(p, i) * Distance(p, at[i], 0) \in Int
    <3>1. 0 \in 0..NumSections(p)
      BY <1>1 DEF Usable
    <3>2. at[i] # UNASSIGNED => PortFlowOf(p, i) \in Int /\ Distance(p, at[i], 0) \in Int
      BY <1>4, <1>5, <1>6, <3>1
    <3> QED
      BY <3>2, TimesInt
  <2>4. PICK s, t : s = SumFunction(f) /\ t = PortFlowOf(p, i) * Distance(p, at[i], 0)
    OBVIOUS
  <2>5. MoveCost(p, at, i) = s + (IF at[i] = UNASSIGNED THEN 0 ELSE t)
    BY <2>4, Zenon DEF MoveCost
  <2> QED
    BY <2>2, <2>3, <2>4, <2>5
<1>9. ASSUME NEW i \in VesselIDs(p)
      PROVE  LeftCost(p, at, i) \in Int
  <2> DEFINE f == [j \in AfterNotBoth(p, at, i) |-> FlowOf(p, i, j) * INFINITY]
  <2>1. ASSUME NEW j \in AfterNotBoth(p, at, i)
        PROVE  FlowOf(p, i, j) * INFINITY \in Int
    <3>1. FlowOf(p, i, j) \in Int
      BY <1>4, <1>7
    <3> QED
      BY <1>2, <3>1, TimesInt
  <2>2. SumFunction(f) \in Int
    <3>1. DOMAIN f = AfterNotBoth(p, at, i) /\ \A j \in DOMAIN f : f[j] \in Int
      BY <2>1
    <3> HIDE DEF f
    <3> QED
      BY <1>7, <3>1, SumFunctionInt
  <2>3. PortFlowOf(p, i) * INFINITY \in Int
    BY <1>2, <1>4, TimesInt
  <2>4. PICK s, t : s = SumFunction(f) /\ t = PortFlowOf(p, i) * INFINITY
    OBVIOUS
  <2>5. LeftCost(p, at, i) = s + (IF at[i] = UNASSIGNED THEN t ELSE 0)
    BY <2>4, Zenon DEF LeftCost
  <2> QED
    BY <2>2, <2>3, <2>4, <2>5
<1>10. TranshipmentCost(p, at) \in Nat
  <2> DEFINE f == [i \in VesselIDs(p) |-> MoveCost(p, at, i)]
  <2>1. DOMAIN f = VesselIDs(p) /\ \A i \in DOMAIN f : f[i] \in Int
    BY <1>8
  <2>2. SumFunction(f) \in Int
    <3> HIDE DEF f
    <3> QED
      BY <1>1, <2>1, SumFunctionInt
  <2> QED
    BY <1>3, <2>2 DEF TranshipmentCost
<1>11. PenaltyCost(p, at) \in Nat
  <2> DEFINE f == [i \in VesselIDs(p) |-> LeftCost(p, at, i)]
  <2>1. DOMAIN f = VesselIDs(p) /\ \A i \in DOMAIN f : f[i] \in Int
    BY <1>9
  <2>2. SumFunction(f) \in Int
    <3> HIDE DEF f
    <3> QED
      BY <1>1, <2>1, SumFunctionInt
  <2> QED
    BY <1>3, <2>2 DEF PenaltyCost
<1>12. TranshipmentCost(p, at) + PenaltyCost(p, at) \in Int
  BY <1>10, <1>11
<1> QED
  BY <1>3, <1>10, <1>11, <1>12 DEF ValueOf

\* ComputeObjVal() reads the working copies, which say what the package says.
LEMMA CostBridge ==
  ASSUME Copies(package, mVes), NEW at
  PROVE  /\ ComputeObjVal(at).transhipment = TranshipmentCost(package, at)
         /\ ComputeObjVal(at).penalty = PenaltyCost(package, at)
         /\ CalcObjVal(at) = ValueOf(package, at)
<1>1. Vessels = VesselIDs(package)
  BY DEF Vessels, Copies
<1> DEFINE PF(i) == mVes[i].import + mVes[i].export
           Later(i) == {j \in mVes[i].neighbours : j > i}
           Asg(i, j) == at[i] # UNASSIGNED /\ at[j] # UNASSIGNED
           MoveC(i) == SumFunction([j \in {j \in Later(i) : Asg(i, j)} |->
                        TotalFlow(i, j) * D(at[i], at[j])])
                          + (IF at[i] = UNASSIGNED THEN 0 ELSE PF(i) * D(at[i], 0))
           LeftC(i) == SumFunction([j \in {j \in Later(i) : ~Asg(i, j)} |->
                        TotalFlow(i, j) * INFINITY])
                          + (IF at[i] = UNASSIGNED THEN PF(i) * INFINITY ELSE 0)
<1>2. ASSUME NEW i \in VesselIDs(package)
      PROVE  MoveC(i) = MoveCost(package, at, i) /\ LeftC(i) = LeftCost(package, at, i)
  <2>1. mVes[i].neighbours = Neighbours(package, i) /\ PF(i) = PortFlowOf(package, i)
    BY Zenon DEF Copies, Vessel, PortFlowOf
  <2>2. \A j : TotalFlow(i, j) = FlowOf(package, i, j)
    BY Zenon DEF TotalFlow, FlowOf
  <2>3. \A k, l : D(k, l) = Distance(package, k, l)
    BY Zenon DEF D, Distance
  <2>4. {j \in Later(i) : Asg(i, j)} = AfterBoth(package, at, i)
    BY <2>1, Zenon DEF AfterBoth, Both
  <2>5. {j \in Later(i) : ~Asg(i, j)} = AfterNotBoth(package, at, i)
    BY <2>1, Zenon DEF AfterNotBoth, Both
  <2>6. [j \in {j \in Later(i) : Asg(i, j)} |-> TotalFlow(i, j) * D(at[i], at[j])]
          = [j \in AfterBoth(package, at, i) |-> FlowOf(package, i, j) * Distance(package, at[i], at[j])]
    BY <2>2, <2>3, <2>4, Zenon
  <2>7. [j \in {j \in Later(i) : ~Asg(i, j)} |-> TotalFlow(i, j) * INFINITY]
          = [j \in AfterNotBoth(package, at, i) |-> FlowOf(package, i, j) * INFINITY]
    BY <2>2, <2>5, Zenon
  <2>8. PICK a, b : a = SumFunction([j \in {j \in Later(i) : Asg(i, j)} |-> TotalFlow(i, j) * D(at[i], at[j])])
                    /\ b = SumFunction([j \in {j \in Later(i) : ~Asg(i, j)} |-> TotalFlow(i, j) * INFINITY])
    OBVIOUS
  <2>9. MoveC(i) = a + (IF at[i] = UNASSIGNED THEN 0 ELSE PF(i) * D(at[i], 0))
        /\ MoveCost(package, at, i) = a + (IF at[i] = UNASSIGNED THEN 0 ELSE PortFlowOf(package, i) * Distance(package, at[i], 0))
    BY <2>6, <2>8, Zenon DEF MoveCost
  <2>10. LeftC(i) = b + (IF at[i] = UNASSIGNED THEN PF(i) * INFINITY ELSE 0)
        /\ LeftCost(package, at, i) = b + (IF at[i] = UNASSIGNED THEN PortFlowOf(package, i) * INFINITY ELSE 0)
    BY <2>7, <2>8, Zenon DEF LeftCost
  <2>11. PF(i) * D(at[i], 0) = PortFlowOf(package, i) * Distance(package, at[i], 0)
    BY <2>1, <2>3, Zenon
  <2>12. PF(i) * INFINITY = PortFlowOf(package, i) * INFINITY
    BY <2>1, Zenon
  <2> HIDE DEF PF, MoveC, LeftC
  <2>13. MoveC(i) = MoveCost(package, at, i)
    BY <2>9, <2>11, Zenon
  <2>14. LeftC(i) = LeftCost(package, at, i)
    <3>1. CASE at[i] = UNASSIGNED
      BY <2>10, <2>12, <3>1, Zenon
    <3>2. CASE at[i] # UNASSIGNED
      BY <2>10, <3>2, Zenon
    <3> QED
      BY <3>1, <3>2
  <2> QED
    BY <2>13, <2>14
<1>3. /\ ComputeObjVal(at).transhipment = Unsigned(SumFunction([i \in Vessels |-> MoveC(i)]))
      /\ ComputeObjVal(at).penalty = Unsigned(SumFunction([i \in Vessels |-> LeftC(i)]))
  BY DEF ComputeObjVal
<1>4. [i \in Vessels |-> MoveC(i)] = [i \in VesselIDs(package) |-> MoveCost(package, at, i)]
  <2> HIDE DEF MoveC
  <2> QED
    BY <1>1, <1>2, Zenon
<1>5. [i \in Vessels |-> LeftC(i)] = [i \in VesselIDs(package) |-> LeftCost(package, at, i)]
  <2> HIDE DEF LeftC
  <2> QED
    BY <1>1, <1>2, Zenon
<1>6. /\ ComputeObjVal(at).transhipment = TranshipmentCost(package, at)
      /\ ComputeObjVal(at).penalty = PenaltyCost(package, at)
  <2> HIDE DEF MoveC, LeftC
  <2> QED
    BY <1>3, <1>4, <1>5, Zenon DEF TranshipmentCost, PenaltyCost
<1> QED
  BY <1>6, Zenon DEF CalcObjVal, ValueOf

(***************************************************************************)
(* The working copies.  ves, sect and left stand for mVes, mSect and       *)
(* mUnallocVes.                                                            *)
(***************************************************************************)

\* The solution that the copies of the vessels record.
Where(ves) == [i \in DOMAIN ves |-> ves[i].section]

\* The copies agree: the sections hold the vessels that record them, and fit.
Placed(p, ves, sect, left) ==
  /\ Copies(p, ves)
  /\ Feasible(p, Where(ves))
  /\ sect = Layout(p, Where(ves))
  /\ left = HeldAt(p, Where(ves), UNASSIGNED)

\* The constructor's copies: no section holds a vessel.
Fresh(p, ves, sect) ==
  Copies(p, ves) /\ sect = [k \in SectionIDs(p) |-> Holding(p, k, {})]

\* The constructor makes empty sections and copies of all vessels.
LEMMA NewSectionEmpty ==
  ASSUME NEW p, Usable(p), NEW k \in SectionIDs(p)
  PROVE  NewSection(p, k) = Holding(p, k, {})
<1>1. p.sect.length[k] \in Nat
  BY DEF Usable
<1>2. \A z \in 1..NumTimeZones(p) : p.sect.length[k] - Needed(p, {}, z) = p.sect.length[k]
  BY <1>1, NeededNone
<1>3. [z \in 1..NumTimeZones(p) |-> p.sect.length[k]]
        = [z \in 1..NumTimeZones(p) |-> p.sect.length[k] - Needed(p, {}, z)]
  BY <1>2, Zenon
<1> QED
  BY <1>3, Zenon DEF NewSection, Holding

LEMMA ConstructFresh ==
  ASSUME NEW p, Usable(p)
  PROVE  Fresh(p, [i \in VesselIDs(p) |-> NewVessel(p, i)],
               [k \in SectionIDs(p) |-> NewSection(p, k)])
<1>1. [k \in SectionIDs(p) |-> NewSection(p, k)] = [k \in SectionIDs(p) |-> Holding(p, k, {})]
  BY NewSectionEmpty, Zenon
<1>2. ASSUME NEW i \in VesselIDs(p)
      PROVE  Vessel(p, i, NewVessel(p, i))
  BY DEF Vessel, NewVessel, Copy, Zones
<1>3. PICK ves : ves = [i \in VesselIDs(p) |-> NewVessel(p, i)]
  OBVIOUS
<1>4. Copies(p, ves)
  BY <1>2, <1>3 DEF Copies
<1> QED
  BY <1>1, <1>3, <1>4 DEF Fresh

\* A copy with another section and other destinations is a copy.
Moved(v, w, k, d) == w = [v EXCEPT !.section = k, !.destinations = d]

\* A vessel that moves stays a copy.
LEMMA CopyMoved ==
  ASSUME NEW p, NEW i, NEW v, Vessel(p, i, v), NEW k, NEW d \in SUBSET SectionIDs(p),
         NEW w, Moved(v, w, k, d)
  PROVE  Vessel(p, i, w) /\ w.section = k
<1>1. w.section = k /\ w.destinations = d /\ DOMAIN w = DOMAIN v
  BY DEF Vessel, Moved
<1>2. /\ w.ID = v.ID /\ w.length = v.length /\ w.departure = v.departure
      /\ w.zones = v.zones /\ w.neighbours = v.neighbours
      /\ w.export = v.export /\ w.import = v.import
  BY DEF Moved
<1> QED
  BY <1>1, <1>2 DEF Vessel, Copy

\* InitSolution().
Unplaces(ves, sect, ves2) ==
  ves2 = [i \in DOMAIN ves |-> [ves[i] EXCEPT !.section = UNASSIGNED,
                                !.destinations = @ \cup DOMAIN sect]]

\* InitSolution() takes every vessel out of its section.
LEMMA InitialPlaced ==
  ASSUME NEW p, Usable(p), NEW ves, NEW sect, Fresh(p, ves, sect), NEW ves2,
         Unplaces(ves, sect, ves2)
  PROVE  /\ Placed(p, ves2, sect, VesselIDs(p))
         /\ \A i \in VesselIDs(p) : ves2[i].section = UNASSIGNED
<1>1. DOMAIN ves = VesselIDs(p) /\ DOMAIN sect = SectionIDs(p) /\ DOMAIN ves2 = VesselIDs(p)
  BY DEF Fresh, Copies, Unplaces
<1>2. ASSUME NEW i \in VesselIDs(p)
      PROVE  Vessel(p, i, ves2[i]) /\ ves2[i].section = UNASSIGNED
  <2>1. PICK d, u : d = ves[i].destinations \cup DOMAIN sect /\ u = UNASSIGNED
    OBVIOUS
  <2>2. Vessel(p, i, ves[i]) /\ d \in SUBSET SectionIDs(p)
    BY <1>1, <2>1 DEF Fresh, Copies, Vessel
  <2>3. Moved(ves[i], ves2[i], u, d)
    <3>1. ves2[i] = [ves[i] EXCEPT !.section = UNASSIGNED,
                                   !.destinations = @ \cup DOMAIN sect]
      BY <1>1 DEF Unplaces
    <3> QED
      BY <2>1, <3>1 DEF Moved
  <2>4. Vessel(p, i, ves2[i]) /\ ves2[i].section = u
    BY <2>2, <2>3, CopyMoved
  <2> QED
    BY <2>1, <2>4
<1>3. Copies(p, ves2)
  BY <1>1, <1>2 DEF Copies
<1>4. PICK at : at = Where(ves2)
  OBVIOUS
<1>5. \A i \in VesselIDs(p) : at[i] = UNASSIGNED
  BY <1>1, <1>2, <1>4 DEF Where
<1>6. ASSUME NEW k \in SectionIDs(p)
      PROVE  HeldAt(p, at, k) = {}
  BY <1>5, SectionNumbers DEF HeldAt
<1>7. ASSUME NEW k \in SectionIDs(p)
      PROVE  Fits(p, k, {})
  <2> SUFFICES ASSUME NEW z \in 1..NumTimeZones(p)
               PROVE  Needed(p, {}, z) <= p.sect.length[k]
    BY DEF Fits
  <2>1. PICK n, l : n = Needed(p, {}, z) /\ l = p.sect.length[k]
    OBVIOUS
  <2>2. n = 0 /\ l \in Nat
    BY <2>1, NeededNone DEF Usable
  <2>3. n <= l
    BY <2>2
  <2> QED
    BY <2>1, <2>3
<1>8. Feasible(p, at)
  BY <1>5, <1>6, <1>7 DEF Feasible
<1>9. sect = Layout(p, at)
  <2>1. \A k \in SectionIDs(p) : Holding(p, k, {}) = Holding(p, k, HeldAt(p, at, k))
    BY <1>6, Zenon
  <2> QED
    BY <2>1, Zenon DEF Fresh, Layout
<1>10. VesselIDs(p) = HeldAt(p, at, UNASSIGNED)
  BY <1>5 DEF HeldAt
<1> QED
  BY <1>2, <1>3, <1>4, <1>8, <1>9, <1>10 DEF Placed

\* The assert() of Assign() holds where the section is one of the package.
LEMMA HoldingSound ==
  ASSUME NEW p, NEW k, NEW T, NEW s, s = Holding(p, k, T), NEW v, k \in v.destinations
  PROVE  Checked(s, v) = s
<1>1. PICK l, c : s = [ID |-> k, length |-> l, vessels |-> T, sound |-> TRUE, capacity |-> c]
  BY DEF Holding
<1>2. /\ s = [n \in DOMAIN s |-> s[n]] /\ "sound" \in DOMAIN s /\ s.sound = TRUE
      /\ s.ID \in v.destinations
  BY <1>1
<1>3. PICK r : r = [s EXCEPT !.sound = @ /\ s.ID \in v.destinations]
  OBVIOUS
<1>4. r = [n \in DOMAIN s |-> r[n]]
  BY <1>3, Zenon
<1>5. \A n \in DOMAIN s : r[n] = s[n]
  BY <1>2, <1>3, Zenon
<1> QED
  BY <1>2, <1>3, <1>4, <1>5, Zenon DEF Checked

\* Assign(), of a vessel without a section to one of its destinations that
\* has room.
Assigns(ves, sect, left, i, k, ves2, sect2, left2) ==
  /\ left2 = left \ {i}
  /\ ves2 = [ves EXCEPT ![i].section = k, ![i].destinations = @ \ {k}]
  /\ sect2 = [sect EXCEPT ![k] = Checked(AddVessel(@, ves[i]), ves[i])]

\* Assigning a vessel that waits where CanAccommodate() says there is room.
LEMMA AssignPlaced ==
  ASSUME NEW p, Usable(p), NEW ves, NEW sect, NEW left, Placed(p, ves, sect, left),
         NEW i \in VesselIDs(p), ves[i].section = UNASSIGNED,
         NEW k \in ves[i].destinations, CanAccommodate(sect[k], ves[i]),
         NEW ves2, NEW sect2, NEW left2,
         Assigns(ves, sect, left, i, k, ves2, sect2, left2)
  PROVE  /\ Placed(p, ves2, sect2, left2)
         /\ \A j \in VesselIDs(p) \ {i} : ves2[j] = ves[j]
<1>1. /\ DOMAIN ves = VesselIDs(p) /\ Vessel(p, i, ves[i]) /\ Copy(p, i, ves[i])
      /\ k \in SectionIDs(p) /\ DOMAIN ves2 = VesselIDs(p)
      /\ \A j \in VesselIDs(p) \ {i} : ves2[j] = ves[j]
  <2>1. DOMAIN ves = VesselIDs(p) /\ Vessel(p, i, ves[i])
    BY DEF Placed, Copies
  <2>2. DOMAIN ves2 = VesselIDs(p) /\ \A j \in VesselIDs(p) \ {i} : ves2[j] = ves[j]
    BY <2>1 DEF Assigns
  <2>3. Copy(p, i, ves[i]) /\ k \in SectionIDs(p)
    BY <2>1 DEF Vessel
  <2> QED
    BY <2>1, <2>2, <2>3
<1>2. PICK at, bt : at = Where(ves) /\ bt = Where(ves2)
  OBVIOUS
<1>3. ves2[i].section = k /\ Vessel(p, i, ves2[i])
  <2>1. PICK d : d = ves[i].destinations \ {k}
    OBVIOUS
  <2>2. Moved(ves[i], ves2[i], k, d)
    BY <1>1, <2>1 DEF Moved, Assigns
  <2>3. d \in SUBSET SectionIDs(p)
    BY <1>1, <2>1 DEF Vessel
  <2> QED
    BY <1>1, <2>2, <2>3, CopyMoved
<1>4. Copies(p, ves2)
  BY <1>1, <1>3 DEF Copies, Placed
<1>5. Puts(p, at, bt, i, k) /\ at[i] = UNASSIGNED
  BY <1>1, <1>2, <1>3 DEF Puts, Where
<1>6. Feasible(p, at) /\ sect = Layout(p, at) /\ left = HeldAt(p, at, UNASSIGNED)
  BY <1>2 DEF Placed
<1>7. sect[k] = Holding(p, k, HeldAt(p, at, k)) /\ DOMAIN sect = SectionIDs(p)
  BY <1>1, <1>6, Zenon DEF Layout
<1>8. CanAccommodate(Holding(p, k, HeldAt(p, at, k)), ves[i])
  BY <1>7
<1>9. PICK v : v = ves[i]
  OBVIOUS
<1>10. /\ Feasible(p, bt)
       /\ AddVessel(Holding(p, k, HeldAt(p, at, k)), v) = Holding(p, k, HeldAt(p, bt, k))
       /\ \A l \in SectionIDs(p) \ {k} : HeldAt(p, bt, l) = HeldAt(p, at, l)
       /\ HeldAt(p, bt, UNASSIGNED) = HeldAt(p, at, UNASSIGNED) \ {i}
  BY <1>1, <1>5, <1>6, <1>8, <1>9, AssignLayout
<1>11. sect2[k] = Holding(p, k, HeldAt(p, bt, k))
  <2>1. PICK s : s = AddVessel(sect[k], v)
    OBVIOUS
  <2>2. s = Holding(p, k, HeldAt(p, bt, k))
    BY <1>7, <1>10, <2>1
  <2>3. Checked(s, v) = s
    BY <1>9, <2>2, HoldingSound
  <2>4. sect2[k] = Checked(s, v)
    BY <1>1, <1>7, <1>9, <2>1, Zenon DEF Assigns
  <2> QED
    BY <2>2, <2>3, <2>4
<1>12. sect2 = Layout(p, bt)
  <2>1. DOMAIN sect2 = SectionIDs(p) /\ \A l \in SectionIDs(p) \ {k} : sect2[l] = sect[l]
    BY <1>7, Zenon DEF Assigns
  <2>2. ASSUME NEW l \in SectionIDs(p)
        PROVE  sect2[l] = Holding(p, l, HeldAt(p, bt, l))
    <3>1. CASE l = k
      BY <1>11, <3>1
    <3>2. CASE l # k
      <4>1. sect2[l] = sect[l] /\ sect[l] = Holding(p, l, HeldAt(p, at, l))
        BY <1>6, <2>1, <3>2, Zenon DEF Layout
      <4>2. HeldAt(p, bt, l) = HeldAt(p, at, l)
        BY <1>10, <3>2
      <4> QED
        BY <4>1, <4>2, Zenon
    <3> QED
      BY <3>1, <3>2
  <2>3. sect2 = [l \in SectionIDs(p) |-> sect2[l]]
    BY <1>7, Zenon DEF Assigns
  <2> QED
    BY <2>2, <2>3, Zenon DEF Layout
<1> QED
  BY <1>1, <1>2, <1>4, <1>6, <1>10, <1>12 DEF Placed, Assigns

(* The list of vessels that still wait for a place. *)
\* The candidates are distinct vessels that have no section.
Waiting(p, ves, list) ==
  /\ list \in Seq(VesselIDs(p))
  /\ \A m, n \in 1..Len(list) : m # n => list[m] # list[n]
  /\ \A n \in 1..Len(list) : ves[list[n]].section = UNASSIGNED

\* The list without its n-th entry, as RemoveCandidate() makes it.
Dropped(list, n, list2) ==
  list2 = SubSeq([list EXCEPT ![n] = Last(list)], 1, Len(list) - 1)

\* The last entry takes the place of the one that is dropped.
LEMMA DroppedFacts ==
  ASSUME NEW S, NEW list \in Seq(S), NEW n \in 1..Len(list), NEW list2, Dropped(list, n, list2)
  PROVE  /\ list2 \in Seq(S) /\ Len(list2) = Len(list) - 1
         /\ \A m \in 1..Len(list) - 1 : list2[m] = IF m = n THEN list[Len(list)] ELSE list[m]
<1>1. PICK L : L = Len(list)
  OBVIOUS
<1>2. L \in Nat /\ n \in 1..L /\ L > 0
  BY <1>1
<1>3. PICK s : s = [list EXCEPT ![n] = list[L]]
  OBVIOUS
<1>4. s \in Seq(S) /\ Len(s) = L /\ \A m \in 1..L : s[m] = IF m = n THEN list[L] ELSE list[m]
  BY <1>1, <1>2, <1>3
<1>5. list2 = SubSeq(s, 1, L - 1)
  BY <1>1, <1>3 DEF Dropped, Last
<1>6. /\ list2 \in Seq(S) /\ Len(list2) = L - 1
      /\ \A m \in 1..L - 1 : list2[m] = s[m]
  <2>1. 1 \in 1..Len(s) + 1 /\ L - 1 \in (1 - 1)..Len(s)
    BY <1>2, <1>4
  <2> QED
    BY <1>2, <1>4, <1>5, <2>1, SubSeqProperties
<1> QED
  BY <1>1, <1>2, <1>4, <1>6

\* The others go on waiting when one is placed.
LEMMA RestWaits ==
  ASSUME NEW p, NEW ves, NEW list, Waiting(p, ves, list),
         NEW n \in 1..Len(list), NEW list2, Dropped(list, n, list2),
         NEW ves2, \A j \in VesselIDs(p) \ {list[n]} : ves2[j] = ves[j]
  PROVE  Waiting(p, ves2, list2)
<1>1. PICK L, S : L = Len(list) /\ S = VesselIDs(p)
  OBVIOUS
<1>2. /\ L \in Nat /\ n \in 1..L /\ list \in Seq(S)
      /\ \A m \in 1..L : list[m] \in S /\ ves[list[m]].section = UNASSIGNED
      /\ \A m, q \in 1..L : m # q => list[m] # list[q]
  BY <1>1 DEF Waiting
<1>3. /\ list2 \in Seq(S) /\ Len(list2) = L - 1
      /\ \A m \in 1..L - 1 : list2[m] = IF m = n THEN list[L] ELSE list[m]
  BY <1>1, <1>2, DroppedFacts
<1>4. ASSUME NEW m \in 1..L - 1
      PROVE  list2[m] \in S /\ list2[m] # list[n] /\ ves2[list2[m]].section = UNASSIGNED
  <2>1. PICK q \in 1..L : list2[m] = list[q] /\ q # n
    BY <1>2, <1>3
  <2>2. list[q] \in S \ {list[n]}
    BY <1>2, <2>1
  <2>3. ves2[list[q]] = ves[list[q]]
    BY <1>1, <2>2
  <2> QED
    BY <1>2, <2>1, <2>2, <2>3
<1>5. ASSUME NEW m \in 1..L - 1, NEW q \in 1..L - 1, m # q
      PROVE  list2[m] # list2[q]
  BY <1>2, <1>3, <1>5
<1> QED
  BY <1>1, <1>3, <1>4, <1>5 DEF Waiting

(* ConvVectoSol(): the working copies of a vector. *)
\* What ConvVectoSol() does to the copies.
Rebuilds(ves, sect, un, at, ves2, sect2) ==
  /\ Unplaces(ves, sect, un)
  /\ ves2 = [i \in DOMAIN ves |->
               [un[i] EXCEPT !.section = at[i], !.destinations = @ \ {at[i]}]]
  /\ sect2 = [k \in DOMAIN sect |->
                AddAll(RemoveAll(sect[k], ves, sect[k].vessels), ves,
                       {i \in DOMAIN ves : at[i] = k})]

\* A vector that fits becomes copies that agree, whatever they were before.
LEMMA RebuiltPlaced ==
  ASSUME NEW p, Usable(p), NEW ves, NEW sect, NEW left, Placed(p, ves, sect, left),
         NEW at, Feasible(p, at), NEW un, NEW ves2, NEW sect2,
         Rebuilds(ves, sect, un, at, ves2, sect2)
  PROVE  /\ Placed(p, ves2, sect2, {i \in DOMAIN ves : at[i] = UNASSIGNED})
         /\ Agree(p, Where(ves2), at)
<1>1. PICK bt : bt = Where(ves)
  OBVIOUS
<1>2. /\ DOMAIN ves = VesselIDs(p) /\ \A i \in VesselIDs(p) : Vessel(p, i, ves[i])
      /\ Feasible(p, bt) /\ sect = Layout(p, bt)
  BY <1>1 DEF Placed, Copies
<1>3. /\ DOMAIN sect = SectionIDs(p)
      /\ \A k \in SectionIDs(p) : sect[k] = Holding(p, k, HeldAt(p, bt, k))
  BY <1>2, Zenon DEF Layout
<1>4. \A i \in VesselIDs(p) : Copy(p, i, ves[i])
  BY <1>2 DEF Vessel
<1>5. ASSUME NEW i \in VesselIDs(p)
      PROVE  Vessel(p, i, ves2[i]) /\ ves2[i].section = at[i]
  <2>1. PICK u, v, k, d, e : /\ v = ves[i] /\ k = at[i]
                             /\ u = UNASSIGNED /\ d = v.destinations \cup DOMAIN sect
                             /\ e = d \ {k}
    OBVIOUS
  <2>2. Vessel(p, i, v) /\ d \in SUBSET SectionIDs(p) /\ e \in SUBSET SectionIDs(p)
    BY <1>2, <1>3, <2>1 DEF Vessel
  <2>3. PICK w : w = un[i] /\ Moved(v, w, u, d)
    <3>1. un[i] = [ves[i] EXCEPT !.section = UNASSIGNED, !.destinations = @ \cup DOMAIN sect]
      BY <1>2, Zenon DEF Rebuilds, Unplaces
    <3> QED
      BY <2>1, <3>1, Zenon DEF Moved
  <2>4. Vessel(p, i, w) /\ w.section = u /\ w.destinations = d
    <3>1. Vessel(p, i, w) /\ w.section = u
      BY <2>2, <2>3, CopyMoved
    <3>2. w.destinations = d
      BY <2>2, <2>3 DEF Moved, Vessel
    <3> QED
      BY <3>1, <3>2
  <2>5. Moved(w, ves2[i], k, e)
    <3>1. ves2[i] = [un[i] EXCEPT !.section = at[i], !.destinations = un[i].destinations \ {at[i]}]
      BY <1>2, Zenon DEF Rebuilds
    <3> QED
      BY <2>1, <2>3, <2>4, <3>1, Zenon DEF Moved
  <2>6. Vessel(p, i, ves2[i]) /\ ves2[i].section = k
    BY <2>2, <2>4, <2>5, CopyMoved
  <2> QED
    BY <2>1, <2>6
<1>6. DOMAIN ves2 = VesselIDs(p)
  BY <1>2, Zenon DEF Rebuilds
<1>7. Copies(p, ves2)
  BY <1>5, <1>6 DEF Copies
<1>8. PICK ct : ct = Where(ves2)
  OBVIOUS
<1>9. Agree(p, ct, at)
  BY <1>5, <1>6, <1>8 DEF Agree, Where
<1>10. \A k : HeldAt(p, ct, k) = HeldAt(p, at, k)
  BY <1>9 DEF Agree, HeldAt
<1>11. Feasible(p, ct)
  <2>1. \A i \in VesselIDs(p) : ct[i] \in SectionIDs(p) \cup {UNASSIGNED}
    BY <1>9 DEF Agree, Feasible
  <2>2. \A k \in SectionIDs(p) : Fits(p, k, HeldAt(p, ct, k))
    BY <1>10 DEF Feasible
  <2> QED
    BY <2>1, <2>2 DEF Feasible
<1>12. ASSUME NEW k \in SectionIDs(p)
       PROVE  sect2[k] = Holding(p, k, HeldAt(p, ct, k))
  <2>1. PICK S, T : S = HeldAt(p, bt, k) /\ T = HeldAt(p, ct, k)
    OBVIOUS
  <2>2. S \in SUBSET VesselIDs(p) /\ T \in SUBSET VesselIDs(p) /\ Fits(p, k, S) /\ Fits(p, k, T)
    <3>1. Fits(p, k, S) /\ Fits(p, k, T)
      BY <1>2, <1>11, <2>1 DEF Feasible
    <3> QED
      BY <2>1, <3>1 DEF HeldAt
  <2>3. sect[k] = Holding(p, k, S) /\ sect[k].vessels = S
    <3>1. sect[k] = Holding(p, k, S)
      BY <1>3, <2>1
    <3> QED
      BY <3>1 DEF Holding
  <2>4. T = {i \in DOMAIN ves : at[i] = k}
    BY <1>2, <1>10, <2>1 DEF HeldAt
  <2>5. sect2[k] = AddAll(RemoveAll(Holding(p, k, S), ves, S), ves, T)
    <3>1. sect2[k] = AddAll(RemoveAll(sect[k], ves, sect[k].vessels), ves,
                            {i \in DOMAIN ves : at[i] = k})
      BY <1>3, Zenon DEF Rebuilds
    <3> QED
      BY <2>3, <2>4, <3>1, Zenon
  <2>6. RemoveAll(Holding(p, k, S), ves, S) = Holding(p, k, {})
    BY <1>4, <2>2, RemoveAllHolding
  <2>7. AddAll(Holding(p, k, {}), ves, T) = Holding(p, k, T)
    BY <1>4, <2>2, AddAllHolding
  <2> QED
    BY <2>1, <2>5, <2>6, <2>7, Zenon
<1>13. sect2 = Layout(p, ct)
  <2>1. sect2 = [k \in SectionIDs(p) |-> sect2[k]]
    BY <1>3, Zenon DEF Rebuilds
  <2> QED
    BY <1>12, <2>1, Zenon DEF Layout
<1>14. {i \in DOMAIN ves : at[i] = UNASSIGNED} = HeldAt(p, ct, UNASSIGNED)
  BY <1>2, <1>10 DEF HeldAt
<1> QED
  BY <1>7, <1>8, <1>9, <1>11, <1>13, <1>14 DEF Placed

\* CanExchange() leaves the sections as they were, and what it allows fits.
LEMMA ExchangeTried ==
  ASSUME Usable(package), Placed(package, mVes, mSect, mUnallocVes),
         NEW i \in Vessels, NEW j \in Vessels, mVes[i].section # mVes[j].section
  PROVE  /\ PutBack(i, j) = mSect
         /\ CanExchange(i, j) => /\ RoomFor(package, Where(mVes), i, j, mVes[j])
                                 /\ RoomFor(package, Where(mVes), j, i, mVes[i])
<1>1. PICK p, ves, sect, at : /\ p = package /\ ves = mVes /\ sect = mSect
                              /\ at = Where(ves)
  OBVIOUS
<1>2. /\ Usable(p) /\ DOMAIN ves = VesselIDs(p) /\ \A c \in VesselIDs(p) : Copy(p, c, ves[c])
      /\ Feasible(p, at) /\ sect = Layout(p, at)
      /\ i \in VesselIDs(p) /\ j \in VesselIDs(p)
  BY <1>1 DEF Placed, Copies, Vessel, Vessels
<1>3. at[i] = ves[i].section /\ at[j] = ves[j].section /\ at[i] # at[j]
  BY <1>1, <1>2 DEF Where
<1>4. /\ DOMAIN sect = SectionIDs(p)
      /\ \A k \in SectionIDs(p) : sect[k] = Holding(p, k, HeldAt(p, at, k))
  BY <1>2, Zenon DEF Layout
<1>5. ASSUME NEW c \in {i, j}, NEW k \in SectionIDs(p), k = at[c]
      PROVE  /\ RemoveVessel(sect[k], ves[c]) = Holding(p, k, HeldAt(p, at, k) \ {c})
             /\ AddVessel(Holding(p, k, HeldAt(p, at, k) \ {c}), ves[c]) = sect[k]
  <2>1. PICK v : v = ves[c]
    OBVIOUS
  <2>2. c \in VesselIDs(p) /\ Copy(p, c, v) /\ at[c] = k
    BY <1>2, <1>5, <2>1
  <2>3. /\ RemoveVessel(Holding(p, k, HeldAt(p, at, k)), v) = Holding(p, k, HeldAt(p, at, k) \ {c})
        /\ AddVessel(Holding(p, k, HeldAt(p, at, k) \ {c}), v) = Holding(p, k, HeldAt(p, at, k))
    BY <1>2, <2>2, TakeOutPutBack
  <2> QED
    BY <1>4, <2>1, <2>3
<1>6. PICK out : out = TakenOut(i, j)
  OBVIOUS
<1>7. ASSUME NEW k \in SectionIDs(p)
      PROVE  out[k] = IF k = at[i] THEN RemoveVessel(sect[k], ves[i])
                      ELSE IF k = at[j] THEN RemoveVessel(sect[k], ves[j]) ELSE sect[k]
  <2>1. out[k] = CASE k = mVes[i].section -> RemoveVessel(mSect[k], mVes[i])
                   [] k = mVes[j].section -> RemoveVessel(mSect[k], mVes[j])
                   [] OTHER -> mSect[k]
    BY <1>1, <1>4, <1>6 DEF TakenOut
  <2> QED
    BY <1>1, <1>3, <2>1
<1>8. ASSUME NEW k \in SectionIDs(p)
      PROVE  PutBack(i, j)[k] = sect[k]
  <2>1. PutBack(i, j)[k] = CASE k = mVes[i].section -> AddVessel(out[k], mVes[i])
                             [] k = mVes[j].section -> AddVessel(out[k], mVes[j])
                             [] OTHER -> out[k]
    BY <1>1, <1>4, <1>6 DEF PutBack
  <2>2. CASE k = at[i]
    <3>1. AddVessel(Holding(p, k, HeldAt(p, at, k) \ {i}), ves[i]) = sect[k]
          /\ RemoveVessel(sect[k], ves[i]) = Holding(p, k, HeldAt(p, at, k) \ {i})
      BY <1>5, <2>2
    <3>2. out[k] = RemoveVessel(sect[k], ves[i])
      BY <1>7, <2>2
    <3>3. PutBack(i, j)[k] = AddVessel(out[k], ves[i])
      BY <1>1, <1>3, <2>1, <2>2
    <3> QED
      BY <3>1, <3>2, <3>3, Zenon
  <2>3. CASE k = at[j] /\ k # at[i]
    <3>1. AddVessel(Holding(p, k, HeldAt(p, at, k) \ {j}), ves[j]) = sect[k]
          /\ RemoveVessel(sect[k], ves[j]) = Holding(p, k, HeldAt(p, at, k) \ {j})
      BY <1>5, <2>3
    <3>2. out[k] = RemoveVessel(sect[k], ves[j])
      BY <1>7, <2>3
    <3>3. PutBack(i, j)[k] = AddVessel(out[k], ves[j])
      BY <1>1, <1>3, <2>1, <2>3
    <3> QED
      BY <3>1, <3>2, <3>3, Zenon
  <2>4. CASE k # at[i] /\ k # at[j]
    BY <1>1, <1>3, <1>7, <2>1, <2>4
  <2> QED
    BY <2>2, <2>3, <2>4
<1>9. PutBack(i, j) = mSect
  <2>1. PutBack(i, j) = [k \in SectionIDs(p) |-> PutBack(i, j)[k]]
    BY <1>1, <1>4, Zenon DEF PutBack
  <2>2. sect = [k \in SectionIDs(p) |-> sect[k]]
    BY <1>2, <1>4, Zenon DEF Layout
  <2> QED
    BY <1>1, <1>8, <2>1, <2>2, Zenon
<1>10. ASSUME CanExchange(i, j)
       PROVE  /\ RoomFor(p, at, i, j, ves[j]) /\ RoomFor(p, at, j, i, ves[i])
  <2>1. /\ at[i] = UNASSIGNED \/ CanAccommodate(out[at[i]], ves[j])
        /\ at[j] = UNASSIGNED \/ CanAccommodate(out[at[j]], ves[i])
    BY <1>1, <1>3, <1>6, <1>10 DEF CanExchange
  <2>2. ASSUME at[i] # UNASSIGNED
        PROVE  CanAccommodate(Holding(p, at[i], HeldAt(p, at, at[i]) \ {i}), ves[j])
    <3>1. PICK k : k = at[i]
      OBVIOUS
    <3>2. k \in SectionIDs(p)
      BY <1>2, <2>2, <3>1 DEF Feasible
    <3>3. out[k] = Holding(p, k, HeldAt(p, at, k) \ {i})
      BY <1>5, <1>7, <3>1, <3>2
    <3> QED
      BY <2>1, <2>2, <3>1, <3>3
  <2>3. ASSUME at[j] # UNASSIGNED
        PROVE  CanAccommodate(Holding(p, at[j], HeldAt(p, at, at[j]) \ {j}), ves[i])
    <3>1. PICK k : k = at[j]
      OBVIOUS
    <3>2. k \in SectionIDs(p) /\ k # at[i]
      BY <1>2, <1>3, <2>3, <3>1 DEF Feasible
    <3>3. out[k] = Holding(p, k, HeldAt(p, at, k) \ {j})
      BY <1>5, <1>7, <3>1, <3>2
    <3> QED
      BY <2>1, <2>3, <3>1, <3>3
  <2> QED
    BY <2>2, <2>3 DEF RoomFor
<1> QED
  BY <1>1, <1>9, <1>10

(***************************************************************************)
(* The inductive invariant.                                                *)
(***************************************************************************)

(* The package that got its solution has the same problem.                 *)

\* The parts of the package that no partitioner writes.
Same(p, q) ==
  q.ves = p.ves /\ q.sect = p.sect /\ q.trans = p.trans /\ q.zones = p.zones

\* So a good package stays good.
LEMMA SamePackage ==
  ASSUME NEW p, NEW q, Same(p, q), Good(p), {"ves", "sect", "trans", "zones"} \subseteq DOMAIN q
  PROVE  /\ Good(q)
         /\ \A ves, sect, left : Placed(p, ves, sect, left) => Placed(q, ves, sect, left)
<1>1. /\ NumVessels(q) = NumVessels(p) /\ NumSections(q) = NumSections(p)
      /\ NumTimeZones(q) = NumTimeZones(p)
  BY Zenon DEF Same, NumVessels, NumSections, NumTimeZones
<1>2. VesselIDs(q) = VesselIDs(p) /\ SectionIDs(q) = SectionIDs(p)
  BY <1>1, Zenon DEF VesselIDs, SectionIDs
<1>3. \A i : TimeZones(q, i) = TimeZones(p, i)
  BY <1>1, Zenon DEF TimeZones, Same
<1>4. \A i : Zones(q, i) = Zones(p, i)
  BY <1>3, Zenon DEF Zones, StartTimeZone, EndTimeZone
<1>5. \A T, z : Needed(q, T, z) = Needed(p, T, z)
  <2>1. \A T, z : {i \in T : z \in Zones(q, i)} = {i \in T : z \in Zones(p, i)}
    BY <1>4
  <2> QED
    BY <2>1, Zenon DEF Needed, Same
<1>6. \A k, T : Fits(q, k, T) <=> Fits(p, k, T)
  <2> SUFFICES ASSUME NEW k, NEW T
               PROVE  Fits(q, k, T) <=> Fits(p, k, T)
    OBVIOUS
  <2>1. q.sect.length[k] = p.sect.length[k]
    BY Zenon DEF Same
  <2> QED
    BY <1>1, <1>5, <2>1 DEF Fits
<1>7. \A k, T : Holding(q, k, T) = Holding(p, k, T)
  <2> SUFFICES ASSUME NEW k, NEW T
               PROVE  Holding(q, k, T) = Holding(p, k, T)
    OBVIOUS
  <2>1. q.sect.length[k] = p.sect.length[k]
    BY Zenon DEF Same
  <2>2. [z \in 1..NumTimeZones(q) |-> q.sect.length[k] - Needed(q, T, z)]
          = [z \in 1..NumTimeZones(p) |-> p.sect.length[k] - Needed(p, T, z)]
    BY <1>1, <1>5, <2>1, Zenon
  <2> QED
    BY <2>1, <2>2, Zenon DEF Holding
<1>8. \A i : Neighbours(q, i) = Neighbours(p, i)
  BY <1>2, Zenon DEF Neighbours, Same
<1>9. \A i, v : Vessel(p, i, v) => Vessel(q, i, v)
  <2> SUFFICES ASSUME NEW i, NEW v, Vessel(p, i, v)
               PROVE  Vessel(q, i, v)
    OBVIOUS
  <2>1. Copy(q, i, v)
    BY <1>4, Zenon DEF Vessel, Copy, Same
  <2>2. v.departure = q.ves.departure[i] /\ v.neighbours = Neighbours(q, i)
        /\ v.export = q.trans[<<0, i>>] /\ v.import = q.trans[<<i, 0>>]
        /\ v.destinations \in SUBSET SectionIDs(q)
        /\ {"section", "destinations"} \subseteq DOMAIN v
    BY <1>2, <1>8, Zenon DEF Vessel, Same
  <2> QED
    BY <2>1, <2>2, Zenon DEF Vessel
<1>10. \A at, k : HeldAt(q, at, k) = HeldAt(p, at, k)
  BY <1>2, Zenon DEF HeldAt
<1>11. \A at : Feasible(p, at) => Feasible(q, at)
  BY <1>2, <1>6, <1>10, Zenon DEF Feasible
<1>12. \A at : Layout(q, at) = Layout(p, at)
  BY <1>2, <1>7, <1>10, Zenon DEF Layout
<1>13. \A ves : Copies(p, ves) => Copies(q, ves)
  BY <1>2, <1>9, Zenon DEF Copies
<1>14. \A ves, sect, left : Placed(p, ves, sect, left) => Placed(q, ves, sect, left)
  BY <1>10, <1>11, <1>12, <1>13, Zenon DEF Placed
<1>15. Usable(q)
  BY <1>1, <1>2, <1>4, Zenon DEF Good, Usable, Same
<1>16. Covered(q)
  <2>1. Covered(p) /\ q.ves.arrival = p.ves.arrival /\ q.ves.departure = p.ves.departure
    BY Zenon DEF Good, Same
  <2> QED
    BY <1>1, <1>2, <1>4, <2>1 DEF Covered
<1>17. Charged(q)
  BY <1>1, Zenon DEF Good, Charged, Same
<1> QED
  BY <1>14, <1>15, <1>16, <1>17 DEF Good

(* The invariant.                                                          *)

\* The phases in which vessels are placed one by one, and all the later ones.
Building == {"random", "greedy"}
Solving == Building \cup {"first", "ten", "cooled", "solved"}

\* v is a function.
IsFunction(v) == v = [i \in DOMAIN v |-> v[i]]

\* A vector of the annealing: a solution that fits, with its cost at 0.
Vector(p, v) ==
  /\ DOMAIN v = {0} \cup VesselIDs(p) /\ IsFunction(v)
  /\ Feasible(p, v) /\ v[0] = ValueOf(p, v)

\* There are no copies before a partitioner is constructed and after it is gone.
Nothing(ves, sect, left) == ves = <<>> /\ sect = <<>> /\ left = {}

\* In every phase: what the copies are; while vessels are placed: who waits;
\* while the annealing runs: its vectors are solutions that fit, with their cost.
CopiesInv ==
  /\ phase \in {"start", "exit", "parameters", "partitioning", "init", "packing", "done"}
                 \cup Solving
  /\ phase \notin {"start", "exit"} => Good(package)
  /\ phase \in {"start", "exit", "parameters", "partitioning"}
       => Nothing(mVes, mSect, mUnallocVes)
  /\ phase = "init" => Fresh(package, mVes, mSect)
  /\ phase \in Solving => Placed(package, mVes, mSect, mUnallocVes)
  /\ phase \in {"packing", "done"}
       => \/ Nothing(mVes, mSect, mUnallocVes)
          \/ Placed(package, mVes, mSect, mUnallocVes)

WaitingInv == phase \in Building => Waiting(package, mVes, candidates)

VectorsInv ==
  Annealing => /\ Agree(package, x, Where(mVes))
               /\ Vector(package, x) /\ Vector(package, best) /\ Vector(package, bestsol)

BerthIInv == CopiesInv /\ WaitingInv /\ VectorsInv

(***************************************************************************)
(* The steps.                                                              *)
(***************************************************************************)

\* The empty solver.
LEMMA BerthInitInv == BerthInit => BerthIInv
BY DEF BerthInit, BerthIInv, CopiesInv, WaitingInv, VectorsInv, Solving, Building,
       Annealing, Nothing

LEMMA LoadPackageInv == BerthIInv /\ LoadPackage => BerthIInv'
<1> SUFFICES ASSUME BerthIInv, LoadPackage
             PROVE  BerthIInv'
  OBVIOUS
<1>1. phase = "start" /\ UNCHANGED <<mVes, mSect, mUnallocVes>>
  BY DEF LoadPackage, partVars, berthVars
<1>2. Nothing(mVes, mSect, mUnallocVes)
  BY <1>1 DEF BerthIInv, CopiesInv
<1>3. \/ phase' = "exit"
      \/ phase' = "parameters" /\ Good(package')
  <2>1. ASSUME NEW file \in Projects, package' = NewPackage(ReadProject(file))
        PROVE  Good(package')
    BY <2>1, PackageGood
  <2> QED
    BY <2>1 DEF LoadPackage
<1> QED
  BY <1>1, <1>2, <1>3 DEF BerthIInv, CopiesInv, WaitingInv, VectorsInv, Solving, Building,
                          Annealing

LEMMA ReadParameterFileInv == BerthIInv /\ ReadParameterFile => BerthIInv'
<1> SUFFICES ASSUME BerthIInv, ReadParameterFile
             PROVE  BerthIInv'
  OBVIOUS
<1>1. phase = "parameters" /\ UNCHANGED <<package, mVes, mSect, mUnallocVes>>
  BY DEF ReadParameterFile, partVars, berthVars
<1>2. Nothing(mVes, mSect, mUnallocVes) /\ Good(package)
  BY <1>1 DEF BerthIInv, CopiesInv
<1>3. phase' \in {"partitioning", "packing", "done"}
  BY Zenon DEF ReadParameterFile
<1> QED
  BY <1>1, <1>2, <1>3 DEF BerthIInv, CopiesInv, WaitingInv, VectorsInv, Solving, Building,
                          Annealing

LEMMA DoPartitioningInv == BerthIInv /\ DoPartitioning => BerthIInv'
<1> SUFFICES ASSUME BerthIInv, DoPartitioning
             PROVE  BerthIInv'
  OBVIOUS
<1>1. phase = "partitioning" /\ UNCHANGED <<package, mUnallocVes>>
  BY DEF DoPartitioning
<1>2. Nothing(mVes, mSect, mUnallocVes) /\ Good(package)
  BY <1>1 DEF BerthIInv, CopiesInv
<1>3. \/ phase' = "init" /\ Fresh(package, mVes', mSect')
      \/ phase' \in {"packing", "done"} /\ UNCHANGED <<mVes, mSect>>
  <2>1. CASE mPartitioner \in {"TV", "GREEDY", "SA"}
    <3>1. phase' = "init" /\ Construct(package)
      BY <2>1 DEF DoPartitioning
    <3>2. PICK p : p = package
      OBVIOUS
    <3>3. Fresh(p, [i \in VesselIDs(p) |-> NewVessel(p, i)],
                [k \in SectionIDs(p) |-> NewSection(p, k)])
      BY <1>2, <3>2, ConstructFresh DEF Good
    <3>4. Fresh(package, mVes', mSect')
      BY <3>1, <3>2, <3>3, Zenon DEF Construct
    <3> QED
      BY <3>1, <3>4
  <2>2. CASE mPartitioner \notin {"TV", "GREEDY", "SA"}
    BY <2>2 DEF DoPartitioning, AfterPartitioning
  <2> QED
    BY <2>1, <2>2
<1> QED
  BY <1>1, <1>2, <1>3 DEF BerthIInv, CopiesInv, WaitingInv, VectorsInv, Solving, Building,
                          Annealing

LEMMA ConstructedInv == BerthIInv /\ Constructed => BerthIInv'
<1> SUFFICES ASSUME BerthIInv, Constructed
             PROVE  BerthIInv'
  OBVIOUS
<1>1. phase \in Building /\ phase' = "solved" /\ UNCHANGED <<package, mVes, mSect, mUnallocVes>>
  BY DEF Constructed, partVars, berthVars, Building
<1>2. Placed(package, mVes, mSect, mUnallocVes) /\ Good(package)
  BY <1>1 DEF BerthIInv, CopiesInv, Solving, Building
<1> QED
  BY <1>1, <1>2 DEF BerthIInv, CopiesInv, WaitingInv, VectorsInv, Solving, Building, Annealing

LEMMA ReportInv == BerthIInv /\ Report => BerthIInv'
<1> SUFFICES ASSUME BerthIInv, Report
             PROVE  BerthIInv'
  OBVIOUS
<1>1. phase = "solved" /\ phase' \in {"packing", "done"} /\ UNCHANGED <<mVes, mSect, mUnallocVes>>
  BY DEF Report, berthVars, AfterPartitioning
<1>2. Placed(package, mVes, mSect, mUnallocVes) /\ Good(package)
  BY <1>1 DEF BerthIInv, CopiesInv, Solving
<1>3. PICK p, q, ves, sect, left : /\ p = package /\ q = package'
                                   /\ ves = mVes /\ sect = mSect /\ left = mUnallocVes
  OBVIOUS
<1>4. Same(p, q) /\ {"ves", "sect", "trans", "zones"} \subseteq DOMAIN q
  <2>1. PICK s, c : q = [p EXCEPT !.section = s, !.transhipmentCost = c]
    BY <1>3, Zenon DEF Report, UpdatePackage
  <2>2. {"ves", "sect", "trans", "zones"} \subseteq DOMAIN p
    BY <1>2, <1>3 DEF Good
  <2> QED
    BY <2>1, <2>2 DEF Same
<1>5. Good(q) /\ Placed(q, ves, sect, left)
  BY <1>2, <1>3, <1>4, SamePackage
<1> QED
  BY <1>1, <1>3, <1>5 DEF BerthIInv, CopiesInv, WaitingInv, VectorsInv, Solving, Building,
                          Annealing

LEMMA DoPackingInv == BerthIInv /\ DoPacking => BerthIInv'
BY DEF DoPacking, partVars, berthVars, BerthIInv, CopiesInv, WaitingInv, VectorsInv,
       Solving, Building, Annealing

LEMMA InitSolutionInv == BerthIInv /\ InitSolution => BerthIInv'
<1> SUFFICES ASSUME BerthIInv, InitSolution
             PROVE  BerthIInv'
  OBVIOUS
<1>1. phase = "init" /\ phase' \in Building /\ UNCHANGED <<package, mSect>>
      /\ candidates' = [i \in Vessels |-> i]
  BY DEF InitSolution, Building
<1>2. Fresh(package, mVes, mSect) /\ Good(package)
  BY <1>1 DEF BerthIInv, CopiesInv
<1>3. PICK p, ves, sect, ves2 : p = package /\ ves = mVes /\ sect = mSect /\ ves2 = mVes'
  OBVIOUS
<1>4. Unplaces(ves, sect, ves2)
  BY <1>3, Zenon DEF InitSolution, Unplaced, Unplaces
<1>5. /\ Placed(p, ves2, sect, VesselIDs(p))
      /\ \A i \in VesselIDs(p) : ves2[i].section = UNASSIGNED
  BY <1>2, <1>3, <1>4, InitialPlaced DEF Good
<1>6. Vessels = VesselIDs(p) /\ mUnallocVes' = VesselIDs(p)
  BY <1>2, <1>3 DEF Fresh, Copies, Vessels, InitSolution
<1>7. Waiting(p, ves2, candidates')
  <2>1. PICK V, list : V = NumVessels(p) /\ list = candidates'
    OBVIOUS
  <2>2. V \in Nat /\ VesselIDs(p) = 1..V /\ list = [i \in 1..V |-> i]
    BY <1>1, <1>2, <1>3, <1>6, <2>1 DEF Good, Usable, VesselIDs
  <2>3. list \in Seq(1..V) /\ Len(list) = V /\ \A n \in 1..V : list[n] = n
    BY <2>2
  <2> QED
    BY <1>5, <2>1, <2>2, <2>3 DEF Waiting
<1> QED
  BY <1>1, <1>2, <1>3, <1>5, <1>6, <1>7
     DEF BerthIInv, CopiesInv, WaitingInv, VectorsInv, Solving, Building, Annealing

\* Place() gives a waiting vessel one of the sections with room, or none.
LEMMA PlaceInv ==
  ASSUME BerthIInv, phase \in Building, package' = package, phase' = phase,
         NEW n \in 1..Len(candidates), NEW ks \in SUBSET Fitting(candidates[n]),
         Place(n, ks)
  PROVE  BerthIInv'
<1>1. /\ Placed(package, mVes, mSect, mUnallocVes) /\ Good(package)
      /\ Waiting(package, mVes, candidates)
  BY DEF BerthIInv, CopiesInv, WaitingInv, Solving, Building
<1>2. PICK p, ves, sect, left, list, ves2, sect2, left2, list2 :
        /\ p = package /\ ves = mVes /\ sect = mSect /\ left = mUnallocVes /\ list = candidates
        /\ ves2 = mVes' /\ sect2 = mSect' /\ left2 = mUnallocVes' /\ list2 = candidates'
  OBVIOUS
<1>3. Dropped(list, n, list2)
  BY <1>2, Zenon DEF Place, Dropped
<1>4. PICK i : i = list[n]
  OBVIOUS
<1>5. i \in VesselIDs(p) /\ ves[i].section = UNASSIGNED /\ n \in 1..Len(list)
  BY <1>1, <1>2, <1>4 DEF Waiting
<1>6. /\ Placed(p, ves2, sect2, left2)
      /\ \A j \in VesselIDs(p) \ {i} : ves2[j] = ves[j]
  <2>1. CASE ks = {}
    <3>1. ves2 = ves /\ sect2 = sect /\ left2 = left
      BY <1>2, <2>1 DEF Place, berthVars
    <3> QED
      BY <1>1, <1>2, <3>1
  <2>2. CASE ks # {}
    <3>1. PICK k \in ks : Assign(i, k)
      BY <1>2, <1>4, <2>2, Zenon DEF Place
    <3>2. k \in ves[i].destinations /\ CanAccommodate(sect[k], ves[i])
      BY <1>2, <1>4 DEF Fitting
    <3>3. Assigns(ves, sect, left, i, k, ves2, sect2, left2)
      BY <1>2, <3>1, Zenon DEF Assign, Assigns
    <3>4. Usable(p) /\ Placed(p, ves, sect, left)
      BY <1>1, <1>2 DEF Good
    <3> QED
      BY <1>5, <3>2, <3>3, <3>4, AssignPlaced
  <2> QED
    BY <2>1, <2>2
<1>7. Waiting(p, ves2, list2)
  BY <1>1, <1>2, <1>3, <1>4, <1>5, <1>6, RestWaits
<1> QED
  BY <1>1, <1>2, <1>6, <1>7
     DEF BerthIInv, CopiesInv, WaitingInv, VectorsInv, Solving, Building, Annealing

LEMMA AssignVesselInv == BerthIInv /\ AssignVesselToRandomSection => BerthIInv'
<1> SUFFICES ASSUME BerthIInv, AssignVesselToRandomSection
             PROVE  BerthIInv'
  OBVIOUS
<1>1. phase \in Building /\ package' = package /\ phase' = phase
  BY DEF AssignVesselToRandomSection, Building
<1>2. PICK n \in DOMAIN candidates : Place(n, Fitting(candidates[n]))
  BY Zenon DEF AssignVesselToRandomSection
<1>3. n \in 1..Len(candidates)
  BY <1>1 DEF BerthIInv, WaitingInv, Waiting
<1> QED
  BY <1>1, <1>2, <1>3, PlaceInv

\* A nonempty list has an entry with the earliest departure.
LEMMA Least ==
  ASSUME NEW N \in Nat, NEW f, \A n \in 1..N : f[n] \in Int
  PROVE  \A l \in 1..N : \E n \in 1..l : \A m \in 1..l : f[n] <= f[m]
<1> DEFINE Has(l) == \E n \in 1..l : \A m \in 1..l : f[n] <= f[m]
           Bad == {l \in 1..N : ~Has(l)}
<1> SUFFICES ASSUME Bad # {}
             PROVE  FALSE
  OBVIOUS
<1>1. PICK l \in Bad : \A m \in Bad : l <= m
  <2>1. Bad \in SUBSET Nat
    OBVIOUS
  <2> QED
    BY <2>1, Smallest
<1>2. l # 1
  <2>1. ASSUME l = 1
        PROVE  Has(l)
    <3>1. \A m \in 1..l : f[1] <= f[m]
      BY <2>1
    <3> QED
      BY <2>1, <3>1
  <2> QED
    BY <1>1, <2>1
<1>3. l \in 1..N /\ l - 1 \in 1..N /\ Has(l - 1)
  <2> HIDE DEF Has
  <2>1. l \in 1..N /\ l - 1 \in 1..N /\ ~(l <= l - 1)
    BY <1>1, <1>2
  <2> QED
    BY <1>1, <2>1
<1>4. PICK n \in 1..l - 1 : \A m \in 1..l - 1 : f[n] <= f[m]
  BY <1>3
<1>5. CASE f[n] <= f[l]
  <2>1. \A m \in 1..l : f[n] <= f[m]
    BY <1>3, <1>4, <1>5
  <2> QED
    BY <1>1, <1>3, <1>4, <2>1
<1>6. CASE ~(f[n] <= f[l])
  <2>1. \A m \in 1..l : f[l] <= f[m]
    <3> SUFFICES ASSUME NEW m \in 1..l
                 PROVE  f[l] <= f[m]
      OBVIOUS
    <3>1. f[l] \in Int /\ f[n] \in Int /\ f[m] \in Int
      BY <1>3, <1>4
    <3>2. m = l \/ f[n] <= f[m]
      BY <1>3, <1>4
    <3> QED
      BY <1>6, <3>1, <3>2
  <2> QED
    BY <1>1, <1>3, <2>1
<1> QED
  BY <1>5, <1>6

\* SelectVessel() finds a candidate, the one that leaves first.
LEMMA EarliestDeparture ==
  ASSUME candidates # <<>>, Waiting(package, mVes, candidates), Good(package),
         Placed(package, mVes, mSect, mUnallocVes)
  PROVE  SelectVessel_earliestDeparture \in 1..Len(candidates)
<1> DEFINE f == [n \in 1..Len(candidates) |-> mVes[candidates[n]].departure]
           First == {i \in DOMAIN candidates : \A j \in DOMAIN candidates :
                       mVes[candidates[i]].departure <= mVes[candidates[j]].departure}
<1>1. PICK N : N = Len(candidates)
  OBVIOUS
<1>2. /\ N \in Nat /\ N \in 1..N /\ DOMAIN candidates = 1..N
      /\ \A n \in 1..N : candidates[n] \in VesselIDs(package)
  BY <1>1 DEF Waiting
<1>3. \A n \in 1..N : f[n] \in Int /\ f[n] = mVes[candidates[n]].departure
  BY <1>1, <1>2 DEF Placed, Copies, Vessel, Good, Usable
<1>4. PICK n \in 1..N : \A m \in 1..N : f[n] <= f[m]
  <2> HIDE DEF f
  <2> QED
    BY <1>2, <1>3, Least
<1>5. First \in SUBSET Nat /\ n \in First
  <2>1. \A m \in 1..N : mVes[candidates[n]].departure <= mVes[candidates[m]].departure
    <3> HIDE DEF f
    <3> QED
      BY <1>3, <1>4
  <2> QED
    BY <1>2, <1>4, <2>1
<1>6. SelectVessel_earliestDeparture = Min(First)
  BY DEF SelectVessel_earliestDeparture
<1>7. Min(First) \in First
  <2> HIDE DEF First
  <2>1. \E a \in First : \A b \in First : a <= b
    BY <1>5, Smallest
  <2> QED
    BY <2>1, Zenon DEF Min
<1> QED
  BY <1>1, <1>2, <1>6, <1>7

LEMMA GreedyStepInv == BerthIInv /\ GreedyStep => BerthIInv'
<1> SUFFICES ASSUME BerthIInv, GreedyStep
             PROVE  BerthIInv'
  OBVIOUS
<1>1. phase \in Building /\ package' = package /\ phase' = phase
  BY DEF GreedyStep, Building
<1>2. PICK n : n = SelectVessel_earliestDeparture
  OBVIOUS
<1>3. Place(n, SelectSection_minIncreaseTranship(candidates[n]))
  BY <1>2, Zenon DEF GreedyStep
<1>4. SelectSection_minIncreaseTranship(candidates[n]) \in SUBSET Fitting(candidates[n])
  BY DEF SelectSection_minIncreaseTranship
<1>5. n \in 1..Len(candidates)
  <2>1. /\ candidates # <<>> /\ Waiting(package, mVes, candidates) /\ Good(package)
        /\ Placed(package, mVes, mSect, mUnallocVes)
    BY <1>1 DEF GreedyStep, BerthIInv, WaitingInv, CopiesInv, Solving
  <2> QED
    BY <1>2, <2>1, EarliestDeparture
<1> QED
  BY <1>1, <1>3, <1>4, <1>5, PlaceInv

\* What the invariant says while a solution is there, and while it is annealed.
LEMMA SolvingFacts ==
  BerthIInv /\ phase \in Solving
    => Good(package) /\ Usable(package) /\ Placed(package, mVes, mSect, mUnallocVes)
       /\ Copies(package, mVes) /\ Vessels = VesselIDs(package) /\ Sections = Where(mVes)
<1> SUFFICES ASSUME BerthIInv, phase \in Solving
             PROVE  Good(package) /\ Usable(package)
                    /\ Placed(package, mVes, mSect, mUnallocVes)
                    /\ Copies(package, mVes) /\ Vessels = VesselIDs(package)
                    /\ Sections = Where(mVes)
  OBVIOUS
<1>1. Good(package) /\ Placed(package, mVes, mSect, mUnallocVes)
  BY DEF BerthIInv, CopiesInv, Solving, Building
<1>2. Usable(package) /\ Copies(package, mVes)
  BY <1>1 DEF Good, Placed
<1>3. Vessels = VesselIDs(package)
  BY <1>2 DEF Copies, Vessels
<1>4. Sections = Where(mVes)
  BY DEF Sections, Where, Vessels
<1> QED
  BY <1>1, <1>2, <1>3, <1>4

LEMMA AnnealingFacts ==
  BerthIInv /\ Annealing
    => /\ phase \in Solving /\ phase \notin Building
       /\ Agree(package, x, Where(mVes))
       /\ Vector(package, x) /\ Vector(package, best) /\ Vector(package, bestsol)
BY DEF BerthIInv, VectorsInv, Annealing, Solving, Building

\* CalcObjValTemp() puts the cost of a vector at 0.
LEMMA TempVector ==
  ASSUME Copies(package, mVes), Usable(package), NEW v,
         DOMAIN v = {0} \cup VesselIDs(package), Feasible(package, v)
  PROVE  Vector(package, CalcObjValTemp(v))
<1>1. PICK p, w, c : p = package /\ w = CalcObjValTemp(v) /\ c = CalcObjVal(v)
  OBVIOUS
<1>2. c = ValueOf(p, v)
  BY <1>1, CostBridge
<1>3. w = [v EXCEPT ![0] = c]
  BY <1>1, Zenon DEF CalcObjValTemp
<1>4. 0 \notin VesselIDs(p)
  BY <1>1 DEF Usable, VesselIDs
<1>5. /\ w[0] = c /\ DOMAIN w = DOMAIN v /\ IsFunction(w)
      /\ \A i \in VesselIDs(p) : w[i] = v[i]
  BY <1>1, <1>3, <1>4 DEF IsFunction
<1>6. Agree(p, w, v)
  BY <1>5 DEF Agree
<1>7. ValueOf(p, w) = ValueOf(p, v)
  BY <1>6, AgreeCosts
<1>8. Feasible(p, w)
  <2>1. \A k : HeldAt(p, w, k) = HeldAt(p, v, k)
    BY <1>5 DEF HeldAt
  <2> QED
    BY <1>1, <1>5, <2>1 DEF Feasible
<1> QED
  BY <1>1, <1>2, <1>5, <1>7, <1>8 DEF Vector

\* Exchange(): the two vessels swap only where each fits, and the vector that
\* is built from the copies has the cost it says.
LEMMA ExchangeVector ==
  ASSUME Usable(package), Placed(package, mVes, mSect, mUnallocVes),
         Agree(package, x, Where(mVes)), Vector(package, x),
         NEW i \in Vessels, NEW j \in Vessels, x[i] # x[j]
  PROVE  /\ PutBack(i, j) = mSect
         /\ CanExchange(i, j) => Vector(package, Exchange(x, i, j))
<1>0. PICK p, at, v, w, vec :
        /\ p = package /\ at = Where(mVes) /\ v = mVes[i] /\ w = mVes[j] /\ vec = x
  OBVIOUS
<1>1. PICK u : /\ p = package /\ at = Where(mVes) /\ v = mVes[i] /\ w = mVes[j] /\ vec = x
               /\ u = [vec EXCEPT ![i] = vec[j], ![j] = vec[i]]
  BY <1>0
<1>2. /\ i \in VesselIDs(p) /\ j \in VesselIDs(p) /\ Copy(p, i, v) /\ Copy(p, j, w)
      /\ \A c \in VesselIDs(p) : at[c] = mVes[c].section /\ vec[c] = at[c]
      /\ DOMAIN vec = {0} \cup VesselIDs(p)
  BY <1>1 DEF Placed, Copies, Vessel, Vessels, Agree, Where, Vector
<1>3. mVes[i].section # mVes[j].section
  BY <1>1, <1>2
<1>4. /\ PutBack(i, j) = mSect
      /\ CanExchange(i, j) => /\ RoomFor(package, Where(mVes), i, j, mVes[j])
                              /\ RoomFor(package, Where(mVes), j, i, mVes[i])
  BY <1>3, ExchangeTried
<1>5. ASSUME CanExchange(i, j)
      PROVE  Vector(package, Exchange(x, i, j))
  <2>1. RoomFor(p, at, i, j, w) /\ RoomFor(p, at, j, i, v)
    BY <1>1, <1>4, <1>5
  <2>2. Swaps(p, at, u, i, j)
    <3>1. i # j /\ at[i] # at[j]
      BY <1>1, <1>2
    <3>2. \A c \in VesselIDs(p) : u[c] = IF c = i THEN at[j] ELSE IF c = j THEN at[i] ELSE at[c]
      BY <1>1, <1>2, <3>1
    <3> QED
      BY <1>2, <3>1, <3>2 DEF Swaps
  <2>3. Feasible(p, at)
    BY <1>1 DEF Placed
  <2>4. Feasible(p, u)
    BY <1>1, <1>2, <2>1, <2>2, <2>3, SwapFeasible
  <2>5. DOMAIN u = {0} \cup VesselIDs(p)
    BY <1>1, <1>2
  <2>6. Vector(package, CalcObjValTemp(u))
    BY <1>1, <2>4, <2>5, TempVector DEF Placed
  <2>7. Exchange(x, i, j) = CalcObjValTemp(u)
    BY <1>1, Zenon DEF Exchange
  <2> QED
    BY <2>6, <2>7
<1> QED
  BY <1>4, <1>5

\* ConvVectoSol() of a solution that fits.
LEMMA Rebuilt ==
  ASSUME Usable(package), Placed(package, mVes, mSect, mUnallocVes),
         NEW at, Feasible(package, at), ConvVectoSol(at)
  PROVE  /\ Placed(package, mVes', mSect', mUnallocVes')
         /\ Agree(package, Where(mVes'), at)
<1>1. PICK p, ves, sect, left, un, ves2, sect2 :
        /\ p = package /\ ves = mVes /\ sect = mSect /\ left = mUnallocVes
        /\ un = Unplaced(mVes) /\ ves2 = mVes' /\ sect2 = mSect'
  OBVIOUS
<1>2. Rebuilds(ves, sect, un, at, ves2, sect2)
  <2>1. Unplaces(ves, sect, un)
    BY <1>1, Zenon DEF Unplaces, Unplaced
  <2>2. ves2 = [i \in DOMAIN ves |->
                  [un[i] EXCEPT !.section = at[i], !.destinations = @ \ {at[i]}]]
    BY <1>1, Zenon DEF ConvVectoSol, Vessels
  <2>3. sect2 = [k \in DOMAIN sect |->
                   AddAll(RemoveAll(sect[k], ves, sect[k].vessels), ves,
                          {i \in DOMAIN ves : at[i] = k})]
    BY <1>1, Zenon DEF ConvVectoSol, Vessels, ClearSoln
  <2> QED
    BY <2>1, <2>2, <2>3, Zenon DEF Rebuilds
<1>3. Usable(p) /\ Placed(p, ves, sect, left) /\ Feasible(p, at)
  BY <1>1
<1>4. /\ Placed(p, ves2, sect2, {i \in DOMAIN ves : at[i] = UNASSIGNED})
      /\ Agree(p, Where(ves2), at)
  BY <1>2, <1>3, RebuiltPlaced
<1>5. mUnallocVes' = {i \in DOMAIN ves : at[i] = UNASSIGNED}
  BY <1>1 DEF ConvVectoSol, Vessels
<1> QED
  BY <1>1, <1>4, <1>5, Zenon

\* What an annealing step has to show.
LEMMA AnnealingKept ==
  ASSUME BerthIInv, package' = package, phase' \in {"first", "ten", "cooled"},
         Good(package), Placed(package, mVes', mSect', mUnallocVes'),
         Agree(package, x', Where(mVes')),
         Vector(package, x'), Vector(package, best'), Vector(package, bestsol')
  PROVE  BerthIInv'
BY DEF BerthIInv, CopiesInv, WaitingInv, VectorsInv, Solving, Building, Annealing

LEMMA StartAnnealingInv == BerthIInv /\ StartAnnealing => BerthIInv'
<1> SUFFICES ASSUME BerthIInv, StartAnnealing
             PROVE  BerthIInv'
  OBVIOUS
<1>1. /\ phase \in Solving /\ phase' = "first" /\ package' = package
      /\ mVes' = mVes /\ mSect' = mSect /\ mUnallocVes' = mUnallocVes
  BY DEF StartAnnealing, Solving, Building, berthVars
<1>2. Good(package) /\ Usable(package) /\ Placed(package, mVes, mSect, mUnallocVes)
      /\ Copies(package, mVes) /\ Vessels = VesselIDs(package) /\ Sections = Where(mVes)
  BY <1>1, SolvingFacts
<1>3. PICK p, at, cost, v : /\ p = package /\ at = Where(mVes) /\ v = x'
                            /\ cost = CalcObjVal(Sections)
  OBVIOUS
<1>4. v = [i \in {0} \cup VesselIDs(p) |-> IF i = 0 THEN cost ELSE mVes[i].section]
  BY <1>2, <1>3, Zenon DEF StartAnnealing, ConvSoltoVec
<1>5. 0 \notin VesselIDs(p) /\ DOMAIN mVes = VesselIDs(p)
  BY <1>2, <1>3 DEF Usable, VesselIDs, Copies
<1>6. v[0] = cost /\ DOMAIN v = {0} \cup VesselIDs(p) /\ \A i \in VesselIDs(p) : v[i] = at[i]
  BY <1>3, <1>4, <1>5 DEF Where
<1>7. Agree(p, v, at)
  BY <1>6 DEF Agree
<1>8. cost = ValueOf(p, at)
  BY <1>2, <1>3, CostBridge
<1>9. Feasible(p, v)
  <2>1. \A k : HeldAt(p, v, k) = HeldAt(p, at, k)
    BY <1>6 DEF HeldAt
  <2> QED
    BY <1>2, <1>3, <1>6, <2>1 DEF Feasible, Placed
<1>10. Vector(p, v)
  <2>1. IsFunction(v)
    BY <1>4 DEF IsFunction
  <2> QED
    BY <1>6, <1>7, <1>8, <1>9, <2>1, AgreeCosts DEF Vector
<1>11. Vector(package, best')
  <2>1. best' = CalcObjValTemp(v)
    BY <1>3 DEF StartAnnealing
  <2> QED
    BY <1>2, <1>3, <1>6, <1>9, <2>1, TempVector
<1>12. bestsol' = v
  BY <1>3 DEF StartAnnealing
<1> QED
  BY <1>1, <1>2, <1>3, <1>7, <1>10, <1>11, <1>12, AnnealingKept

LEMMA NoFirstExchangeInv == BerthIInv /\ NoFirstExchange => BerthIInv'
<1> SUFFICES ASSUME BerthIInv, NoFirstExchange
             PROVE  BerthIInv'
  OBVIOUS
<1>1. /\ Annealing /\ phase' = "ten" /\ package' = package
      /\ mVes' = mVes /\ mSect' = mSect /\ mUnallocVes' = mUnallocVes
      /\ x' = x /\ best' = best /\ bestsol' = bestsol
  BY DEF NoFirstExchange, berthVars, Annealing
<1> QED
  BY <1>1, SolvingFacts, AnnealingFacts, AnnealingKept

LEMMA FirstExchangeInv ==
  ASSUME NEW i \in Vessels, NEW j \in Vessels
  PROVE  BerthIInv /\ FirstExchange(i, j) => BerthIInv'
<1> SUFFICES ASSUME BerthIInv, FirstExchange(i, j)
             PROVE  BerthIInv'
  OBVIOUS
<1>1. /\ Annealing /\ phase' \in {"first", "ten"} /\ package' = package
      /\ mVes' = mVes /\ mSect' = PutBack(i, j) /\ mUnallocVes' = mUnallocVes
      /\ x' = x /\ bestsol' = bestsol /\ x[i] # x[j]
      /\ best' = best \/ (CanExchange(i, j) /\ best' = Exchange(x, i, j))
  BY DEF FirstExchange, Annealing
<1>2. /\ Agree(package, x, Where(mVes))
      /\ Vector(package, x) /\ Vector(package, best) /\ Vector(package, bestsol)
      /\ Good(package) /\ Usable(package) /\ Placed(package, mVes, mSect, mUnallocVes)
  BY <1>1, SolvingFacts, AnnealingFacts
<1>3. mSect' = mSect /\ Vector(package, best')
  BY <1>1, <1>2, ExchangeVector
<1> QED
  BY <1>1, <1>2, <1>3, AnnealingKept

LEMMA DrawInv ==
  ASSUME NEW i \in Vessels, NEW j \in Vessels
  PROVE  BerthIInv /\ Draw(i, j) => BerthIInv'
<1> SUFFICES ASSUME BerthIInv, Draw(i, j)
             PROVE  BerthIInv'
  OBVIOUS
<1>1. /\ Annealing /\ phase' = "ten" /\ package' = package
      /\ mVes' = mVes /\ mUnallocVes' = mUnallocVes
      /\ x' = x /\ bestsol' = bestsol
      /\ \/ x[i] = x[j] /\ mSect' = mSect
         \/ x[i] # x[j] /\ mSect' = PutBack(i, j)
      /\ \/ best' = best
         \/ x[i] # x[j] /\ CanExchange(i, j) /\ best' = Exchange(x, i, j)
  BY DEF Draw, Annealing
<1>2. /\ Agree(package, x, Where(mVes))
      /\ Vector(package, x) /\ Vector(package, best) /\ Vector(package, bestsol)
      /\ Good(package) /\ Usable(package) /\ Placed(package, mVes, mSect, mUnallocVes)
  BY <1>1, SolvingFacts, AnnealingFacts
<1>3. mSect' = mSect /\ Vector(package, best')
  BY <1>1, <1>2, ExchangeVector
<1> QED
  BY <1>1, <1>2, <1>3, AnnealingKept

LEMMA AcceptInv == BerthIInv /\ Accept => BerthIInv'
<1> SUFFICES ASSUME BerthIInv, Accept
             PROVE  BerthIInv'
  OBVIOUS
<1>1. /\ Annealing /\ phase' \in {"first", "cooled"} /\ package' = package
      /\ ConvVectoSol(best) /\ x' = best /\ best' = best
      /\ bestsol' \in {best, bestsol}
  BY DEF Accept, NextTry, Annealing
<1>2. /\ Vector(package, best) /\ Vector(package, bestsol)
      /\ Good(package) /\ Usable(package) /\ Placed(package, mVes, mSect, mUnallocVes)
  BY <1>1, SolvingFacts, AnnealingFacts
<1>3. PICK at : at = best
  OBVIOUS
<1>4. /\ Placed(package, mVes', mSect', mUnallocVes') /\ Agree(package, Where(mVes'), at)
  BY <1>1, <1>2, <1>3, Rebuilt DEF Vector
<1>5. Agree(package, x', Where(mVes'))
  BY <1>1, <1>3, <1>4 DEF Agree
<1> QED
  BY <1>1, <1>2, <1>4, <1>5, AnnealingKept

LEMMA RejectInv == BerthIInv /\ Reject => BerthIInv'
<1> SUFFICES ASSUME BerthIInv, Reject
             PROVE  BerthIInv'
  OBVIOUS
<1>1. /\ Annealing /\ phase' \in {"first", "cooled"} /\ package' = package
      /\ mVes' = mVes /\ mSect' = mSect /\ mUnallocVes' = mUnallocVes
      /\ x' = x /\ bestsol' = bestsol /\ best' = CalcObjValTemp(x)
  BY DEF Reject, NextTry, Annealing, berthVars
<1>2. /\ Agree(package, x, Where(mVes))
      /\ Vector(package, x) /\ Vector(package, bestsol) /\ Copies(package, mVes)
      /\ Good(package) /\ Usable(package) /\ Placed(package, mVes, mSect, mUnallocVes)
  BY <1>1, SolvingFacts, AnnealingFacts
<1>3. Vector(package, best')
  <2>1. PICK v : v = x
    OBVIOUS
  <2> QED
    BY <1>1, <1>2, <2>1, TempVector DEF Vector
<1> QED
  BY <1>1, <1>2, <1>3, AnnealingKept

LEMMA FinishAnnealingInv == BerthIInv /\ FinishAnnealing => BerthIInv'
<1> SUFFICES ASSUME BerthIInv, FinishAnnealing
             PROVE  BerthIInv'
  OBVIOUS
<1>1. Annealing /\ phase' = "solved" /\ package' = package /\ ConvVectoSol(bestsol)
  BY DEF FinishAnnealing, Annealing
<1>2. /\ Vector(package, bestsol)
      /\ Good(package) /\ Usable(package) /\ Placed(package, mVes, mSect, mUnallocVes)
  BY <1>1, SolvingFacts, AnnealingFacts
<1>3. PICK at : at = bestsol
  OBVIOUS
<1>4. Placed(package, mVes', mSect', mUnallocVes')
  BY <1>1, <1>2, <1>3, Rebuilt DEF Vector
<1> QED
  BY <1>1, <1>2, <1>4
     DEF BerthIInv, CopiesInv, WaitingInv, VectorsInv, Solving, Building, Annealing

\* Every step of the solver preserves the invariant.
LEMMA BerthStepInv == BerthIInv /\ [BerthNext]_berthProgramVars => BerthIInv'
<1>1. BerthIInv /\ BerthNext => BerthIInv'
  <2>1. BerthIInv /\ GenSolnSA => BerthIInv'
    BY StartAnnealingInv, NoFirstExchangeInv, AcceptInv, RejectInv, FinishAnnealingInv,
       FirstExchangeInv, DrawInv DEF GenSolnSA
  <2> QED
    BY <2>1, LoadPackageInv, ReadParameterFileInv, DoPartitioningInv, ConstructedInv,
       ReportInv, DoPackingInv, InitSolutionInv, AssignVesselInv, GreedyStepInv
       DEF BerthNext
<1>2. BerthIInv /\ UNCHANGED berthProgramVars => BerthIInv'
  <2> SUFFICES ASSUME BerthIInv, UNCHANGED berthProgramVars
               PROVE  BerthIInv'
    OBVIOUS
  <2>1. /\ package' = package /\ phase' = phase /\ mVes' = mVes /\ mSect' = mSect
        /\ mUnallocVes' = mUnallocVes /\ candidates' = candidates
        /\ x' = x /\ best' = best /\ bestsol' = bestsol
    BY DEF berthProgramVars, partVars, berthVars, annealVars
  <2> QED
    BY <2>1 DEF BerthIInv, CopiesInv, WaitingInv, VectorsInv, Annealing
<1> QED
  BY <1>1, <1>2

\* Whatever partitioner runs, the copies of vessels and sections, the list of
\* vessels that wait and the vectors of the annealing agree with each other and
\* with the package (BAPTVPartitioner.cpp, BAPGREEDYPartitioner.cpp, BAPSAPartitioner.cpp).
THEOREM BerthIInvHolds == Spec => []BerthIInv
BY BerthInitInv, BerthStepInv, PTL DEF Spec

(***************************************************************************)
(* What follows from the invariant.                                        *)
(***************************************************************************)

\* Sums of the same numbers are the same.
LEMMA SolutionsAgree ==
  ASSUME NEW f, NEW S, IsFiniteSet(S), NEW g, NEW h, Solves(g, f, S), Solves(h, f, S)
  PROVE  g[S] = h[S]
<1>1. PICK T : T = S
  OBVIOUS
<1>2. T \in SUBSET S /\ S \in SUBSET T /\ Solves(h, f, T)
  BY <1>1
<1>3. \A s \in SUBSET T : g[s] = h[s]
  BY <1>2, SumsUnique
<1> QED
  BY <1>2, <1>3

\* Equal functions have equal sums.
LEMMA SumSame ==
  ASSUME NEW f, NEW h, NEW S, IsFiniteSet(S), \A b \in S : f[b] = h[b]
  PROVE  SumFunctionOnSet(f, S) = SumFunctionOnSet(h, S)
<1>1. PICK g : Solves(g, f, S) /\ SumFunctionOnSet(f, S) = g[S]
  BY SumSolution
<1>2. PICK e : Solves(e, h, S) /\ SumFunctionOnSet(h, S) = e[S]
  BY SumSolution
<1>3. Solves(g, h, S)
  <2>1. \A s \in SUBSET S : s # {} => f[Pick(s)] = h[Pick(s)]
    BY RestFacts
  <2>2. g = [s \in SUBSET S |-> IF s = {} THEN 0 ELSE f[Pick(s)] + g[Rest(s)]]
    BY <1>1, Zenon DEF Solves, Sums
  <2>3. [s \in SUBSET S |-> IF s = {} THEN 0 ELSE f[Pick(s)] + g[Rest(s)]]
          = [s \in SUBSET S |-> IF s = {} THEN 0 ELSE h[Pick(s)] + g[Rest(s)]]
    BY <2>1, Zenon
  <2> QED
    BY <2>2, <2>3, Zenon DEF Solves, Sums
<1> QED
  BY <1>1, <1>2, <1>3, SolutionsAgree

\* What the invariant says of the sections once vessels have been placed.
SectionOK(p, ves, len, s, k) ==
  /\ s.sound = TRUE
  /\ s.vessels = {i \in DOMAIN ves : ves[i].section = k}
  /\ \A z \in DOMAIN s.capacity :
       s.capacity[z] =
         s.length - SumFunctionOnSet(len, {i \in s.vessels : z \in ves[i].zones})
  /\ \A a \in DOMAIN ves :
       SumFunctionOnSet(len, {i \in s.vessels :
                                /\ p.ves.arrival[i] <= p.ves.arrival[a]
                                /\ p.ves.departure[i] > p.ves.arrival[a]}) <= s.length

\* The lengths of the copies.
Lengths(ves, len) == len = [i \in DOMAIN ves |-> ves[i].length]

\* A section of a solution is never overfull, at no time and not for a moment.
LEMMA SectionFacts ==
  ASSUME NEW p, Good(p), NEW ves, NEW sect, NEW left, Placed(p, ves, sect, left),
         NEW len, Lengths(ves, len),
         NEW k \in DOMAIN sect
  PROVE  SectionOK(p, ves, len, sect[k], k)
<1>1. PICK at : at = Where(ves)
  OBVIOUS
<1>2. /\ Usable(p) /\ Covered(p) /\ Feasible(p, at) /\ sect = Layout(p, at)
      /\ DOMAIN ves = VesselIDs(p)
  BY <1>1 DEF Good, Placed, Copies
<1>3. \A i \in VesselIDs(p) : Copy(p, i, ves[i]) /\ at[i] = ves[i].section
  BY <1>1, <1>2 DEF Placed, Copies, Vessel, Where
<1>4. PICK T : T = HeldAt(p, at, k)
  OBVIOUS
<1>5. k \in SectionIDs(p) /\ sect[k] = Holding(p, k, T)
  <2>1. DOMAIN sect = SectionIDs(p)
    BY <1>2, Zenon DEF Layout
  <2> QED
    BY <1>2, <1>4, <2>1, Zenon DEF Layout
<1>6. T \in SUBSET VesselIDs(p) /\ Fits(p, k, T) /\ T = {i \in DOMAIN ves : ves[i].section = k}
  BY <1>2, <1>3, <1>4, <1>5 DEF HeldAt, Feasible
<1>7. ASSUME NEW S \in SUBSET T
      PROVE  SumFunctionOnSet(len, S) = SumFunctionOnSet(p.ves.length, S)
  <2>1. PICK f : f = p.ves.length
    OBVIOUS
  <2>2. S \in SUBSET VesselIDs(p)
    BY <1>6
  <2>3. IsFiniteSet(S)
    BY <1>2, <2>2, VesselsFinite
  <2>4. \A i \in S : len[i] = f[i]
    BY <1>2, <1>3, <2>1, <2>2 DEF Copy, Lengths
  <2> QED
    BY <2>1, <2>3, <2>4, SumSame
<1>8. PICK s : s = sect[k]
  OBVIOUS
<1>9. /\ s.sound = TRUE /\ s.vessels = T /\ s.length = p.sect.length[k]
      /\ DOMAIN s.capacity = 1..NumTimeZones(p)
      /\ \A z \in 1..NumTimeZones(p) : s.capacity[z] = p.sect.length[k] - Needed(p, T, z)
  BY <1>5, <1>8 DEF Holding
<1>10. ASSUME NEW z
       PROVE  Needed(p, T, z) = SumFunctionOnSet(len, {i \in T : z \in ves[i].zones})
  <2>1. {i \in T : z \in Zones(p, i)} = {i \in T : z \in ves[i].zones}
    BY <1>3, <1>6 DEF Copy
  <2>2. {i \in T : z \in Zones(p, i)} \in SUBSET T
    OBVIOUS
  <2>3. SumFunctionOnSet(len, {i \in T : z \in Zones(p, i)}) = Needed(p, T, z)
    BY <1>7, <2>2, Zenon DEF Needed
  <2> QED
    BY <2>1, <2>3, Zenon
<1>11. ASSUME NEW a \in DOMAIN ves
       PROVE  SumFunctionOnSet(len, {i \in T : /\ p.ves.arrival[i] <= p.ves.arrival[a]
                                               /\ p.ves.departure[i] > p.ves.arrival[a]})
                <= p.sect.length[k]
  <2>1. PICK z \in 1..NumTimeZones(p) : \A i \in VesselIDs(p) :
          p.ves.arrival[i] <= p.ves.arrival[a] /\ p.ves.departure[i] > p.ves.arrival[a]
            => z \in Zones(p, i)
    BY <1>2 DEF Covered
  <2>2. PICK S, U, f, l :
          /\ S = {i \in T : /\ p.ves.arrival[i] <= p.ves.arrival[a]
                            /\ p.ves.departure[i] > p.ves.arrival[a]}
          /\ U = {i \in T : z \in Zones(p, i)}
          /\ f = p.ves.length /\ l = p.sect.length[k]
    OBVIOUS
  <2>3. S \in SUBSET U /\ U \in SUBSET T /\ S \in SUBSET T /\ U \in SUBSET VesselIDs(p)
    BY <1>6, <2>1, <2>2
  <2>4. IsFiniteSet(U) /\ \A i \in U : f[i] \in Nat
    BY <1>2, <2>2, <2>3, VesselsFinite DEF Usable
  <2>5. SumFunctionOnSet(f, S) <= SumFunctionOnSet(f, U)
    BY <2>3, <2>4, SumMonotone
  <2>6. SumFunctionOnSet(f, U) = Needed(p, T, z) /\ Needed(p, T, z) <= l /\ l \in Nat
        /\ Needed(p, T, z) \in Nat
    <3>1. SumFunctionOnSet(f, U) = Needed(p, T, z)
      BY <2>2, Zenon DEF Needed
    <3>2. Needed(p, T, z) <= l /\ l \in Nat
      BY <1>2, <1>5, <1>6, <2>2 DEF Fits, Usable
    <3> QED
      BY <1>2, <1>6, <3>1, <3>2, NeededNat
  <2>7. SumFunctionOnSet(f, S) \in Int
    <3>1. IsFiniteSet(S) /\ \A i \in S : f[i] \in Int
      BY <2>3, <2>4, FS_Subset
    <3> QED
      BY <3>1, SumInt
  <2>8. SumFunctionOnSet(len, S) = SumFunctionOnSet(f, S)
    BY <1>7, <2>2, <2>3
  <2>9. SumFunctionOnSet(len, S) <= l
    BY <2>5, <2>6, <2>7, <2>8
  <2> QED
    BY <2>2, <2>9
<1>12. \A z \in DOMAIN s.capacity :
         s.capacity[z] = s.length - SumFunctionOnSet(len, {i \in s.vessels : z \in ves[i].zones})
  BY <1>9, <1>10, Zenon
<1>13. \A a \in DOMAIN ves :
         SumFunctionOnSet(len, {i \in s.vessels : /\ p.ves.arrival[i] <= p.ves.arrival[a]
                                                  /\ p.ves.departure[i] > p.ves.arrival[a]})
           <= s.length
  BY <1>9, <1>11, Zenon
<1> QED
  BY <1>6, <1>8, <1>9, <1>12, <1>13, Zenon DEF SectionOK

\* The copies of vessels and sections say what BerthInv asks of them.
LEMMA BerthInvFollows == BerthIInv => BerthInv
<1> SUFFICES ASSUME BerthIInv, phase \notin {"start", "init"}
             PROVE  BerthInv
  BY DEF BerthInv, SectionsExact, NeverOverfull
<1>1. \/ Nothing(mVes, mSect, mUnallocVes)
      \/ Good(package) /\ Placed(package, mVes, mSect, mUnallocVes)
  BY DEF BerthIInv, CopiesInv, Solving, Building
<1>2. CASE Nothing(mVes, mSect, mUnallocVes)
  <2>1. DOMAIN mVes = {} /\ DOMAIN mSect = {} /\ mUnallocVes = {}
    BY <1>2 DEF Nothing
  <2> QED
    BY <2>1 DEF BerthInv, SectionsExact, NeverOverfull, Vessels
<1>3. CASE Good(package) /\ Placed(package, mVes, mSect, mUnallocVes)
  <2>1. PICK p, ves, sect, left : /\ p = package /\ ves = mVes /\ sect = mSect
                                  /\ left = mUnallocVes
    OBVIOUS
  <2>2. PICK len : Lengths(ves, len)
    BY DEF Lengths
  <2>3. len = Length
    BY <2>1, <2>2, Zenon DEF Length, Vessels, Lengths
  <2>4. ASSUME NEW k \in DOMAIN mSect
        PROVE  SectionOK(p, ves, len, sect[k], k)
    <3>1. Good(p) /\ Placed(p, ves, sect, left) /\ k \in DOMAIN sect
      BY <1>3, <2>1
    <3> QED
      BY <2>2, <3>1, SectionFacts
  <2>5. mUnallocVes = {i \in Vessels : mVes[i].section = UNASSIGNED}
    BY <1>3 DEF Placed, Copies, HeldAt, Where, Vessels
  <2>6. SectionsExact
    <3>1. ASSUME NEW k \in DOMAIN mSect
          PROVE  /\ mSect[k].sound
                 /\ mSect[k].vessels = {i \in Vessels : mVes[i].section = k}
                 /\ \A z \in DOMAIN mSect[k].capacity :
                      mSect[k].capacity[z] =
                        mSect[k].length
                          - SumFunctionOnSet(Length,
                                             {i \in mSect[k].vessels : z \in mVes[i].zones})
      <4>1. SectionOK(package, mVes, Length, mSect[k], k)
        BY <2>1, <2>3, <2>4
      <4> QED
        BY <4>1 DEF Vessels, SectionOK
    <3> QED
      BY <2>5, <3>1, Zenon DEF SectionsExact
  <2>7. NeverOverfull
    BY <2>1, <2>3, <2>4, Zenon DEF NeverOverfull, Vessels, SectionOK
  <2> QED
    BY <2>6, <2>7 DEF BerthInv
<1> QED
  BY <1>1, <1>2, <1>3

\* Every vessel is in the section that it records and in no other, the capacity
\* of a section is what its vessels leave in each time zone, the berthed vessels
\* never exceed a section at any moment, and no assert() of the partitioners
\* fails: for every complete dataset and every choice of the partitioners.
THEOREM BerthInvHolds == Spec => []BerthInv
BY BerthIInvHolds, BerthInvFollows, PTL

\* The number at 0 of a vector.
LEMMA VectorNat ==
  ASSUME NEW p, Good(p), NEW v, Vector(p, v)
  PROVE  v[0] \in Nat
BY CostNat DEF Vector

\* The best solution of the annealing never gets worse in a step ...
LEMMA BestKept ==
  BerthIInv /\ Annealing /\ BerthNext => bestsol'[0] <= bestsol[0]
<1> SUFFICES ASSUME BerthIInv, Annealing, BerthNext
             PROVE  bestsol'[0] <= bestsol[0]
  OBVIOUS
<1>1. bestsol[0] \in Nat
  <2>1. PICK p, v : p = package /\ v = bestsol
    OBVIOUS
  <2> QED
    BY <2>1, SolvingFacts, AnnealingFacts, VectorNat
<1>2. phase \in {"first", "ten", "cooled"}
  BY DEF Annealing
<1>3. bestsol' = bestsol \/ (bestsol' = best /\ best[0] < bestsol[0])
  <2>1. GenSolnSA
    BY <1>2 DEF BerthNext, LoadPackage, ReadParameterFile, DoPartitioning, Constructed,
                Report, DoPacking, InitSolution, AssignVesselToRandomSection, GreedyStep
  <2>2. CASE Accept
    BY <2>2 DEF Accept
  <2>3. CASE ~Accept
    BY <1>2, <2>1, <2>3 DEF GenSolnSA, StartAnnealing, NoFirstExchange, Reject,
                            FinishAnnealing, FirstExchange, Draw, annealVars
  <2> QED
    BY <2>2, <2>3
<1>4. best[0] \in Nat
  <2>1. PICK p, v : p = package /\ v = best
    OBVIOUS
  <2> QED
    BY <2>1, SolvingFacts, AnnealingFacts, VectorNat
<1> QED
  BY <1>1, <1>3, <1>4

\* The cost of the next state, as CalcObjVal() computes it.
LEMMA CostBridgeNext ==
  ASSUME NEW at
  PROVE  (Copies(package, mVes) => CalcObjVal(at) = ValueOf(package, at))'
<1>1. Copies(package, mVes) => CalcObjVal(at) = ValueOf(package, at)
  BY CostBridge
<1> QED
  BY <1>1, PTL

\* ... and is the one that is reported when it ends.
LEMMA BestReported ==
  BerthIInv /\ phase = "cooled" /\ BerthNext => CalcObjVal(Sections)' = bestsol[0]
<1> SUFFICES ASSUME BerthIInv, phase = "cooled", BerthNext
             PROVE  CalcObjVal(Sections)' = bestsol[0]
  OBVIOUS
<1>1. FinishAnnealing
  BY DEF BerthNext, LoadPackage, ReadParameterFile, DoPartitioning, Constructed,
         Report, DoPacking, InitSolution, AssignVesselToRandomSection, GreedyStep,
         GenSolnSA, StartAnnealing, NoFirstExchange, Reject, Accept, FirstExchange, Draw
<1>2. /\ phase \in Solving /\ Annealing /\ phase' \in Solving /\ package' = package
      /\ ConvVectoSol(bestsol)
  BY <1>1 DEF FinishAnnealing, Solving, Annealing
<1>3. Vector(package, bestsol) /\ Usable(package) /\ Placed(package, mVes, mSect, mUnallocVes)
  BY <1>2, SolvingFacts, AnnealingFacts
<1>4. PICK p, at, bt : p = package /\ at = bestsol /\ bt = Where(mVes')
  OBVIOUS
<1>5. Placed(package, mVes', mSect', mUnallocVes') /\ Agree(package, Where(mVes'), at)
  BY <1>2, <1>3, <1>4, Rebuilt DEF Vector
<1>6. Copies(package', mVes') /\ Sections' = bt
  <2>1. Copies(package', mVes')
    BY <1>2, <1>5 DEF Placed
  <2>2. Sections' = Where(mVes')
    BY DEF Sections, Vessels, Where
  <2> QED
    BY <1>4, <2>1, <2>2
<1>7. (Copies(package, mVes) => CalcObjVal(bt) = ValueOf(package, bt))'
  BY CostBridgeNext
<1>8. CalcObjVal(bt)' = ValueOf(p, bt)
  BY <1>2, <1>4, <1>6, <1>7
<1>9. ValueOf(p, bt) = ValueOf(p, at)
  BY <1>4, <1>5, AgreeCosts
<1>10. at[0] = ValueOf(p, at)
  BY <1>3, <1>4 DEF Vector
<1>11. CalcObjVal(Sections)' = CalcObjVal(bt)'
  BY <1>6, Zenon DEF CalcObjVal, ComputeObjVal
<1> QED
  BY <1>4, <1>8, <1>9, <1>10, <1>11

\* Annealing (GenSolnSA): the best solution found so far never gets worse, and
\* the one the search ends with costs what it was recorded with.
THEOREM BestOnlyImprovesHolds == Spec => BestOnlyImproves
<1>1. BerthIInv /\ [BerthNext]_berthProgramVars
        => [/\ Annealing => bestsol'[0] <= bestsol[0]
            /\ phase = "cooled" => CalcObjVal(Sections)' = bestsol[0]]_berthProgramVars
  BY BestKept, BestReported
<1> QED
  BY <1>1, BerthIInvHolds, PTL DEF Spec, BestOnlyImproves

\* The three vectors of the annealing (ConvSoltoVec, CalcObjValTemp) always carry
\* the cost computed from their sections, and the current one is the solution
\* that the working copies hold.
THEOREM AnnealingVectors == Spec => []VectorsAgree
<1>1. BerthIInv => VectorsAgree
  <2> SUFFICES ASSUME BerthIInv, Annealing
               PROVE  /\ \A i \in Vessels : x[i] = mVes[i].section
                      /\ \A v \in {x, best, bestsol} : v = CalcObjValTemp(v)
    BY DEF VectorsAgree
  <2>1. /\ Agree(package, x, Where(mVes)) /\ Vessels = VesselIDs(package)
        /\ Copies(package, mVes)
        /\ Vector(package, x) /\ Vector(package, best) /\ Vector(package, bestsol)
    BY AnnealingFacts, SolvingFacts
  <2>2. \A i \in Vessels : x[i] = mVes[i].section
    BY <2>1 DEF Agree, Where, Vessels
  <2>3. ASSUME NEW v, Vector(package, v)
        PROVE  v = CalcObjValTemp(v)
    <3>1. CalcObjVal(v) = ValueOf(package, v)
      BY <2>1, CostBridge
    <3>2. v[0] = CalcObjVal(v)
      BY <2>3, <3>1 DEF Vector
    <3>3. PICK c, w : c = CalcObjVal(v) /\ w = CalcObjValTemp(v)
      OBVIOUS
    <3>4. w = [v EXCEPT ![0] = c]
      BY <3>3, Zenon DEF CalcObjValTemp
    <3>5. v[0] = c
      BY <3>2, <3>3
    <3>6. v = [i \in DOMAIN v |-> v[i]]
      BY <2>3 DEF Vector, IsFunction
    <3>7. w = v
      BY <3>4, <3>5, <3>6
    <3> QED
      BY <3>3, <3>7
  <2> QED
    BY <2>1, <2>2, <2>3
<1> QED
  BY <1>1, BerthIInvHolds, PTL

\* Sets grow by one element at a time: a family that has {} and has a set
\* whenever it has the rest of it has all the subsets of a finite set.
LEMMA ByRest ==
  ASSUME NEW S, IsFiniteSet(S), NEW Q, {} \in Q,
         \A s \in SUBSET S : s # {} /\ Rest(s) \in Q => s \in Q
  PROVE  \A s \in SUBSET S : s \in Q
<1> DEFINE B == {n \in Nat : \A s \in SUBSET S : Cardinality(s) = n => s \in Q}
<1>1. ASSUME NEW n \in Nat, \A m \in Nat : m < n => m \in B
      PROVE  n \in B
  <2> SUFFICES ASSUME NEW s \in SUBSET S, Cardinality(s) = n
               PROVE  s \in Q
    OBVIOUS
  <2>1. CASE s = {}
    BY <2>1
  <2>2. CASE s # {}
    <3>1. PICK r : r = Rest(s)
      OBVIOUS
    <3>2. r \in SUBSET S /\ Cardinality(r) \in Nat /\ Cardinality(r) < n
      <4>1. Cardinality(r) = Cardinality(s) - 1 /\ r \in SUBSET S
        BY <2>2, <3>1, RestFacts
      <4>2. Cardinality(r) \in Nat
        BY <4>1, RestFacts
      <4> QED
        BY <4>1, <4>2
    <3>3. Cardinality(r) \in B
      BY <1>1, <3>2
    <3>4. r \in Q
      BY <3>2, <3>3
    <3> QED
      BY <2>2, <3>1, <3>4
  <2> QED
    BY <2>1, <2>2
<1>2. \A n \in Nat : n \in B
  <2> HIDE DEF B
  <2>1. B \in SUBSET Nat
    BY DEF B
  <2> QED
    BY <1>1, <2>1, Induction
<1> SUFFICES ASSUME NEW s \in SUBSET S
             PROVE  s \in Q
  OBVIOUS
<1>3. Cardinality(s) \in Nat
  BY RestFacts
<1> QED
  BY <1>2, <1>3

\* The sum of f and a rest, with an element taken out.
LEMMA SumStep ==
  ASSUME NEW f, NEW S, IsFiniteSet(S), \A b \in S : f[b] \in Int, NEW s \in SUBSET S, s # {}
  PROVE  /\ SumFunctionOnSet(f, s) = f[Pick(s)] + SumFunctionOnSet(f, Rest(s))
         /\ SumFunctionOnSet(f, s) \in Int /\ SumFunctionOnSet(f, Rest(s)) \in Int
         /\ Pick(s) \in S /\ f[Pick(s)] \in Int
<1>1. PICK r : r = Rest(s)
  OBVIOUS
<1>2. IsFiniteSet(s) /\ Pick(s) \in s /\ r \in SUBSET S
  BY <1>1, RestFacts
<1>3. IsFiniteSet(r)
  BY <1>2, RestFacts
<1>4. SumFunctionOnSet(f, s) \in Int /\ SumFunctionOnSet(f, r) \in Int
  BY <1>2, <1>3, SumInt
<1>5. SumFunctionOnSet(f, s) = f[Pick(s)] + SumFunctionOnSet(f, Rest(s))
  BY <1>2, SumRest
<1> QED
  BY <1>1, <1>2, <1>4, <1>5

\* The sum of two functions is that of their sums.
LEMMA SumAdd ==
  ASSUME NEW f, NEW g, NEW h, NEW S, IsFiniteSet(S),
         \A b \in S : f[b] \in Int /\ g[b] \in Int /\ h[b] = f[b] + g[b]
  PROVE  SumFunctionOnSet(h, S) = SumFunctionOnSet(f, S) + SumFunctionOnSet(g, S)
<1> DEFINE Q == {s \in SUBSET S : SumFunctionOnSet(h, s) = SumFunctionOnSet(f, s) + SumFunctionOnSet(g, s)}
<1>1. {} \in Q
  BY SumEmpty
<1>2. ASSUME NEW s \in SUBSET S, s # {}, Rest(s) \in Q
      PROVE  s \in Q
  <2>1. /\ SumFunctionOnSet(f, s) = f[Pick(s)] + SumFunctionOnSet(f, Rest(s))
        /\ SumFunctionOnSet(f, Rest(s)) \in Int /\ f[Pick(s)] \in Int /\ Pick(s) \in S
    BY <1>2, SumStep
  <2>2. /\ SumFunctionOnSet(g, s) = g[Pick(s)] + SumFunctionOnSet(g, Rest(s))
        /\ SumFunctionOnSet(g, Rest(s)) \in Int /\ g[Pick(s)] \in Int
    BY <1>2, SumStep
  <2>3. \A b \in S : h[b] \in Int
    OBVIOUS
  <2>4. SumFunctionOnSet(h, s) = h[Pick(s)] + SumFunctionOnSet(h, Rest(s))
    BY <1>2, <2>3, SumStep
  <2>5. SumFunctionOnSet(h, Rest(s)) = SumFunctionOnSet(f, Rest(s)) + SumFunctionOnSet(g, Rest(s))
    BY <1>2
  <2>6. h[Pick(s)] = f[Pick(s)] + g[Pick(s)]
    BY <2>1
  <2>7. PICK a, b, c, d : /\ a = f[Pick(s)] /\ b = g[Pick(s)]
                          /\ c = SumFunctionOnSet(f, Rest(s)) /\ d = SumFunctionOnSet(g, Rest(s))
    OBVIOUS
  <2>8. SumFunctionOnSet(h, s) = (a + c) + (b + d)
    <3>1. SumFunctionOnSet(h, s) = (a + b) + (c + d)
      BY <2>4, <2>5, <2>6, <2>7
    <3>2. a \in Int /\ b \in Int /\ c \in Int /\ d \in Int
      BY <2>1, <2>2, <2>7
    <3> QED
      BY <3>1, <3>2
  <2>9. SumFunctionOnSet(f, s) = a + c /\ SumFunctionOnSet(g, s) = b + d
    BY <2>1, <2>2, <2>7
  <2> QED
    BY <2>8, <2>9
<1> HIDE DEF Q
<1>3. \A s \in SUBSET S : s \in Q
  BY <1>1, <1>2, ByRest
<1> QED
  BY <1>3 DEF Q

\* Elements whose number is 0 may be left out.
LEMMA SumWithin ==
  ASSUME NEW f, NEW S, IsFiniteSet(S), \A b \in S : f[b] \in Int,
         NEW T \in SUBSET S, \A b \in S \ T : f[b] = 0
  PROVE  SumFunctionOnSet(f, T) = SumFunctionOnSet(f, S)
<1> DEFINE Q == {s \in SUBSET S : SumFunctionOnSet(f, s \cap T) = SumFunctionOnSet(f, s)}
<1>1. {} \in Q
  <2>1. {} \cap T = {}
    OBVIOUS
  <2> QED
    BY <2>1
<1>2. ASSUME NEW s \in SUBSET S, s # {}, Rest(s) \in Q
      PROVE  s \in Q
  <2>1. /\ SumFunctionOnSet(f, s) = f[Pick(s)] + SumFunctionOnSet(f, Rest(s))
        /\ SumFunctionOnSet(f, Rest(s)) \in Int /\ f[Pick(s)] \in Int /\ Pick(s) \in S
    BY <1>2, SumStep
  <2>2. PICK a, r, u, v : a = Pick(s) /\ r = Rest(s) /\ u = s \cap T /\ v = r \cap T
    OBVIOUS
  <2>3. a \in s /\ r = s \ {a}
    BY <1>2, <2>2, RestFacts DEF Rest
  <2>4. SumFunctionOnSet(f, v) = SumFunctionOnSet(f, r)
    BY <1>2, <2>2
  <2>5. SumFunctionOnSet(f, u) = SumFunctionOnSet(f, s)
    <3>1. CASE a \in T
      <4>1. a \in u /\ v = u \ {a} /\ IsFiniteSet(u) /\ u \in SUBSET S
        <5>1. IsFiniteSet(u)
          BY <2>2, FS_Subset
        <5> QED
          BY <2>2, <2>3, <3>1, <5>1
      <4>2. SumFunctionOnSet(f, u) = f[a] + SumFunctionOnSet(f, v)
        BY <4>1, SumRemove
      <4> QED
        BY <2>1, <2>2, <2>4, <4>2, Zenon
    <3>2. CASE a \notin T
      <4>1. v = u
        BY <2>2, <2>3, <3>2
      <4>2. f[a] = 0
        BY <2>1, <2>2, <3>2
      <4>3. SumFunctionOnSet(f, s) = f[a] + SumFunctionOnSet(f, r)
        BY <2>1, <2>2
      <4>4. PICK m : m = SumFunctionOnSet(f, r)
        OBVIOUS
      <4>5. m \in Int
        BY <2>1, <2>2, <4>4
      <4>6. SumFunctionOnSet(f, s) = m
        BY <4>2, <4>3, <4>4, <4>5
      <4> QED
        BY <2>4, <4>1, <4>4, <4>6, Zenon
    <3> QED
      BY <3>1, <3>2
  <2> QED
    BY <2>2, <2>5
<1> HIDE DEF Q
<1>3. S \in Q
  BY <1>1, <1>2, ByRest
<1>4. S \cap T = T
  OBVIOUS
<1> QED
  BY <1>3, <1>4 DEF Q

\* f is a number for each of S; h is the sum of f and g there.
IntsOn(f, S) == IsFiniteSet(S) /\ \A b \in S : f[b] \in Int
AddsUp(f, g, h, S) ==
  IsFiniteSet(S) /\ \A b \in S : f[b] \in Int /\ g[b] \in Int /\ h[b] = f[b] + g[b]

\* The lemmas on sums, for these.
LEMMA SumAdds ==
  \A f, g, h, S : AddsUp(f, g, h, S)
    => SumFunctionOnSet(h, S) = SumFunctionOnSet(f, S) + SumFunctionOnSet(g, S)
<1> SUFFICES ASSUME NEW f, NEW g, NEW h, NEW S, AddsUp(f, g, h, S)
             PROVE  SumFunctionOnSet(h, S) = SumFunctionOnSet(f, S) + SumFunctionOnSet(g, S)
  OBVIOUS
<1> QED
  BY SumAdd DEF AddsUp

LEMMA SumRemoves ==
  \A f, S : IntsOn(f, S)
    => /\ SumFunctionOnSet(f, S) \in Int
       /\ \A a \in S : SumFunctionOnSet(f, S) = f[a] + SumFunctionOnSet(f, S \ {a})
<1> SUFFICES ASSUME NEW f, NEW S, IntsOn(f, S)
             PROVE  /\ SumFunctionOnSet(f, S) \in Int
                    /\ \A a \in S : SumFunctionOnSet(f, S) = f[a] + SumFunctionOnSet(f, S \ {a})
  OBVIOUS
<1> QED
  BY SumAnyOrder DEF IntsOn

\* What w says of i and each of S, and what it says of the pairs of S.
Against(w, V, S, i) == SumFunctionOnSet([j \in V |-> w[<<i, j>>]], S)
Once(w, V) == [ij \in V \X V |-> IF ij[2] > ij[1] THEN w[ij] ELSE 0]
Pairs(w, V, S) == SumFunctionOnSet([i \in V |-> Against(Once(w, V), V, S, i)], S)

Symmetric(w, V) ==
  \A i, j \in V : w[<<i, j>>] \in Int /\ w[<<j, i>>] = w[<<i, j>>]

\* w is a number for each pair.
IntPairs(w, V) == IsFiniteSet(V) /\ \A i, j \in V : w[<<i, j>>] \in Int

Splits(w, V, S, i) ==
  /\ Against(w, V, S, i) \in Int
  /\ \A a \in S : Against(w, V, S, i) = w[<<i, a>>] + Against(w, V, S \ {a}, i)

LEMMA AgainstSplits ==
  \A w, V : IntPairs(w, V) => \A i \in V : \A S \in SUBSET V : Splits(w, V, S, i)
<1> SUFFICES ASSUME NEW w, NEW V, IntPairs(w, V), NEW i \in V, NEW S \in SUBSET V
             PROVE  Splits(w, V, S, i)
  OBVIOUS
<1> DEFINE f == [j \in V |-> w[<<i, j>>]]
<1>1. IsFiniteSet(S) /\ \A b \in S : f[b] \in Int
  BY FS_Subset DEF IntPairs
<1>2. \A a \in S : f[a] = w[<<i, a>>]
  OBVIOUS
<1> HIDE DEF f
<1>3. SumFunctionOnSet(f, S) \in Int
  BY <1>1, SumInt
<1>4. \A a \in S : SumFunctionOnSet(f, S) = f[a] + SumFunctionOnSet(f, S \ {a})
  BY <1>1, SumRemove
<1> QED
  BY <1>2, <1>3, <1>4, Zenon DEF Splits, Against, f

LEMMA OnceInt ==
  ASSUME NEW V \in SUBSET Int, NEW w, \A i, j \in V : w[<<i, j>>] \in Int
  PROVE  \A i, j \in V : /\ Once(w, V)[<<i, j>>] \in Int
                         /\ Once(w, V)[<<i, j>>] = IF j > i THEN w[<<i, j>>] ELSE 0
<1> SUFFICES ASSUME NEW i \in V, NEW j \in V
             PROVE  /\ Once(w, V)[<<i, j>>] \in Int
                    /\ Once(w, V)[<<i, j>>] = IF j > i THEN w[<<i, j>>] ELSE 0
  OBVIOUS
<1>1. <<i, j>> \in V \X V /\ <<i, j>>[1] = i /\ <<i, j>>[2] = j
  OBVIOUS
<1>2. Once(w, V)[<<i, j>>] = IF j > i THEN w[<<i, j>>] ELSE 0
  BY <1>1 DEF Once
<1> QED
  BY <1>2

\* One element taken out of a sum over pairs.
LEMMA PairsRemove ==
  ASSUME NEW V \in SUBSET Int, IsFiniteSet(V), NEW w, Symmetric(w, V),
         NEW S \in SUBSET V, NEW a \in S
  PROVE  /\ Pairs(w, V, S) = Against(w, V, S \ {a}, a) + Pairs(w, V, S \ {a})
         /\ Pairs(w, V, S) \in Int
<1>1. PICK R, m : R = S \ {a} /\ m = Once(w, V)
  OBVIOUS
<1>2. /\ R \in SUBSET V /\ a \in V /\ IsFiniteSet(S) /\ IsFiniteSet(R) /\ R \in SUBSET S
      /\ a \in S /\ R = S \ {a}
  BY <1>1, FS_Subset
<1>3. /\ \A i, j \in V : w[<<i, j>>] \in Int /\ w[<<j, i>>] = w[<<i, j>>]
      /\ \A i, j \in V : m[<<i, j>>] \in Int /\ m[<<i, j>>] = IF j > i THEN w[<<i, j>>] ELSE 0
  <2>1. \A i, j \in V : w[<<i, j>>] \in Int
    BY DEF Symmetric
  <2>2. \A i, j \in V : /\ Once(w, V)[<<i, j>>] \in Int
                        /\ Once(w, V)[<<i, j>>] = IF j > i THEN w[<<i, j>>] ELSE 0
    BY <2>1, OnceInt
  <2> QED
    BY <1>1, <2>2 DEF Symmetric
<1>4. PICK g, h, e, d, u :
        /\ g = [i \in V |-> Against(m, V, S, i)]
        /\ h = [i \in V |-> Against(m, V, R, i)]
        /\ e = [i \in V |-> m[<<i, a>>]]
        /\ d = [i \in V |-> m[<<a, i>>]]
        /\ u = [i \in V |-> w[<<a, i>>]]
  OBVIOUS
<1>5. \A i \in V : /\ g[i] = Against(m, V, S, i) /\ h[i] = Against(m, V, R, i)
                   /\ g[i] \in Int /\ h[i] \in Int
                   /\ e[i] = m[<<i, a>>] /\ e[i] \in Int
                   /\ d[i] = m[<<a, i>>] /\ d[i] \in Int
                   /\ u[i] = w[<<a, i>>] /\ u[i] \in Int
                   /\ g[i] = e[i] + h[i]
  <2> SUFFICES ASSUME NEW i \in V
               PROVE  /\ g[i] = Against(m, V, S, i) /\ h[i] = Against(m, V, R, i)
                      /\ g[i] \in Int /\ h[i] \in Int
                      /\ e[i] = m[<<i, a>>] /\ e[i] \in Int
                      /\ d[i] = m[<<a, i>>] /\ d[i] \in Int
                      /\ u[i] = w[<<a, i>>] /\ u[i] \in Int
                      /\ g[i] = e[i] + h[i]
    OBVIOUS
  <2>1. /\ g[i] = Against(m, V, S, i) /\ h[i] = Against(m, V, R, i)
        /\ e[i] = m[<<i, a>>] /\ d[i] = m[<<a, i>>] /\ u[i] = w[<<a, i>>]
    BY <1>4, Zenon
  <2>2. IntPairs(m, V)
    BY <1>3 DEF IntPairs
  <2>3. Splits(m, V, R, i) /\ Splits(m, V, S, i)
    BY <1>2, <2>2, AgainstSplits
  <2>4. /\ Against(m, V, R, i) \in Int /\ Against(m, V, S, i) \in Int
        /\ Against(m, V, S, i) = m[<<i, a>>] + Against(m, V, R, i)
    BY <1>2, <2>3 DEF Splits
  <2> QED
    BY <1>2, <1>3, <2>1, <2>4
<1>6. Pairs(w, V, S) = SumFunctionOnSet(g, S) /\ Pairs(w, V, R) = SumFunctionOnSet(h, R)
  BY <1>1, <1>4, Zenon DEF Pairs
<1>7. SumFunctionOnSet(g, S) = g[a] + SumFunctionOnSet(g, R)
  <2>1. IntsOn(g, S)
    BY <1>2, <1>5 DEF IntsOn
  <2>2. \A b \in S : SumFunctionOnSet(g, S) = g[b] + SumFunctionOnSet(g, S \ {b})
    BY <2>1, SumRemoves
  <2> QED
    BY <1>2, <2>2
<1>8. SumFunctionOnSet(g, R) = SumFunctionOnSet(e, R) + SumFunctionOnSet(h, R)
  <2>1. AddsUp(e, h, g, R)
    BY <1>2, <1>5 DEF AddsUp
  <2> QED
    BY <2>1, SumAdds
<1>9. SumFunctionOnSet(u, R) = SumFunctionOnSet(e, R) + SumFunctionOnSet(d, R)
  <2>1. ASSUME NEW b \in R
        PROVE  e[b] \in Int /\ d[b] \in Int /\ u[b] = e[b] + d[b]
    <3>1. b \in V /\ b # a /\ a \in Int /\ b \in Int
      BY <1>2
    <3>2. /\ m[<<b, a>>] = (IF a > b THEN w[<<b, a>>] ELSE 0)
          /\ m[<<a, b>>] = (IF b > a THEN w[<<a, b>>] ELSE 0)
          /\ w[<<b, a>>] = w[<<a, b>>] /\ w[<<a, b>>] \in Int
      BY <1>2, <1>3, <3>1
    <3>3. u[b] = m[<<b, a>>] + m[<<a, b>>]
      <4>1. CASE a > b
        BY <1>5, <3>1, <3>2, <4>1
      <4>2. CASE b > a
        BY <1>5, <3>1, <3>2, <4>2
      <4> QED
        BY <3>1, <4>1, <4>2
    <3> QED
      BY <1>5, <3>1, <3>3
  <2>2. AddsUp(e, d, u, R)
    BY <1>2, <2>1 DEF AddsUp
  <2> QED
    BY <2>2, SumAdds
<1>10. g[a] = SumFunctionOnSet(d, R)
  <2>1. g[a] = e[a] + h[a] /\ e[a] = m[<<a, a>>]
    BY <1>2, <1>5
  <2>2. m[<<a, a>>] = 0
    BY <1>2, <1>3
  <2>3. h[a] = SumFunctionOnSet(d, R)
    BY <1>2, <1>4, <1>5, Zenon DEF Against
  <2>4. h[a] \in Int
    BY <1>2, <1>5
  <2> QED
    BY <2>1, <2>2, <2>3, <2>4
<1>11. Against(w, V, R, a) = SumFunctionOnSet(u, R)
  BY <1>4, Zenon DEF Against
<1>12. /\ SumFunctionOnSet(e, R) \in Int /\ SumFunctionOnSet(d, R) \in Int
       /\ SumFunctionOnSet(h, R) \in Int
  <2>1. IntsOn(e, R) /\ IntsOn(d, R) /\ IntsOn(h, R)
    BY <1>2, <1>5 DEF IntsOn
  <2> QED
    BY <2>1, SumRemoves
<1>13. PICK ga, sg, se, sd, sh, su :
         /\ ga = g[a] /\ sg = SumFunctionOnSet(g, R) /\ se = SumFunctionOnSet(e, R)
         /\ sd = SumFunctionOnSet(d, R) /\ sh = SumFunctionOnSet(h, R) /\ su = SumFunctionOnSet(u, R)
  OBVIOUS
<1>14. /\ Pairs(w, V, S) = ga + sg /\ sg = se + sh /\ su = se + sd /\ ga = sd
       /\ Pairs(w, V, R) = sh /\ Against(w, V, R, a) = su
  BY <1>6, <1>7, <1>8, <1>9, <1>10, <1>11, <1>13, Zenon
<1>15. se \in Int /\ sd \in Int /\ sh \in Int
  BY <1>12, <1>13
<1>16. ga + sg = su + sh /\ ga + sg \in Int
  BY <1>14, <1>15
<1> QED
  BY <1>1, <1>14, <1>16

\* Equal numbers have equal sums, once and for pairs.
SameOn(f, g, S) == IsFiniteSet(S) /\ \A b \in S : f[b] = g[b]

LEMMA SumsSame ==
  \A f, g, S : SameOn(f, g, S) => SumFunctionOnSet(f, S) = SumFunctionOnSet(g, S)
<1> SUFFICES ASSUME NEW f, NEW g, NEW S, SameOn(f, g, S)
             PROVE  SumFunctionOnSet(f, S) = SumFunctionOnSet(g, S)
  OBVIOUS
<1> QED
  BY SumSame DEF SameOn

LEMMA PairsSame ==
  ASSUME NEW V \in SUBSET Int, IsFiniteSet(V), NEW S \in SUBSET V, NEW w, NEW u,
         \A i, j \in V : w[<<i, j>>] \in Int /\ u[<<i, j>>] \in Int,
         \A i, j \in S : w[<<i, j>>] = u[<<i, j>>]
  PROVE  Pairs(w, V, S) = Pairs(u, V, S)
<1>1. PICK m, n : m = Once(w, V) /\ n = Once(u, V)
  OBVIOUS
<1>2. \A i, j \in S : m[<<i, j>>] = n[<<i, j>>]
  <2>1. \A i, j \in V : m[<<i, j>>] = IF j > i THEN w[<<i, j>>] ELSE 0
    BY <1>1, OnceInt
  <2>2. \A i, j \in V : n[<<i, j>>] = IF j > i THEN u[<<i, j>>] ELSE 0
    BY <1>1, OnceInt
  <2> QED
    BY <2>1, <2>2
<1>3. IsFiniteSet(S)
  BY FS_Subset
<1>4. ASSUME NEW i \in S
      PROVE  Against(m, V, S, i) = Against(n, V, S, i)
  <2>1. PICK f, g : f = [j \in V |-> m[<<i, j>>]] /\ g = [j \in V |-> n[<<i, j>>]]
    OBVIOUS
  <2>2. \A j \in S : f[j] = g[j]
    BY <1>2, <2>1
  <2>3. SameOn(f, g, S)
    BY <1>3, <2>2 DEF SameOn
  <2>4. SumFunctionOnSet(f, S) = SumFunctionOnSet(g, S)
    BY <2>3, SumsSame
  <2> QED
    BY <2>1, <2>4, Zenon DEF Against
<1>5. PICK f, g : f = [i \in V |-> Against(m, V, S, i)] /\ g = [i \in V |-> Against(n, V, S, i)]
  OBVIOUS
<1>6. \A i \in S : f[i] = g[i]
  BY <1>4, <1>5
<1>7. SameOn(f, g, S)
  BY <1>3, <1>6 DEF SameOn
<1>8. SumFunctionOnSet(f, S) = SumFunctionOnSet(g, S)
  BY <1>7, SumsSame
<1> QED
  BY <1>1, <1>5, <1>8, Zenon DEF Pairs

\* A sum over pairs, and two elements taken out.
SplitsTwo(w, V, T, i, j) ==
  /\ Pairs(w, V, V) = w[<<i, j>>] + Against(w, V, T, i) + (Against(w, V, T, j) + Pairs(w, V, T))
  /\ Against(w, V, T, i) \in Int /\ Against(w, V, T, j) \in Int /\ Pairs(w, V, T) \in Int

LEMMA PairsRemoveTwo ==
  ASSUME NEW V \in SUBSET Int, IsFiniteSet(V), NEW w, Symmetric(w, V),
         NEW i \in V, NEW j \in V, i # j
  PROVE  SplitsTwo(w, V, V \ {i, j}, i, j)
<1>1. PICK R, T : R = V \ {i} /\ T = V \ {i, j}
  OBVIOUS
<1>2. /\ R = V \ {i} /\ T = R \ {j} /\ i \in V /\ j \in R /\ i # j
      /\ V \in SUBSET V /\ R \in SUBSET V /\ T \in SUBSET V
  BY <1>1
<1>3. IntPairs(w, V) /\ w[<<i, j>>] \in Int
  BY DEF IntPairs, Symmetric
<1>4. Pairs(w, V, V) = Against(w, V, R, i) + Pairs(w, V, R)
  <2>1. V \in SUBSET V /\ i \in V
    OBVIOUS
  <2> QED
    BY <1>1, <2>1, PairsRemove
<1>5. Pairs(w, V, R) = Against(w, V, T, j) + Pairs(w, V, T)
  <2>1. R \in SUBSET V /\ j \in R
    BY <1>2
  <2>2. /\ Pairs(w, V, R) = Against(w, V, R \ {j}, j) + Pairs(w, V, R \ {j})
        /\ Pairs(w, V, R) \in Int
    BY <2>1, PairsRemove
  <2> QED
    BY <1>2, <2>2
<1>6. Splits(w, V, R, i) /\ Splits(w, V, T, i) /\ Splits(w, V, T, j)
  BY <1>2, <1>3, AgainstSplits
<1>7. /\ Against(w, V, R, i) = w[<<i, j>>] + Against(w, V, T, i)
      /\ Against(w, V, T, i) \in Int /\ Against(w, V, T, j) \in Int
  BY <1>2, <1>6 DEF Splits
<1>8. Pairs(w, V, T) \in Int
  <2>1. CASE T = {}
    BY <2>1, SumEmpty DEF Pairs
  <2>2. CASE T # {}
    <3>1. PICK c : c \in T
      BY <2>2
    <3> QED
      BY <1>2, <3>1, PairsRemove
  <2> QED
    BY <2>1, <2>2
<1>9. PICK a, b, c, d : /\ a = w[<<i, j>>] /\ b = Against(w, V, T, i)
                        /\ c = Against(w, V, T, j) /\ d = Pairs(w, V, T)
  OBVIOUS
<1>10. Pairs(w, V, V) = (a + b) + (c + d)
  BY <1>4, <1>5, <1>7, <1>9, Zenon
<1>11. SplitsTwo(w, V, T, i, j)
  BY <1>7, <1>8, <1>9, <1>10 DEF SplitsTwo
<1> QED
  BY <1>1, <1>11

\* u gives more than w for i and j, d and e more, and the same for all others.
Exchanged(w, u, V, i, j, d, e) ==
  /\ Symmetric(w, V) /\ Symmetric(u, V) /\ i \in V /\ j \in V /\ i # j
  /\ u[<<i, j>>] = w[<<i, j>>]
  /\ \A a, b \in V \ {i, j} : w[<<a, b>>] = u[<<a, b>>]
  /\ \A a \in V \ {i, j} : /\ d[a] \in Int /\ u[<<i, a>>] = w[<<i, a>>] + d[a]
                           /\ e[a] \in Int /\ u[<<j, a>>] = w[<<j, a>>] + e[a]

LEMMA PairsExchanged ==
  ASSUME NEW V \in SUBSET Int, IsFiniteSet(V), NEW w, NEW u, NEW i, NEW j, NEW d, NEW e,
         Exchanged(w, u, V, i, j, d, e)
  PROVE  /\ Pairs(u, V, V) = Pairs(w, V, V)
              + (SumFunctionOnSet(d, V \ {i, j}) + SumFunctionOnSet(e, V \ {i, j}))
         /\ Pairs(w, V, V) \in Int
         /\ SumFunctionOnSet(d, V \ {i, j}) \in Int /\ SumFunctionOnSet(e, V \ {i, j}) \in Int
<1>1. PICK T : T = V \ {i, j}
  OBVIOUS
<1>2. /\ Symmetric(w, V) /\ Symmetric(u, V) /\ i \in V /\ j \in V /\ i # j
      /\ u[<<i, j>>] = w[<<i, j>>] /\ w[<<i, j>>] \in Int
      /\ T \in SUBSET V /\ IsFiniteSet(T)
  BY <1>1, FS_Subset DEF Exchanged, Symmetric
<1>3. /\ Pairs(w, V, V) = w[<<i, j>>] + Against(w, V, T, i) + (Against(w, V, T, j) + Pairs(w, V, T))
      /\ Against(w, V, T, i) \in Int /\ Against(w, V, T, j) \in Int /\ Pairs(w, V, T) \in Int
  <2>1. SplitsTwo(w, V, V \ {i, j}, i, j)
    BY <1>2, PairsRemoveTwo
  <2> QED
    BY <1>1, <2>1 DEF SplitsTwo
<1>4. /\ Pairs(u, V, V) = u[<<i, j>>] + Against(u, V, T, i) + (Against(u, V, T, j) + Pairs(u, V, T))
      /\ Against(u, V, T, i) \in Int /\ Against(u, V, T, j) \in Int /\ Pairs(u, V, T) \in Int
  <2>1. SplitsTwo(u, V, V \ {i, j}, i, j)
    BY <1>2, PairsRemoveTwo
  <2> QED
    BY <1>1, <2>1 DEF SplitsTwo
<1>5. Pairs(w, V, T) = Pairs(u, V, T)
  <2>1. \A a, b \in V : w[<<a, b>>] \in Int /\ u[<<a, b>>] \in Int
    BY <1>2 DEF Symmetric
  <2>2. \A a, b \in T : w[<<a, b>>] = u[<<a, b>>]
    BY <1>1 DEF Exchanged
  <2> QED
    BY <1>2, <2>1, <2>2, PairsSame
<1>6. /\ Against(u, V, T, i) = Against(w, V, T, i) + SumFunctionOnSet(d, T)
      /\ Against(u, V, T, j) = Against(w, V, T, j) + SumFunctionOnSet(e, T)
  <2>1. PICK f, g, h, k : /\ f = [a \in V |-> w[<<i, a>>]] /\ g = [a \in V |-> u[<<i, a>>]]
                          /\ h = [a \in V |-> w[<<j, a>>]] /\ k = [a \in V |-> u[<<j, a>>]]
    OBVIOUS
  <2>2. \A a \in T : /\ d[a] \in Int /\ u[<<i, a>>] = w[<<i, a>>] + d[a]
                     /\ e[a] \in Int /\ u[<<j, a>>] = w[<<j, a>>] + e[a]
                     /\ w[<<i, a>>] \in Int /\ w[<<j, a>>] \in Int
    BY <1>1, <1>2 DEF Exchanged, Symmetric
  <2>3. AddsUp(f, d, g, T) /\ AddsUp(h, e, k, T)
    BY <1>2, <2>1, <2>2 DEF AddsUp
  <2>4. /\ SumFunctionOnSet(g, T) = SumFunctionOnSet(f, T) + SumFunctionOnSet(d, T)
        /\ SumFunctionOnSet(k, T) = SumFunctionOnSet(h, T) + SumFunctionOnSet(e, T)
    BY <2>3, SumAdds
  <2> QED
    BY <2>1, <2>4, Zenon DEF Against
<1>7. SumFunctionOnSet(d, T) \in Int /\ SumFunctionOnSet(e, T) \in Int
  <2>1. IntsOn(d, T) /\ IntsOn(e, T)
    BY <1>1, <1>2 DEF IntsOn, Exchanged
  <2> QED
    BY <2>1, SumRemoves
<1>8. PICK a, b, c, r, s, t :
        /\ a = w[<<i, j>>] /\ b = Against(w, V, T, i) /\ c = Against(w, V, T, j)
        /\ r = Pairs(w, V, T) /\ s = SumFunctionOnSet(d, T) /\ t = SumFunctionOnSet(e, T)
  OBVIOUS
<1>9. Pairs(w, V, V) = a + b + (c + r) /\ Pairs(u, V, V) = a + (b + s) + ((c + t) + r)
  BY <1>2, <1>3, <1>4, <1>5, <1>6, <1>8, Zenon
<1>10. a \in Int /\ b \in Int /\ c \in Int /\ r \in Int /\ s \in Int /\ t \in Int
  BY <1>2, <1>3, <1>7, <1>8
<1>11. Pairs(u, V, V) = Pairs(w, V, V) + (s + t)
  BY <1>9, <1>10
<1> QED
  BY <1>1, <1>8, <1>9, <1>10, <1>11

\* Two numbers of a sum are changed.
LEMMA SumExchanged ==
  ASSUME NEW V, IsFiniteSet(V), NEW f, NEW g, NEW i \in V, NEW j \in V, i # j,
         \A a \in V : f[a] \in Int /\ g[a] \in Int /\ (a \notin {i, j} => f[a] = g[a])
  PROVE  /\ SumFunctionOnSet(g, V) = SumFunctionOnSet(f, V) + ((g[i] - f[i]) + (g[j] - f[j]))
         /\ SumFunctionOnSet(f, V) \in Int
<1>1. PICK R, T : R = V \ {i} /\ T = V \ {i, j}
  OBVIOUS
<1>2. IsFiniteSet(R) /\ IsFiniteSet(T) /\ j \in R /\ T = R \ {j} /\ R \in SUBSET V /\ T \in SUBSET V
  BY <1>1, FS_Subset
<1>3. IntsOn(f, V) /\ IntsOn(f, R) /\ IntsOn(g, V) /\ IntsOn(g, R) /\ SameOn(f, g, T)
  BY <1>1, <1>2 DEF IntsOn, SameOn
<1>4. /\ SumFunctionOnSet(f, V) \in Int
      /\ SumFunctionOnSet(f, V) = f[i] + SumFunctionOnSet(f, R)
      /\ SumFunctionOnSet(g, V) = g[i] + SumFunctionOnSet(g, R)
  BY <1>1, <1>3, SumRemoves
<1>5. /\ SumFunctionOnSet(f, R) = f[j] + SumFunctionOnSet(f, T)
      /\ SumFunctionOnSet(g, R) = g[j] + SumFunctionOnSet(g, T)
  <2>1. /\ \A b \in R : SumFunctionOnSet(f, R) = f[b] + SumFunctionOnSet(f, R \ {b})
        /\ \A b \in R : SumFunctionOnSet(g, R) = g[b] + SumFunctionOnSet(g, R \ {b})
    BY <1>3, SumRemoves
  <2> QED
    BY <1>2, <2>1
<1>6. SumFunctionOnSet(f, T) = SumFunctionOnSet(g, T)
  BY <1>3, SumsSame
<1>7. SumFunctionOnSet(f, T) \in Int
  <2>1. IntsOn(f, T)
    BY <1>2, <1>3 DEF IntsOn
  <2> QED
    BY <2>1, SumRemoves
<1>8. PICK a, b, c, d, s : a = f[i] /\ b = f[j] /\ c = g[i] /\ d = g[j] /\ s = SumFunctionOnSet(f, T)
  OBVIOUS
<1>9. SumFunctionOnSet(f, V) = a + (b + s) /\ SumFunctionOnSet(g, V) = c + (d + s)
  BY <1>4, <1>5, <1>6, <1>8, Zenon
<1>10. a \in Int /\ b \in Int /\ c \in Int /\ d \in Int /\ s \in Int
  BY <1>7, <1>8
<1>11. SumFunctionOnSet(g, V) = SumFunctionOnSet(f, V) + ((c - a) + (d - b))
  BY <1>9, <1>10
<1> QED
  BY <1>4, <1>8, <1>11

(* Arithmetic of unsigned numbers.                                         *)

LEMMA Divided ==
  \A W \in Nat \ {0} : \A a \in Int :
    a \div W \in Int /\ a % W \in 0 .. W - 1 /\ a = (a \div W) * W + (a % W)
OBVIOUS

LEMMA MultiplesApart ==
  \A W \in Nat \ {0} : \A m, n \in Int :
    m * W \in Int /\ n * W \in Int /\ (m < n => m * W + W <= n * W) /\ (m + n) * W = m * W + n * W
OBVIOUS

LEMMA OneRemainder ==
  ASSUME NEW W \in Nat \ {0}, NEW m \in Int, NEW n \in Int,
         NEW t \in 0 .. W - 1, NEW v \in 0 .. W - 1, m * W + t = n * W + v
  PROVE  t = v
<1>1. PICK a, b : a = m * W /\ b = n * W
  OBVIOUS
<1>2. /\ a \in Int /\ b \in Int /\ (m < n => a + W <= b) /\ (n < m => b + W <= a)
      /\ (m = n => a = b)
  BY <1>1, MultiplesApart
<1>3. a + t = b + v
  BY <1>1
<1> QED
  BY <1>2, <1>3

\* The modulus may be taken in between.
LEMMA UnsignedAdd ==
  \A a, b \in Int : Unsigned(Unsigned(a) + b) = Unsigned(a + b) /\ Unsigned(a) \in Nat
<1> SUFFICES ASSUME NEW a \in Int, NEW b \in Int
             PROVE  Unsigned(Unsigned(a) + b) = Unsigned(a + b) /\ Unsigned(a) \in Nat
  OBVIOUS
<1>1. PICK W : W = WORD
  OBVIOUS
<1>2. W \in Nat \ {0}
  BY <1>1, WordAssumption
<1>3. PICK q, r : q = a \div W /\ r = a % W
  OBVIOUS
<1>4. q \in Int /\ r \in 0 .. W - 1 /\ a = q * W + r
  BY <1>2, <1>3, Divided
<1>5. PICK c, d : c = r + b /\ d = a + b
  OBVIOUS
<1>6. c \in Int /\ d \in Int
  BY <1>2, <1>4, <1>5
<1>7. PICK s, t : s = c \div W /\ t = c % W
  OBVIOUS
<1>8. s \in Int /\ t \in 0 .. W - 1 /\ c = s * W + t
  BY <1>2, <1>6, <1>7, Divided
<1>9. PICK u, v : u = d \div W /\ v = d % W
  OBVIOUS
<1>10. u \in Int /\ v \in 0 .. W - 1 /\ d = u * W + v
  BY <1>2, <1>6, <1>9, Divided
<1>11. q + s \in Int /\ (q + s) * W + t = u * W + v
  <2>1. (q + s) * W = q * W + s * W /\ q * W \in Int /\ s * W \in Int /\ u * W \in Int
    BY <1>2, <1>4, <1>8, <1>10, MultiplesApart
  <2>2. PICK e, f, g : e = q * W /\ f = s * W /\ g = u * W
    OBVIOUS
  <2>3. a = e + r /\ r + b = f + t /\ a + b = g + v /\ (q + s) * W = e + f
        /\ e \in Int /\ f \in Int /\ g \in Int
    BY <1>4, <1>5, <1>8, <1>10, <2>1, <2>2
  <2>4. (e + f) + t = g + v
    BY <1>2, <1>4, <1>8, <1>10, <2>3
  <2> QED
    BY <1>4, <1>8, <2>2, <2>3, <2>4
<1>12. t = v
  BY <1>2, <1>8, <1>10, <1>11, OneRemainder
<1>13. Unsigned(a) = r /\ Unsigned(r + b) = t /\ Unsigned(a + b) = v
  BY <1>1, <1>3, <1>5, <1>7, <1>9 DEF Unsigned
<1> QED
  BY <1>2, <1>4, <1>12, <1>13

(* The cost of a solution without the word it is counted in.               *)

\* What each pair of vessels costs, and each vessel with the port: the
\* distance of a vessel that is left out is INFINITY.
PairCost(p, at) ==
  [ij \in VesselIDs(p) \X VesselIDs(p) |->
     FlowOf(p, ij[1], ij[2]) * Distance(p, at[ij[1]], at[ij[2]])]
PortCost(p, at) == [i \in VesselIDs(p) |-> PortFlowOf(p, i) * Distance(p, at[i], 0)]

FullCost(p, at) ==
  Pairs(PairCost(p, at), VesselIDs(p), VesselIDs(p)) + SumFunctionOnSet(PortCost(p, at), VesselIDs(p))

Places(p, at) == \A i \in VesselIDs(p) : at[i] \in SectionIDs(p) \cup {UNASSIGNED}

\* Of these numbers.
LEMMA TermsNat ==
  ASSUME NEW p, Good(p), NEW at, Places(p, at), NEW i \in VesselIDs(p), NEW j \in VesselIDs(p)
  PROVE  /\ FlowOf(p, i, j) \in Nat /\ PortFlowOf(p, i) \in Nat
         /\ Distance(p, at[i], at[j]) \in Nat /\ Distance(p, at[i], 0) \in Nat
         /\ ~Both(at, i, j) => Distance(p, at[i], at[j]) = INFINITY
         /\ at[i] = UNASSIGNED => Distance(p, at[i], 0) = INFINITY
         /\ PairCost(p, at)[<<i, j>>] = FlowOf(p, i, j) * Distance(p, at[i], at[j])
         /\ PairCost(p, at)[<<i, j>>] \in Int
         /\ PortCost(p, at)[i] = PortFlowOf(p, i) * Distance(p, at[i], 0)
         /\ PortCost(p, at)[i] \in Int
<1>1. Usable(p) /\ Charged(p) /\ INFINITY \in Nat /\ UNASSIGNED = -1
  BY WordAssumption DEF Good, UNASSIGNED
<1>2. FlowOf(p, i, j) \in Nat /\ PortFlowOf(p, i) \in Nat
  <2>1. {0, i, j} \subseteq 0..NumVessels(p)
    BY <1>1 DEF VesselIDs, Usable
  <2> QED
    BY <1>1, <2>1 DEF Charged, FlowOf, PortFlowOf
<1>3. /\ at[i] \in 0..NumSections(p) \/ at[i] = -1
      /\ at[j] \in 0..NumSections(p) \/ at[j] = -1
      /\ NumSections(p) \in Nat
  BY <1>1 DEF Places, SectionIDs, Usable
<1>4. /\ Distance(p, at[i], at[j]) \in Nat /\ Distance(p, at[i], 0) \in Nat
  <2>1. \A k, l \in 0..NumSections(p) : p.sect.dist[<<k, l>>] \in Nat
    BY <1>1 DEF Charged
  <2>2. PICK a, b : a = at[i] /\ b = at[j]
    OBVIOUS
  <2>3. \A k, l : (k \in 0..NumSections(p) \/ k = -1) /\ (l \in 0..NumSections(p) \/ l = -1)
                    => Distance(p, k, l) \in Nat
    BY <1>1, <1>3, <2>1 DEF Distance
  <2>4. 0 \in 0..NumSections(p)
    BY <1>3
  <2> QED
    BY <1>3, <2>3, <2>4
<1>5. /\ ~Both(at, i, j) => Distance(p, at[i], at[j]) = INFINITY
      /\ at[i] = UNASSIGNED => Distance(p, at[i], 0) = INFINITY
  BY <1>1, <1>3 DEF Both, Distance
<1>6. PairCost(p, at)[<<i, j>>] = FlowOf(p, i, j) * Distance(p, at[i], at[j])
  <2>1. <<i, j>> \in VesselIDs(p) \X VesselIDs(p) /\ <<i, j>>[1] = i /\ <<i, j>>[2] = j
    OBVIOUS
  <2> QED
    BY <2>1, Zenon DEF PairCost
<1>7. PortCost(p, at)[i] = PortFlowOf(p, i) * Distance(p, at[i], 0)
  BY Zenon DEF PortCost
<1>8. /\ FlowOf(p, i, j) * Distance(p, at[i], at[j]) \in Int
      /\ PortFlowOf(p, i) * Distance(p, at[i], 0) \in Int
  BY <1>2, <1>4, TimesInt
<1> QED
  BY <1>2, <1>4, <1>5, <1>6, <1>7, <1>8

\* The ones of a vessel and the port.
LEMMA PortTerms ==
  ASSUME NEW p, Good(p), NEW at, Places(p, at)
  PROVE  \A i \in VesselIDs(p) :
           /\ PortFlowOf(p, i) \in Nat /\ Distance(p, at[i], 0) \in Nat
           /\ at[i] = UNASSIGNED => Distance(p, at[i], 0) = INFINITY
           /\ PortCost(p, at)[i] = PortFlowOf(p, i) * Distance(p, at[i], 0)
           /\ PortCost(p, at)[i] \in Int
<1> TAKE i \in VesselIDs(p)
<1>1. ASSUME NEW j \in VesselIDs(p)
      PROVE  /\ PortFlowOf(p, i) \in Nat /\ Distance(p, at[i], 0) \in Nat
             /\ at[i] = UNASSIGNED => Distance(p, at[i], 0) = INFINITY
             /\ PortCost(p, at)[i] = PortFlowOf(p, i) * Distance(p, at[i], 0)
             /\ PortCost(p, at)[i] \in Int
  <2>1. /\ FlowOf(p, i, j) \in Nat /\ PortFlowOf(p, i) \in Nat
        /\ Distance(p, at[i], at[j]) \in Nat /\ Distance(p, at[i], 0) \in Nat
        /\ ~Both(at, i, j) => Distance(p, at[i], at[j]) = INFINITY
        /\ at[i] = UNASSIGNED => Distance(p, at[i], 0) = INFINITY
        /\ PairCost(p, at)[<<i, j>>] = FlowOf(p, i, j) * Distance(p, at[i], at[j])
        /\ PairCost(p, at)[<<i, j>>] \in Int
        /\ PortCost(p, at)[i] = PortFlowOf(p, i) * Distance(p, at[i], 0)
        /\ PortCost(p, at)[i] \in Int
    BY TermsNat, Zenon
  <2> QED
    BY <2>1, Zenon
<1>2. PICK j \in VesselIDs(p) : j = i
  OBVIOUS
<1> QED
  BY <1>1, <1>2, Zenon

\* A sum over some of the vessels, written as one over all.
Masks(f, c, T, V) ==
  /\ IsFiniteSet(V) /\ T \in SUBSET V /\ DOMAIN f = T
  /\ \A j \in T : f[j] \in Int /\ c[j] = f[j]
  /\ \A j \in V \ T : c[j] = 0

LEMMA SumMasked ==
  \A f, c, T, V : Masks(f, c, T, V) =>
    SumFunction(f) = SumFunctionOnSet(c, V) /\ SumFunctionOnSet(c, V) \in Int
<1> SUFFICES ASSUME NEW f, NEW c, NEW T, NEW V, Masks(f, c, T, V)
             PROVE  SumFunction(f) = SumFunctionOnSet(c, V) /\ SumFunctionOnSet(c, V) \in Int
  OBVIOUS
<1>0. /\ IsFiniteSet(V) /\ T \in SUBSET V /\ DOMAIN f = T
      /\ \A j \in T : f[j] \in Int /\ c[j] = f[j]
      /\ \A j \in V \ T : c[j] = 0
  BY DEF Masks
<1>1. IsFiniteSet(T) /\ \A j \in V : c[j] \in Int
  BY <1>0, FS_Subset
<1>2. SameOn(f, c, T)
  BY <1>0, <1>1 DEF SameOn
<1>3. SumFunctionOnSet(f, T) = SumFunctionOnSet(c, T)
  BY <1>2, SumsSame
<1>4. SumFunctionOnSet(c, T) = SumFunctionOnSet(c, V)
  BY <1>0, <1>1, SumWithin
<1>5. SumFunction(f) = SumFunctionOnSet(f, T)
  BY <1>0, Zenon DEF SumFunction
<1>6. IntsOn(c, V)
  BY <1>0, <1>1 DEF IntsOn
<1> QED
  BY <1>3, <1>4, <1>5, <1>6, SumRemoves

\* What a vessel costs by its distances and by being left out, together.
LEMMA CostOfVessel ==
  ASSUME NEW p, Good(p), NEW at, Places(p, at), NEW i \in VesselIDs(p)
  PROVE  /\ MoveCost(p, at, i) \in Int /\ LeftCost(p, at, i) \in Int
         /\ Against(Once(PairCost(p, at), VesselIDs(p)), VesselIDs(p), VesselIDs(p), i) \in Int
         /\ MoveCost(p, at, i) + LeftCost(p, at, i)
              = Against(Once(PairCost(p, at), VesselIDs(p)), VesselIDs(p), VesselIDs(p), i)
                  + PortCost(p, at)[i]
<1>1. PICK V, m : V = VesselIDs(p) /\ m = Once(PairCost(p, at), V)
  OBVIOUS
<1>2. Usable(p) /\ IsFiniteSet(V) /\ V \in SUBSET Int /\ i \in V /\ INFINITY \in Int
  BY <1>1, VesselsFinite, WordAssumption DEF Good, Usable, VesselIDs
<1>3. PICK A, B : A = AfterBoth(p, at, i) /\ B = AfterNotBoth(p, at, i)
  OBVIOUS
<1>4. /\ A \in SUBSET V /\ B \in SUBSET V
      /\ \A j \in V : /\ j \in A => j > i /\ j \notin B
                      /\ j \in B => j > i /\ ~Both(at, i, j)
                      /\ j > i /\ j \notin A /\ j \notin B => j \notin Neighbours(p, i)
  BY <1>1, <1>3 DEF AfterBoth, AfterNotBoth, Neighbours
<1>5. ASSUME NEW j \in V
      PROVE  /\ FlowOf(p, i, j) \in Nat /\ Distance(p, at[i], at[j]) \in Nat
             /\ ~Both(at, i, j) => Distance(p, at[i], at[j]) = INFINITY
             /\ FlowOf(p, i, j) * Distance(p, at[i], at[j]) \in Int
             /\ m[<<i, j>>] = IF j > i THEN FlowOf(p, i, j) * Distance(p, at[i], at[j]) ELSE 0
             /\ j # i /\ j \notin Neighbours(p, i) => FlowOf(p, i, j) = 0
  <2>1. /\ FlowOf(p, i, j) \in Nat /\ Distance(p, at[i], at[j]) \in Nat
        /\ ~Both(at, i, j) => Distance(p, at[i], at[j]) = INFINITY
        /\ PairCost(p, at)[<<i, j>>] = FlowOf(p, i, j) * Distance(p, at[i], at[j])
    BY <1>1, TermsNat
  <2>2. FlowOf(p, i, j) * Distance(p, at[i], at[j]) \in Int
    BY <2>1, TimesInt
  <2>3. \A a, b \in V : PairCost(p, at)[<<a, b>>] \in Int
    BY <1>1, TermsNat
  <2>4. m[<<i, j>>] = IF j > i THEN PairCost(p, at)[<<i, j>>] ELSE 0
    BY <1>1, <1>2, <2>3, OnceInt
  <2>5. j # i /\ j \notin Neighbours(p, i) => FlowOf(p, i, j) = 0
    <3>1. p.trans[<<i, j>>] \in Nat /\ p.trans[<<j, i>>] \in Nat
      <4>1. {i, j} \subseteq 0..NumVessels(p)
        BY <1>1, <1>2 DEF VesselIDs, Usable
      <4> QED
        BY <4>1 DEF Good, Charged
    <3> QED
      BY <1>1, <3>1 DEF Neighbours, FlowOf
  <2> QED
    BY <2>1, <2>2, <2>4, <2>5
<1>6. PICK f, c, g, d, r :
        /\ f = [j \in A |-> FlowOf(p, i, j) * Distance(p, at[i], at[j])]
        /\ c = [j \in V |-> IF j \in A THEN FlowOf(p, i, j) * Distance(p, at[i], at[j]) ELSE 0]
        /\ g = [j \in B |-> FlowOf(p, i, j) * INFINITY]
        /\ d = [j \in V |-> IF j \in B THEN FlowOf(p, i, j) * INFINITY ELSE 0]
        /\ r = [j \in V |-> m[<<i, j>>]]
  OBVIOUS
<1>7. SumFunction(f) = SumFunctionOnSet(c, V) /\ SumFunctionOnSet(c, V) \in Int
  <2>1. /\ DOMAIN f = A /\ \A j \in A : f[j] \in Int /\ c[j] = f[j]
        /\ \A j \in V \ A : c[j] = 0
    BY <1>4, <1>5, <1>6
  <2>2. Masks(f, c, A, V)
    BY <1>2, <1>4, <2>1 DEF Masks
  <2> QED
    BY <2>2, SumMasked
<1>8. SumFunction(g) = SumFunctionOnSet(d, V) /\ SumFunctionOnSet(d, V) \in Int
  <2>0. ASSUME NEW j \in V
        PROVE  FlowOf(p, i, j) * INFINITY \in Int
    <3>0. FlowOf(p, i, j) \in Nat
      BY <1>5
    <3>1. FlowOf(p, i, j) \in Int
      BY <3>0
    <3> QED
      BY <1>2, <3>1, TimesInt
  <2>1. /\ DOMAIN g = B /\ \A j \in B : g[j] \in Int /\ d[j] = g[j]
        /\ \A j \in V \ B : d[j] = 0
    BY <1>4, <1>6, <2>0
  <2>2. Masks(g, d, B, V)
    BY <1>2, <1>4, <2>1 DEF Masks
  <2> QED
    BY <2>2, SumMasked
<1>9. SumFunctionOnSet(r, V) = SumFunctionOnSet(c, V) + SumFunctionOnSet(d, V)
  <2>1. ASSUME NEW j \in V
        PROVE  c[j] \in Int /\ d[j] \in Int /\ r[j] = c[j] + d[j]
    <3>1. PICK F, G : F = FlowOf(p, i, j) /\ G = Distance(p, at[i], at[j])
      OBVIOUS
    <3>2. F * G \in Int /\ F * INFINITY \in Int /\ F \in Nat /\ G \in Nat
      <4>1. F \in Nat /\ G \in Nat
        BY <1>5, <3>1
      <4>2. F \in Int /\ G \in Int
        BY <4>1
      <4> QED
        BY <1>2, <4>1, <4>2, TimesInt
    <3>3. /\ c[j] = (IF j \in A THEN F * G ELSE 0) /\ d[j] = (IF j \in B THEN F * INFINITY ELSE 0)
          /\ r[j] = (IF j > i THEN F * G ELSE 0)
      BY <1>5, <1>6, <3>1
    <3>4. CASE j \in A
      BY <1>4, <3>2, <3>3, <3>4
    <3>5. CASE j \in B
      <4>1. j > i /\ j \notin A /\ G = INFINITY
        BY <1>4, <1>5, <3>1, <3>5
      <4> QED
        BY <3>2, <3>3, <3>5, <4>1
    <3>6. CASE j \notin A /\ j \notin B
      <4>1. j > i => F = 0
        <5>1. j > i => j # i /\ j \notin Neighbours(p, i)
          BY <1>2, <1>4, <3>6
        <5> QED
          BY <1>5, <3>1, <5>1
      <4>2. F = 0 => F * G = 0
        BY <3>2
      <4> QED
        BY <3>3, <3>6, <4>1, <4>2
    <3> QED
      BY <3>4, <3>5, <3>6
  <2>2. AddsUp(c, d, r, V)
    BY <1>2, <2>1 DEF AddsUp
  <2> QED
    BY <2>2, SumAdds
<1>10. Against(m, V, V, i) = SumFunctionOnSet(r, V)
  BY <1>6, Zenon DEF Against
<1>11. PICK s, t, a, b, u :
         /\ s = SumFunctionOnSet(c, V) /\ t = SumFunctionOnSet(d, V)
         /\ a = PortFlowOf(p, i) * Distance(p, at[i], 0) /\ b = PortFlowOf(p, i) * INFINITY
         /\ u = PortCost(p, at)[i]
  OBVIOUS
<1>12. /\ MoveCost(p, at, i) = s + (IF at[i] = UNASSIGNED THEN 0 ELSE a)
       /\ LeftCost(p, at, i) = t + (IF at[i] = UNASSIGNED THEN b ELSE 0)
  BY <1>3, <1>6, <1>7, <1>8, <1>11, Zenon DEF MoveCost, LeftCost
<1>13. /\ s \in Int /\ t \in Int /\ a \in Int /\ b \in Int /\ u = a
       /\ at[i] = UNASSIGNED => a = b
  <2>1. /\ PortFlowOf(p, i) \in Nat /\ Distance(p, at[i], 0) \in Nat
        /\ at[i] = UNASSIGNED => Distance(p, at[i], 0) = INFINITY
        /\ PortCost(p, at)[i] = PortFlowOf(p, i) * Distance(p, at[i], 0)
    BY PortTerms
  <2>2. PortFlowOf(p, i) * Distance(p, at[i], 0) \in Int /\ PortFlowOf(p, i) * INFINITY \in Int
    BY <1>2, <2>1, TimesInt
  <2> QED
    BY <1>7, <1>8, <1>11, <2>1, <2>2, Zenon
<1>14. Against(m, V, V, i) = s + t
  BY <1>9, <1>10, <1>11
<1>15. /\ MoveCost(p, at, i) + LeftCost(p, at, i) = (s + t) + u
       /\ MoveCost(p, at, i) \in Int /\ LeftCost(p, at, i) \in Int /\ s + t \in Int
  <2>1. CASE at[i] = UNASSIGNED
    BY <1>12, <1>13, <2>1
  <2>2. CASE at[i] # UNASSIGNED
    BY <1>12, <1>13, <2>2
  <2> QED
    BY <2>1, <2>2
<1> QED
  BY <1>1, <1>11, <1>14, <1>15

\* The cost that a vector carries is the full cost in a word.
LEMMA ValueFull ==
  ASSUME NEW p, Good(p), NEW at, Places(p, at)
  PROVE  ValueOf(p, at) = Unsigned(FullCost(p, at)) /\ FullCost(p, at) \in Int
<1>1. PICK V, m : V = VesselIDs(p) /\ m = Once(PairCost(p, at), V)
  OBVIOUS
<1>2. IsFiniteSet(V)
  BY <1>1, VesselsFinite DEF Good
<1>3. PICK mv, lf, tot, ag, port :
        /\ mv = [i \in V |-> MoveCost(p, at, i)] /\ lf = [i \in V |-> LeftCost(p, at, i)]
        /\ tot = [i \in V |-> MoveCost(p, at, i) + LeftCost(p, at, i)]
        /\ ag = [i \in V |-> Against(m, V, V, i)] /\ port = PortCost(p, at)
  OBVIOUS
<1>4. ASSUME NEW i \in V
      PROVE  /\ mv[i] \in Int /\ lf[i] \in Int /\ tot[i] = mv[i] + lf[i]
             /\ ag[i] \in Int /\ port[i] \in Int /\ tot[i] = ag[i] + port[i]
  <2>1. /\ MoveCost(p, at, i) \in Int /\ LeftCost(p, at, i) \in Int
        /\ Against(m, V, V, i) \in Int
        /\ MoveCost(p, at, i) + LeftCost(p, at, i) = Against(m, V, V, i) + PortCost(p, at)[i]
    BY <1>1, CostOfVessel
  <2>2. PortCost(p, at)[i] \in Int
    BY <1>1, PortTerms
  <2> QED
    BY <1>3, <2>1, <2>2, Zenon
<1>5. AddsUp(mv, lf, tot, V) /\ AddsUp(ag, port, tot, V) /\ IntsOn(mv, V) /\ IntsOn(lf, V)
      /\ IntsOn(tot, V)
  BY <1>2, <1>4 DEF AddsUp, IntsOn
<1>6. /\ SumFunctionOnSet(tot, V) = SumFunctionOnSet(mv, V) + SumFunctionOnSet(lf, V)
      /\ SumFunctionOnSet(tot, V) = SumFunctionOnSet(ag, V) + SumFunctionOnSet(port, V)
      /\ SumFunctionOnSet(mv, V) \in Int /\ SumFunctionOnSet(lf, V) \in Int
      /\ SumFunctionOnSet(tot, V) \in Int
  BY <1>5, SumAdds, SumRemoves
<1>7. FullCost(p, at) = SumFunctionOnSet(tot, V)
  <2>1. Pairs(PairCost(p, at), V, V) = SumFunctionOnSet(ag, V)
    BY <1>1, <1>3, Zenon DEF Pairs
  <2> QED
    BY <1>1, <1>3, <1>6, <2>1, Zenon DEF FullCost
<1>8. PICK a, b : a = SumFunctionOnSet(mv, V) /\ b = SumFunctionOnSet(lf, V)
  OBVIOUS
<1>9. TranshipmentCost(p, at) = Unsigned(a) /\ PenaltyCost(p, at) = Unsigned(b)
  <2>1. DOMAIN mv = V /\ DOMAIN lf = V
    BY <1>3
  <2> QED
    BY <1>1, <1>3, <1>8, <2>1, Zenon DEF TranshipmentCost, PenaltyCost, SumFunction
<1>10. a \in Int /\ b \in Int /\ Unsigned(a) \in Nat /\ Unsigned(b) \in Nat
  BY <1>6, <1>8, UnsignedAdd
<1>11. Unsigned(Unsigned(a) + Unsigned(b)) = Unsigned(a + Unsigned(b))
  BY <1>10, UnsignedAdd
<1>12. Unsigned(Unsigned(b) + a) = Unsigned(b + a)
  BY <1>10, UnsignedAdd
<1>13. Unsigned(b) + a = a + Unsigned(b) /\ b + a = a + b
  BY <1>10
<1> QED
  BY <1>6, <1>7, <1>8, <1>9, <1>11, <1>12, <1>13, Zenon DEF ValueOf

(* The cost of an exchange.                                                *)

LEMMA DistanceSymmetric ==
  ASSUME NEW p, Good(p), SymmetricDistances(p)
  PROVE  \A k, l \in SectionIDs(p) \cup {UNASSIGNED, 0} :
           /\ Distance(p, k, l) = Distance(p, l, k) /\ Distance(p, k, l) \in Nat
           /\ (k # UNASSIGNED => Distance(p, k, k) = 0)
           /\ (l = UNASSIGNED => Distance(p, k, l) = INFINITY)
<1>1. Usable(p) /\ Charged(p) /\ INFINITY \in Nat /\ UNASSIGNED = -1
  BY WordAssumption DEF Good, UNASSIGNED
<1>2. NumSections(p) \in Nat
  BY <1>1 DEF Usable
<1>3. \A k \in SectionIDs(p) \cup {UNASSIGNED, 0} : k \in 0..NumSections(p) \/ k = -1
  BY <1>1, <1>2 DEF SectionIDs
<1>4. \A k, l \in 0..NumSections(p) : /\ p.sect.dist[<<k, l>>] = p.sect.dist[<<l, k>>]
                                      /\ p.sect.dist[<<k, k>>] = 0
                                      /\ p.sect.dist[<<k, l>>] \in Nat
  BY <1>1 DEF SymmetricDistances, Charged
<1> TAKE k, l \in SectionIDs(p) \cup {UNASSIGNED, 0}
<1>5. (k \in 0..NumSections(p) \/ k = -1) /\ (l \in 0..NumSections(p) \/ l = -1)
  BY <1>3
<1> QED
  BY <1>1, <1>2, <1>4, <1>5 DEF Distance

LEMMA PairCostSymmetric ==
  ASSUME NEW p, Good(p), SymmetricDistances(p), NEW at, Places(p, at)
  PROVE  Symmetric(PairCost(p, at), VesselIDs(p))
<1> SUFFICES ASSUME NEW i \in VesselIDs(p), NEW j \in VesselIDs(p)
             PROVE  /\ PairCost(p, at)[<<i, j>>] \in Int
                    /\ PairCost(p, at)[<<j, i>>] = PairCost(p, at)[<<i, j>>]
  BY DEF Symmetric
<1>1. /\ PairCost(p, at)[<<i, j>>] = FlowOf(p, i, j) * Distance(p, at[i], at[j])
      /\ PairCost(p, at)[<<i, j>>] \in Int
  BY TermsNat
<1>2. PairCost(p, at)[<<j, i>>] = FlowOf(p, j, i) * Distance(p, at[j], at[i])
  BY TermsNat
<1>3. Distance(p, at[i], at[j]) = Distance(p, at[j], at[i])
  BY DistanceSymmetric DEF Places
<1>4. FlowOf(p, i, j) = FlowOf(p, j, i)
  <2>1. p.trans[<<i, j>>] \in Nat /\ p.trans[<<j, i>>] \in Nat
    <3>1. {i, j} \subseteq 0..NumVessels(p)
      BY DEF VesselIDs, Usable, Good
    <3> QED
      BY <3>1 DEF Good, Charged
  <2> QED
    BY <2>1 DEF FlowOf
<1> QED
  BY <1>1, <1>2, <1>3, <1>4

\* What vessel c pays more for e when it goes from section k to section l.
Shift(p, at, c, k, l) ==
  [e \in VesselIDs(p) |-> FlowOf(p, c, e) * (Distance(p, l, at[e]) - Distance(p, k, at[e]))]
PortShift(p, k, l) == Distance(p, l, 0) - Distance(p, k, 0)

LEMMA Distributes == \A f, a, b \in Int : f * (a - b) = f * a - f * b /\ f * (a - b) \in Int
OBVIOUS

LEMMA CrossDistributes ==
  \A f, g, a, b \in Int : (f - g) * (b - a) = (f * b - f * a) + (g * a - g * b)
OBVIOUS

LEMMA ShiftInt ==
  ASSUME NEW p, Good(p), SymmetricDistances(p), NEW at, Places(p, at), NEW c \in VesselIDs(p),
         NEW k \in SectionIDs(p), NEW l \in SectionIDs(p)
  PROVE  \A e \in VesselIDs(p) :
           /\ Shift(p, at, c, k, l)[e] \in Int
           /\ Shift(p, at, c, k, l)[e]
                = FlowOf(p, c, e) * Distance(p, l, at[e]) - FlowOf(p, c, e) * Distance(p, k, at[e])
           /\ FlowOf(p, c, e) * Distance(p, k, at[e]) \in Int
<1> TAKE e \in VesselIDs(p)
<1>1. FlowOf(p, c, e) \in Nat
  BY TermsNat
<1>2. Distance(p, l, at[e]) \in Nat /\ Distance(p, k, at[e]) \in Nat
  BY DistanceSymmetric DEF Places
<1>3. /\ FlowOf(p, c, e) \in Int /\ Distance(p, l, at[e]) \in Int
      /\ Distance(p, k, at[e]) \in Int
  BY <1>1, <1>2
<1>4. Shift(p, at, c, k, l)[e] = FlowOf(p, c, e) * (Distance(p, l, at[e]) - Distance(p, k, at[e]))
  BY Zenon DEF Shift
<1> QED
  BY <1>3, <1>4, Distributes, TimesInt

TwoChanged(f, g, V, i, j) ==
  /\ IsFiniteSet(V) /\ i \in V /\ j \in V /\ i # j
  /\ \A a \in V : f[a] \in Int /\ g[a] \in Int /\ (a \notin {i, j} => f[a] = g[a])

LEMMA TwoChange ==
  \A f, g, V, i, j : TwoChanged(f, g, V, i, j) =>
    /\ SumFunctionOnSet(g, V) = SumFunctionOnSet(f, V) + ((g[i] - f[i]) + (g[j] - f[j]))
    /\ SumFunctionOnSet(f, V) \in Int
BY SumExchanged DEF TwoChanged

Gains(p, at, bt, port, s, t) ==
  /\ FullCost(p, bt) = FullCost(p, at) + port + (s + t)
  /\ s \in Int /\ t \in Int /\ port \in Int /\ FullCost(p, at) \in Int

\* Two berthed vessels change places: what the full cost gains.
LEMMA ExchangeGain ==
  ASSUME NEW p, Good(p), SymmetricDistances(p), NEW at, Places(p, at), NEW bt, NEW i, NEW j,
         Swaps(p, at, bt, i, j), at[i] # UNASSIGNED, at[j] # UNASSIGNED
  PROVE  Gains(p, at, bt,
               (PortFlowOf(p, i) - PortFlowOf(p, j)) * PortShift(p, at[i], at[j]),
               SumFunctionOnSet(Shift(p, at, i, at[i], at[j]), VesselIDs(p) \ {i, j}),
               SumFunctionOnSet(Shift(p, at, j, at[j], at[i]), VesselIDs(p) \ {i, j}))
<1>1. PICK V, w, u, d, e, k, l :
        /\ V = VesselIDs(p) /\ w = PairCost(p, at) /\ u = PairCost(p, bt) /\ k = at[i] /\ l = at[j]
        /\ d = Shift(p, at, i, at[i], at[j]) /\ e = Shift(p, at, j, at[j], at[i])
  OBVIOUS
<1>2. /\ i \in V /\ j \in V /\ i # j /\ k \in SectionIDs(p) /\ l \in SectionIDs(p)
      /\ IsFiniteSet(V) /\ V \in SUBSET Int
      /\ \A c \in V : bt[c] = IF c = i THEN l ELSE IF c = j THEN k ELSE at[c]
  <2>1. i \in V /\ j \in V /\ i # j /\ \A c \in V : bt[c] = IF c = i THEN l ELSE IF c = j THEN k ELSE at[c]
    BY <1>1 DEF Swaps
  <2>2. k \in SectionIDs(p) /\ l \in SectionIDs(p)
    BY <1>1, <2>1 DEF Places
  <2>3. IsFiniteSet(V) /\ V \in SUBSET Int
    BY <1>1, VesselsFinite DEF Good, Usable, VesselIDs
  <2> QED
    BY <2>1, <2>2, <2>3
<1>3. Places(p, bt)
  BY <1>1, <1>2 DEF Places
<1>4. bt[i] = l /\ bt[j] = k /\ \A c \in V \ {i, j} : bt[c] = at[c]
  BY <1>2
<1>5. Exchanged(w, u, V, i, j, d, e)
  <2>1. Symmetric(w, V) /\ Symmetric(u, V)
    BY <1>1, <1>3, PairCostSymmetric
  <2>2. \A a, b \in V : /\ w[<<a, b>>] = FlowOf(p, a, b) * Distance(p, at[a], at[b])
                        /\ u[<<a, b>>] = FlowOf(p, a, b) * Distance(p, bt[a], bt[b])
    <3> TAKE a, b \in V
    <3>1. w[<<a, b>>] = FlowOf(p, a, b) * Distance(p, at[a], at[b])
      BY <1>1, TermsNat
    <3>2. u[<<a, b>>] = FlowOf(p, a, b) * Distance(p, bt[a], bt[b])
      BY <1>1, <1>3, TermsNat
    <3> QED
      BY <3>1, <3>2
  <2>3. u[<<i, j>>] = w[<<i, j>>]
    <3>1. Distance(p, k, l) = Distance(p, l, k)
      BY <1>2, DistanceSymmetric
    <3>2. /\ w[<<i, j>>] = FlowOf(p, i, j) * Distance(p, at[i], at[j])
          /\ u[<<i, j>>] = FlowOf(p, i, j) * Distance(p, bt[i], bt[j])
      BY <1>2, <2>2
    <3>3. Distance(p, at[i], at[j]) = Distance(p, bt[i], bt[j])
      BY <1>1, <1>4, <3>1, Zenon
    <3> QED
      BY <3>2, <3>3, Zenon
  <2>4. \A a, b \in V \ {i, j} : w[<<a, b>>] = u[<<a, b>>]
    <3> TAKE a, b \in V \ {i, j}
    <3>1. a \in V /\ b \in V /\ bt[a] = at[a] /\ bt[b] = at[b]
      BY <1>4
    <3>2. /\ w[<<a, b>>] = FlowOf(p, a, b) * Distance(p, at[a], at[b])
          /\ u[<<a, b>>] = FlowOf(p, a, b) * Distance(p, bt[a], bt[b])
      BY <2>2, <3>1
    <3> QED
      BY <3>1, <3>2, Zenon
  <2>5. ASSUME NEW a \in V \ {i, j}
        PROVE  /\ d[a] \in Int /\ u[<<i, a>>] = w[<<i, a>>] + d[a]
               /\ e[a] \in Int /\ u[<<j, a>>] = w[<<j, a>>] + e[a]
    <3>1. a \in V /\ bt[a] = at[a]
      BY <1>4
    <3>2. PICK fl, fk, gl, gk :
            /\ fl = FlowOf(p, i, a) * Distance(p, l, at[a]) /\ fk = FlowOf(p, i, a) * Distance(p, k, at[a])
            /\ gl = FlowOf(p, j, a) * Distance(p, l, at[a]) /\ gk = FlowOf(p, j, a) * Distance(p, k, at[a])
      OBVIOUS
    <3>3. u[<<i, a>>] = fl /\ w[<<i, a>>] = fk /\ u[<<j, a>>] = gk /\ w[<<j, a>>] = gl
      <4>1. /\ w[<<i, a>>] = FlowOf(p, i, a) * Distance(p, at[i], at[a])
            /\ u[<<i, a>>] = FlowOf(p, i, a) * Distance(p, bt[i], bt[a])
            /\ w[<<j, a>>] = FlowOf(p, j, a) * Distance(p, at[j], at[a])
            /\ u[<<j, a>>] = FlowOf(p, j, a) * Distance(p, bt[j], bt[a])
        BY <1>2, <2>2, <3>1
      <4> QED
        BY <1>1, <1>4, <3>1, <3>2, <4>1, Zenon
    <3>4. d[a] \in Int /\ d[a] = fl - fk /\ fk \in Int
      BY <1>1, <1>2, <3>1, <3>2, ShiftInt
    <3>5. e[a] \in Int /\ e[a] = gk - gl /\ gl \in Int
      BY <1>1, <1>2, <3>1, <3>2, ShiftInt
    <3>6. fl \in Int /\ gk \in Int
      BY <1>1, <1>2, <3>1, <3>2, ShiftInt
    <3> QED
      BY <3>3, <3>4, <3>5, <3>6
  <2> QED
    BY <1>2, <2>1, <2>3, <2>4, <2>5 DEF Exchanged
<1>6. PICK T, s, t : /\ T = V \ {i, j} /\ s = SumFunctionOnSet(d, T) /\ t = SumFunctionOnSet(e, T)
  OBVIOUS
<1>7. /\ Pairs(u, V, V) = Pairs(w, V, V) + (s + t)
      /\ Pairs(w, V, V) \in Int /\ s \in Int /\ t \in Int
  BY <1>2, <1>5, <1>6, PairsExchanged
<1>8. PICK f, g, P, Q, A, B :
        /\ f = PortCost(p, at) /\ g = PortCost(p, bt) /\ P = PortFlowOf(p, i) /\ Q = PortFlowOf(p, j)
        /\ A = Distance(p, k, 0) /\ B = Distance(p, l, 0)
  OBVIOUS
<1>9. P \in Int /\ Q \in Int /\ A \in Int /\ B \in Int
  <2>1. PortFlowOf(p, i) \in Nat /\ PortFlowOf(p, j) \in Nat
    BY <1>1, <1>2, PortTerms
  <2>2. Distance(p, k, 0) \in Nat /\ Distance(p, l, 0) \in Nat
    BY <1>2, DistanceSymmetric
  <2> QED
    BY <1>8, <2>1, <2>2
<1>10. /\ f[i] = P * A /\ f[j] = Q * B /\ g[i] = P * B /\ g[j] = Q * A
       /\ \A a \in V : f[a] \in Int /\ g[a] \in Int /\ (a \notin {i, j} => f[a] = g[a])
  <2>1. \A a \in V : f[a] = PortFlowOf(p, a) * Distance(p, at[a], 0) /\ f[a] \in Int
    BY <1>1, <1>8, PortTerms
  <2>2. \A a \in V : g[a] = PortFlowOf(p, a) * Distance(p, bt[a], 0) /\ g[a] \in Int
    BY <1>1, <1>3, <1>8, PortTerms
  <2>3. f[i] = P * A /\ f[j] = Q * B /\ g[i] = P * B /\ g[j] = Q * A
    BY <1>1, <1>2, <1>4, <1>8, <2>1, <2>2, Zenon
  <2>4. \A a \in V : a \notin {i, j} => f[a] = g[a]
    <3> SUFFICES ASSUME NEW a \in V, a \notin {i, j}
                 PROVE  f[a] = g[a]
      OBVIOUS
    <3>1. bt[a] = at[a]
      BY <1>4
    <3> QED
      BY <2>1, <2>2, <3>1, Zenon
  <2> QED
    BY <2>1, <2>2, <2>3, <2>4
<1>11. PICK F, G, m, n, r, q :
         /\ F = SumFunctionOnSet(f, V) /\ G = SumFunctionOnSet(g, V)
         /\ m = P * A /\ n = P * B /\ r = Q * A /\ q = Q * B
  OBVIOUS
<1>12. G = F + ((n - m) + (r - q)) /\ F \in Int
  <2>1. /\ SumFunctionOnSet(g, V) = SumFunctionOnSet(f, V) + ((g[i] - f[i]) + (g[j] - f[j]))
        /\ SumFunctionOnSet(f, V) \in Int
    <3>1. TwoChanged(f, g, V, i, j)
      BY <1>2, <1>10 DEF TwoChanged
    <3> QED
      BY <3>1, TwoChange, Zenon
  <2> QED
    BY <1>10, <1>11, <2>1, Zenon
<1>13. m \in Int /\ n \in Int /\ r \in Int /\ q \in Int
  BY <1>9, <1>11, TimesInt
<1>14. (P - Q) * (B - A) = (n - m) + (r - q)
  BY <1>9, <1>11, CrossDistributes
<1>15. PICK port, x0, y0 : /\ port = (P - Q) * (B - A) /\ x0 = Pairs(w, V, V) /\ y0 = Pairs(u, V, V)
  OBVIOUS
<1>16. /\ x0 \in Int /\ y0 = x0 + (s + t) /\ port = (n - m) + (r - q)
  BY <1>7, <1>14, <1>15
<1>17. FullCost(p, at) = x0 + F /\ FullCost(p, bt) = y0 + G
  BY <1>1, <1>8, <1>11, <1>15, Zenon DEF FullCost
<1>18. y0 + G = (x0 + F) + port + (s + t) /\ port \in Int /\ x0 + F \in Int
  BY <1>7, <1>12, <1>13, <1>16
<1>19. (PortFlowOf(p, i) - PortFlowOf(p, j)) * PortShift(p, at[i], at[j]) = port
  BY <1>1, <1>8, <1>15, Zenon DEF PortShift
<1>20. /\ SumFunctionOnSet(Shift(p, at, i, at[i], at[j]), VesselIDs(p) \ {i, j}) = s
       /\ SumFunctionOnSet(Shift(p, at, j, at[j], at[i]), VesselIDs(p) \ {i, j}) = t
  BY <1>1, <1>6, Zenon
<1>21. Gains(p, at, bt, port, s, t)
  BY <1>7, <1>17, <1>18, Zenon DEF Gains
<1> QED
  BY <1>19, <1>20, <1>21, Zenon

(* CalcObjValByDelt().                                                     *)

\* Its sums, each under a name.
DeltMove(v, c, k, l, e) ==
  TotalFlow(e, c) * (IF k = UNASSIGNED \/ l = UNASSIGNED
                       THEN (IF v[e] = l THEN 0 ELSE D(v[e], l)) - INFINITY
                     ELSE IF v[e] = k THEN D(k, l)
                     ELSE IF v[e] = l THEN -D(k, l)
                     ELSE D(v[e], l) - D(v[e], k))
DeltOthers(v, c, d) == {e \in mVes[c].neighbours : e # d /\ v[e] # UNASSIGNED}
DeltInter(v, c, d) ==
  SumFunction([e \in DeltOthers(v, c, d) |-> DeltMove(v, c, v[c], v[d], e)])
DeltPort(v, a, b) ==
  ((mVes[a].import + mVes[a].export) - (mVes[b].import + mVes[b].export))
    * (D(v[b], 0) - D(v[a], 0))

LEMMA DeltNamed ==
  ASSUME NEW i, NEW j, NEW v, v[j] # UNASSIGNED
  PROVE  CalcObjValByDelt(i, j, v)
           = Unsigned(v[0] + DeltPort(v, i, j) + DeltInter(v, i, j) + DeltInter(v, j, i))
BY Zenon DEF CalcObjValByDelt, DeltPort, DeltInter, DeltOthers, DeltMove

\* The sum over the berthed neighbours is the sum over all other vessels.
LEMMA InterShift ==
  ASSUME Copies(package, mVes), Good(package), SymmetricDistances(package), NEW v, Places(package, v),
         NEW i \in VesselIDs(package), NEW j \in VesselIDs(package), v[i] # v[j],
         v[i] # UNASSIGNED, v[j] # UNASSIGNED
  PROVE  DeltInter(v, i, j)
           = SumFunctionOnSet(Shift(package, v, i, v[i], v[j]), VesselIDs(package) \ {i, j})
<1>1. PICK p, k, l, d, R, S : /\ p = package /\ k = v[i] /\ l = v[j]
                              /\ d = Shift(package, v, i, v[i], v[j])
                              /\ R = DeltOthers(v, i, j) /\ S = VesselIDs(package) \ {i, j}
  OBVIOUS
<1>2. /\ k \in SectionIDs(p) /\ l \in SectionIDs(p) /\ k # UNASSIGNED /\ l # UNASSIGNED
      /\ IsFiniteSet(S) /\ S \in SUBSET VesselIDs(p) /\ i \in VesselIDs(p)
  <2>1. IsFiniteSet(VesselIDs(p))
    BY <1>1, VesselsFinite DEF Good
  <2>2. IsFiniteSet(S) /\ S \in SUBSET VesselIDs(p)
    BY <1>1, <2>1, FS_Subset
  <2> QED
    BY <1>1, <2>2 DEF Places
<1>3. R = {e \in Neighbours(p, i) : e # j /\ v[e] # UNASSIGNED}
  BY <1>1 DEF DeltOthers, Copies, Vessel
<1>4. R \in SUBSET S /\ \A e \in S \ R : e \notin Neighbours(p, i) \/ v[e] = UNASSIGNED
  BY <1>1, <1>3 DEF Neighbours
<1>5. ASSUME NEW e \in S
      PROVE  /\ e \in VesselIDs(p) /\ e # i /\ d[e] \in Int /\ FlowOf(p, i, e) \in Int
             /\ d[e] = FlowOf(p, i, e) * (Distance(p, l, v[e]) - Distance(p, k, v[e]))
             /\ FlowOf(p, e, i) = FlowOf(p, i, e)
             /\ (e \notin Neighbours(p, i) => FlowOf(p, i, e) = 0)
  <2>1. e \in VesselIDs(p) /\ e # i
    BY <1>1, <1>2
  <2>2. d[e] = FlowOf(p, i, e) * (Distance(p, l, v[e]) - Distance(p, k, v[e]))
    BY <1>1, <2>1, Zenon DEF Shift
  <2>3. d[e] \in Int
    BY <1>1, <1>2, <2>1, ShiftInt
  <2>4. p.trans[<<i, e>>] \in Nat /\ p.trans[<<e, i>>] \in Nat
    <3>1. {i, e} \subseteq 0..NumVessels(p)
      BY <1>1, <1>2, <2>1 DEF VesselIDs, Usable, Good
    <3> QED
      BY <1>1, <3>1 DEF Good, Charged
  <2>5. FlowOf(p, e, i) = FlowOf(p, i, e) /\ FlowOf(p, i, e) \in Int
    BY <2>4 DEF FlowOf
  <2>6. e \notin Neighbours(p, i) => FlowOf(p, i, e) = 0
    BY <2>1, <2>4 DEF Neighbours, FlowOf
  <2> QED
    BY <2>1, <2>2, <2>3, <2>5, <2>6
<1>6. ASSUME NEW e \in S
      PROVE  /\ Distance(p, l, v[e]) \in Int /\ Distance(p, k, v[e]) \in Int
             /\ Distance(p, l, v[e]) = Distance(p, v[e], l)
             /\ Distance(p, k, v[e]) = Distance(p, v[e], k)
             /\ Distance(p, k, l) = Distance(p, l, k) /\ Distance(p, k, l) \in Int
             /\ Distance(p, k, k) = 0 /\ Distance(p, l, l) = 0
             /\ (v[e] = UNASSIGNED => Distance(p, l, v[e]) = Distance(p, k, v[e]))
  <2>1. v[e] \in SectionIDs(p) \cup {UNASSIGNED, 0}
    BY <1>1, <1>5 DEF Places
  <2>2. k \in SectionIDs(p) \cup {UNASSIGNED, 0} /\ l \in SectionIDs(p) \cup {UNASSIGNED, 0}
    BY <1>2
  <2>3. \A a, b \in SectionIDs(p) \cup {UNASSIGNED, 0} :
           /\ Distance(p, a, b) = Distance(p, b, a) /\ Distance(p, a, b) \in Nat
           /\ (a # UNASSIGNED => Distance(p, a, a) = 0)
           /\ (b = UNASSIGNED => Distance(p, a, b) = INFINITY)
    BY <1>1, DistanceSymmetric
  <2>4. Distance(p, l, v[e]) \in Nat /\ Distance(p, k, v[e]) \in Nat /\ Distance(p, k, l) \in Nat
    BY <2>1, <2>2, <2>3
  <2> QED
    BY <1>2, <2>1, <2>2, <2>3, <2>4
<1>7. PICK f : f = [e \in R |-> DeltMove(v, i, k, l, e)]
  OBVIOUS
<1>8. ASSUME NEW e \in R
      PROVE  f[e] = d[e] /\ d[e] \in Int
  <2>1. e \in S
    BY <1>4
  <2>2. PICK q, F, x0, y0, z0 :
          /\ q = v[e] /\ F = FlowOf(p, i, e) /\ x0 = Distance(p, l, v[e])
          /\ y0 = Distance(p, k, v[e]) /\ z0 = Distance(p, k, l)
    OBVIOUS
  <2>3. f[e] = DeltMove(v, i, k, l, e)
    BY <1>7, Zenon
  <2>4. \A a, b : D(a, b) = Distance(p, a, b) /\ TotalFlow(a, b) = FlowOf(p, a, b)
    BY <1>1, Zenon DEF D, Distance, TotalFlow, FlowOf
  <2>5. FlowOf(p, e, i) = F /\ D(q, l) = x0 /\ D(q, k) = y0 /\ D(k, l) = z0 /\ TotalFlow(e, i) = F
    BY <1>5, <1>6, <2>1, <2>2, <2>4
  <2>6. f[e] = F * (IF q = k THEN z0 ELSE IF q = l THEN -z0 ELSE x0 - y0)
    <3>1. DeltMove(v, i, k, l, e)
            = TotalFlow(e, i) * (IF q = k THEN D(k, l) ELSE IF q = l THEN -D(k, l)
                                 ELSE D(q, l) - D(q, k))
      BY <1>2, <2>2, Zenon DEF DeltMove
    <3> QED
      BY <2>3, <2>5, <3>1, Zenon
  <2>7. x0 \in Int /\ y0 \in Int /\ z0 \in Int
    BY <1>6, <2>1, <2>2
  <2>8. (q = k => x0 = z0 /\ y0 = 0) /\ (q = l => x0 = 0 /\ y0 = z0)
    BY <1>6, <2>1, <2>2
  <2>9. (IF q = k THEN z0 ELSE IF q = l THEN -z0 ELSE x0 - y0) = x0 - y0
    BY <2>7, <2>8
  <2>10. d[e] = F * (x0 - y0) /\ d[e] \in Int
    BY <1>5, <2>1, <2>2
  <2> QED
    BY <2>6, <2>9, <2>10, Zenon
<1>9. ASSUME NEW e \in S \ R
      PROVE  d[e] = 0
  <2>1. e \in S /\ (e \notin Neighbours(p, i) \/ v[e] = UNASSIGNED)
    BY <1>4
  <2>2. PICK F, n : F = FlowOf(p, i, e) /\ n = Distance(p, l, v[e]) - Distance(p, k, v[e])
    OBVIOUS
  <2>3. d[e] = F * n /\ F \in Int /\ n \in Int
    BY <1>5, <1>6, <2>1, <2>2
  <2>4. F = 0 \/ n = 0
    BY <1>5, <1>6, <2>1, <2>2
  <2> QED
    BY <2>3, <2>4
<1>10. Masks(f, d, R, S)
  <2>1. DOMAIN f = R
    BY <1>7
  <2>2. \A e \in R : f[e] \in Int /\ d[e] = f[e]
    BY <1>8
  <2> QED
    BY <1>2, <1>4, <1>9, <2>1, <2>2 DEF Masks
<1>11. SumFunction(f) = SumFunctionOnSet(d, S)
  BY <1>10, SumMasked
<1>12. DeltInter(v, i, j) = SumFunction(f)
  BY <1>1, <1>7, Zenon DEF DeltInter
<1> QED
  BY <1>1, <1>11, <1>12, Zenon

LEMMA FourSum == \A a, b, c, d \in Int : a + b + c + d = a + (b + (c + d)) /\ b + (c + d) \in Int
OBVIOUS
LEMMA ThreeSum == \A a, b, c \in Int : (a + b) + c = a + (b + c)
OBVIOUS

\* ... so the cost derived for the exchange is the one of the exchanged vector.
LEMMA DeltIsExchange ==
  ASSUME Copies(package, mVes), Good(package), SymmetricDistances(package), NEW v, Vector(package, v),
         NEW i \in VesselIDs(package), NEW j \in VesselIDs(package), v[i] # v[j],
         v[i] # UNASSIGNED, v[j] # UNASSIGNED
  PROVE  CalcObjValByDelt(i, j, v) = Exchange(v, i, j)[0]
<1>1. PICK p, at, u : /\ p = package /\ at = v /\ u = [at EXCEPT ![i] = at[j], ![j] = at[i]]
  OBVIOUS
<1>2. /\ Good(p) /\ SymmetricDistances(p) /\ i \in VesselIDs(p) /\ j \in VesselIDs(p) /\ i # j
      /\ DOMAIN at = {0} \cup VesselIDs(p) /\ at[0] = ValueOf(p, at) /\ Places(p, at)
      /\ 0 \notin VesselIDs(p)
  BY <1>1 DEF Vector, Feasible, Places, VesselIDs, Good, Usable
<1>3. /\ \A c \in VesselIDs(p) : u[c] = IF c = i THEN at[j] ELSE IF c = j THEN at[i] ELSE at[c]
      /\ DOMAIN u = DOMAIN at /\ 0 \in DOMAIN u
  BY <1>1, <1>2
<1>4. Swaps(p, at, u, i, j)
  BY <1>1, <1>2, <1>3 DEF Swaps
<1>5. Places(p, u)
  BY <1>2, <1>3 DEF Places
<1>6. Exchange(v, i, j)[0] = Unsigned(FullCost(p, u))
  <2>1. Exchange(v, i, j) = [u EXCEPT ![0] = CalcObjVal(u)]
    BY <1>1, Zenon DEF Exchange, CalcObjValTemp
  <2>2. Exchange(v, i, j)[0] = CalcObjVal(u)
    <3>1. PICK c : c = CalcObjVal(u)
      OBVIOUS
    <3>2. [u EXCEPT ![0] = c][0] = c
      BY <1>3
    <3> QED
      BY <2>1, <3>1, <3>2, Zenon
  <2>3. CalcObjVal(u) = ValueOf(p, u)
    BY <1>1, CostBridge
  <2>4. ValueOf(p, u) = Unsigned(FullCost(p, u))
    BY <1>2, <1>5, ValueFull
  <2> QED
    BY <2>2, <2>3, <2>4, Zenon
<1>7. at[0] = Unsigned(FullCost(p, at))
  BY <1>2, ValueFull
<1>8. PICK s, t, port, full :
        /\ s = SumFunctionOnSet(Shift(p, at, i, at[i], at[j]), VesselIDs(p) \ {i, j})
        /\ t = SumFunctionOnSet(Shift(p, at, j, at[j], at[i]), VesselIDs(p) \ {i, j})
        /\ port = (PortFlowOf(p, i) - PortFlowOf(p, j)) * PortShift(p, at[i], at[j])
        /\ full = FullCost(p, at)
  OBVIOUS
<1>9. /\ FullCost(p, u) = full + port + (s + t)
      /\ s \in Int /\ t \in Int /\ port \in Int /\ full \in Int
  <2>1. Gains(p, at, u, port, s, t)
    <3>1. at[i] # UNASSIGNED /\ at[j] # UNASSIGNED
      BY <1>1
    <3>2. Gains(p, at, u,
               (PortFlowOf(p, i) - PortFlowOf(p, j)) * PortShift(p, at[i], at[j]),
               SumFunctionOnSet(Shift(p, at, i, at[i], at[j]), VesselIDs(p) \ {i, j}),
               SumFunctionOnSet(Shift(p, at, j, at[j], at[i]), VesselIDs(p) \ {i, j}))
      BY <1>2, <1>4, <3>1, ExchangeGain
    <3> QED
      BY <1>8, <3>2, Zenon
  <2> QED
    BY <1>8, <2>1 DEF Gains
<1>10. DeltInter(v, i, j) = s
  BY <1>1, <1>2, <1>8, InterShift
<1>11. DeltInter(v, j, i) = t
  <2>1. DeltInter(v, j, i)
          = SumFunctionOnSet(Shift(package, v, j, v[j], v[i]), VesselIDs(package) \ {j, i})
    BY <1>1, <1>2, InterShift
  <2>2. VesselIDs(p) \ {j, i} = VesselIDs(p) \ {i, j}
    OBVIOUS
  <2> QED
    BY <1>1, <1>8, <2>1, <2>2, Zenon
<1>12. DeltPort(v, i, j) = port
  <2>1. /\ mVes[i].import + mVes[i].export = PortFlowOf(p, i)
        /\ mVes[j].import + mVes[j].export = PortFlowOf(p, j)
    BY <1>1, <1>2, Zenon DEF Copies, Vessel, PortFlowOf
  <2>2. D(v[j], 0) - D(v[i], 0) = PortShift(p, at[i], at[j])
    BY <1>1, Zenon DEF PortShift, D, Distance
  <2> QED
    BY <1>8, <2>1, <2>2, Zenon DEF DeltPort
<1>13. PICK c0, n : c0 = Unsigned(full) /\ n = port + (s + t)
  OBVIOUS
<1>14. c0 \in Nat /\ n \in Int
  BY <1>9, <1>13, UnsignedAdd
<1>15. c0 \in Int
  BY <1>14
<1>16. c0 + port + s + t = c0 + n /\ full + port + (s + t) = full + n
  <2>1. s + t \in Int
    BY <1>9
  <2> QED
    BY <1>9, <1>13, <1>15, <2>1, FourSum, ThreeSum
<1>17. CalcObjValByDelt(i, j, v) = Unsigned(c0 + n)
  <2>1. v[0] = c0
    BY <1>1, <1>7, <1>8, <1>13, Zenon
  <2>2. CalcObjValByDelt(i, j, v)
          = Unsigned(v[0] + DeltPort(v, i, j) + DeltInter(v, i, j) + DeltInter(v, j, i))
    BY DeltNamed
  <2> QED
    BY <1>10, <1>11, <1>12, <1>16, <2>1, <2>2, Zenon
<1>18. Unsigned(c0 + n) = Unsigned(full + n)
  BY <1>9, <1>13, <1>14, UnsignedAdd
<1> QED
  BY <1>6, <1>9, <1>16, <1>17, <1>18, Zenon

(* The price of a solution and the word it is counted in.                  *)

\* Sums of natural numbers.
LEMMA SumFunctionNat ==
  \A f, S : IsFiniteSet(S) /\ DOMAIN f = S /\ (\A b \in S : f[b] \in Nat) => SumFunction(f) \in Nat
<1> SUFFICES ASSUME NEW f, NEW S, IsFiniteSet(S), DOMAIN f = S, \A b \in S : f[b] \in Nat
             PROVE  SumFunction(f) \in Nat
  OBVIOUS
<1> DEFINE Q == {s \in SUBSET S : SumFunctionOnSet(f, s) \in Nat}
<1>1. {} \in Q
  BY SumEmpty
<1>2. ASSUME NEW s \in SUBSET S, s # {}, Rest(s) \in Q
      PROVE  s \in Q
  <2>1. \A b \in S : f[b] \in Int
    OBVIOUS
  <2>2. /\ SumFunctionOnSet(f, s) = f[Pick(s)] + SumFunctionOnSet(f, Rest(s))
        /\ Pick(s) \in S
    BY <1>2, <2>1, SumStep
  <2>3. PICK a, b : a = f[Pick(s)] /\ b = SumFunctionOnSet(f, Rest(s))
    OBVIOUS
  <2>4. a \in Nat /\ b \in Nat
    BY <1>2, <2>2, <2>3
  <2>5. SumFunctionOnSet(f, s) = a + b
    BY <2>2, <2>3
  <2>6. SumFunctionOnSet(f, s) \in Nat
    BY <2>4, <2>5
  <2> QED
    BY <2>6
<1> HIDE DEF Q
<1>3. S \in Q
  BY <1>1, <1>2, ByRest
<1>4. SumFunctionOnSet(f, S) \in Nat
  BY <1>3 DEF Q
<1> QED
  BY <1>4, Zenon DEF SumFunction

\* The costs of a vessel are natural numbers.
LEMMA VesselCostNat ==
  ASSUME NEW p, Good(p), NEW at, Places(p, at), NEW i \in VesselIDs(p)
  PROVE  MoveCost(p, at, i) \in Nat /\ LeftCost(p, at, i) \in Nat
<1>1. PICK A, B, f, g :
        /\ A = AfterBoth(p, at, i) /\ B = AfterNotBoth(p, at, i)
        /\ f = [j \in A |-> FlowOf(p, i, j) * Distance(p, at[i], at[j])]
        /\ g = [j \in B |-> FlowOf(p, i, j) * INFINITY]
  OBVIOUS
<1>2. INFINITY \in Nat /\ \A m, n \in Nat : m * n \in Nat
  BY WordAssumption
<1>3. A \in SUBSET VesselIDs(p) /\ B \in SUBSET VesselIDs(p)
  BY <1>1 DEF AfterBoth, AfterNotBoth, Neighbours
<1>4. IsFiniteSet(A) /\ IsFiniteSet(B)
  <2>1. IsFiniteSet(VesselIDs(p))
    BY VesselsFinite DEF Good
  <2> QED
    BY <1>3, <2>1, FS_Subset
<1>5. \A j \in VesselIDs(p) : FlowOf(p, i, j) \in Nat /\ Distance(p, at[i], at[j]) \in Nat
  BY TermsNat
<1>6. DOMAIN f = A /\ DOMAIN g = B /\ (\A j \in A : f[j] \in Nat) /\ (\A j \in B : g[j] \in Nat)
  BY <1>1, <1>2, <1>3, <1>5
<1>7. SumFunction(f) \in Nat /\ SumFunction(g) \in Nat
  BY <1>4, <1>6, SumFunctionNat
<1>8. PICK s, t, a, b : /\ s = SumFunction(f) /\ t = SumFunction(g)
                        /\ a = PortFlowOf(p, i) * Distance(p, at[i], 0) /\ b = PortFlowOf(p, i) * INFINITY
  OBVIOUS
<1>9. a \in Nat /\ b \in Nat
  <2>1. PortFlowOf(p, i) \in Nat /\ Distance(p, at[i], 0) \in Nat
    BY PortTerms
  <2> QED
    BY <1>2, <1>8, <2>1
<1>10. /\ MoveCost(p, at, i) = s + (IF at[i] = UNASSIGNED THEN 0 ELSE a)
       /\ LeftCost(p, at, i) = t + (IF at[i] = UNASSIGNED THEN b ELSE 0)
  BY <1>1, <1>8, Zenon DEF MoveCost, LeftCost
<1>11. s \in Nat /\ t \in Nat
  BY <1>7, <1>8
<1>12. CASE at[i] = UNASSIGNED
  BY <1>9, <1>10, <1>11, <1>12
<1>13. CASE at[i] # UNASSIGNED
  BY <1>9, <1>10, <1>11, <1>13
<1> QED
  BY <1>12, <1>13

LEMMA SmallWord == \A n \in Nat : n < WORD => Unsigned(n) = n
<1>1. WORD \in Nat \ {0}
  BY WordAssumption
<1> QED
  BY <1>1 DEF Unsigned

\* The price of moving containers and that of those left behind, not counted in words.
Moves(p, at) == SumFunction([i \in VesselIDs(p) |-> MoveCost(p, at, i)])
LeftBehind(p, at) == SumFunction([i \in VesselIDs(p) |-> LeftCost(p, at, i)])

LEMMA PricesNat ==
  ASSUME NEW p, Good(p), NEW at, Places(p, at)
  PROVE  Moves(p, at) \in Nat /\ LeftBehind(p, at) \in Nat
<1>1. PICK V, mv, lf : /\ V = VesselIDs(p)
                       /\ mv = [i \in V |-> MoveCost(p, at, i)] /\ lf = [i \in V |-> LeftCost(p, at, i)]
  OBVIOUS
<1>2. IsFiniteSet(V)
  BY <1>1, VesselsFinite DEF Good
<1>3. DOMAIN mv = V /\ DOMAIN lf = V /\ (\A i \in V : mv[i] \in Nat) /\ (\A i \in V : lf[i] \in Nat)
  BY <1>1, VesselCostNat
<1>4. SumFunction(mv) \in Nat /\ SumFunction(lf) \in Nat
  BY <1>2, <1>3, SumFunctionNat
<1> QED
  BY <1>1, <1>4, Zenon DEF Moves, LeftBehind

\* A sum of two words is no less than both exactly when it fits a word.
LEMMA WrapSeen ==
  \A a, b \in Nat : a < WORD /\ b < WORD
    => (Unsigned(a + b) >= a /\ Unsigned(a + b) >= b <=> Unsigned(a + b) = a + b)
<1> SUFFICES ASSUME NEW a \in Nat, NEW b \in Nat, a < WORD, b < WORD
             PROVE  Unsigned(a + b) >= a /\ Unsigned(a + b) >= b <=> Unsigned(a + b) = a + b
  OBVIOUS
<1>1. PICK W, c, r, q : W = WORD /\ c = a + b /\ r = c % W /\ q = c \div W
  OBVIOUS
<1>2. W \in Nat \ {0} /\ c \in Int /\ a < W /\ b < W
  BY <1>1, WordAssumption
<1>3. q \in Int /\ r \in 0 .. W - 1 /\ c = q * W + r
  BY <1>1, <1>2, Divided
<1>4. Unsigned(a + b) = r
  BY <1>1 DEF Unsigned
<1>5. CASE c < W
  <2>1. Unsigned(a + b) = a + b
    BY <1>1, <1>5, SmallWord
  <2> QED
    BY <2>1
<1>6. CASE ~(c < W)
  <2>1. q >= 1
    <3>1. ~(q < 1)
      <4> SUFFICES ASSUME q < 1
                   PROVE  FALSE
        OBVIOUS
      <4>1. q * W + W <= 1 * W /\ q * W \in Int /\ 1 * W \in Int
        BY <1>2, <1>3, MultiplesApart
      <4>2. 1 * W = W
        BY <1>2
      <4>3. PICK e : e = q * W
        OBVIOUS
      <4> QED
        BY <1>2, <1>3, <1>6, <4>1, <4>2, <4>3
    <3> QED
      BY <1>3, <3>1
  <2>2. PICK e : e = q * W
    OBVIOUS
  <2>3. e \in Int /\ e >= W
    <3>1. 0 * W + W <= q * W /\ q * W \in Int
      BY <1>2, <1>3, <2>1, MultiplesApart
    <3>2. 0 * W = 0
      BY <1>2
    <3> QED
      BY <1>2, <2>2, <3>1, <3>2
  <2>4. a + b = e + r
    BY <1>1, <1>3, <2>2
  <2>5. r < a /\ r < b
    BY <1>2, <1>3, <2>3, <2>4
  <2> QED
    BY <1>2, <1>3, <1>4, <2>3, <2>4, <2>5
<1> QED
  BY <1>5, <1>6

(* The package is still the one that was loaded.                           *)

LoadedFrom(file, p) ==
  /\ Same(NewPackage(ReadProject(file)), p) /\ p.project = ReadProject(file)
  /\ {"project", "section"} \subseteq DOMAIN p
Loaded(p) == \E file \in Projects : LoadedFrom(file, p)
OriginInv == phase \notin {"start", "exit"} => Loaded(package)

LEMMA SameAgain == \A p, q, r : Same(p, q) /\ Same(q, r) => Same(p, r)
BY Zenon DEF Same

\* A step loads a project or leaves its vessels, sections and flows alone.
LEMMA OriginStep == BerthIInv /\ OriginInv /\ [BerthNext]_berthProgramVars => OriginInv'
<1> SUFFICES ASSUME BerthIInv, OriginInv, [BerthNext]_berthProgramVars,
                    phase' \notin {"start", "exit"}
             PROVE  Loaded(package)'
  BY DEF OriginInv
<1>1. CASE LoadPackage
  <2>1. PICK file \in Projects : package' = NewPackage(ReadProject(file))
    BY <1>1 DEF LoadPackage
  <2>2. PICK q : q = package'
    OBVIOUS
  <2>3. Same(NewPackage(ReadProject(file)), q)
    BY <2>1, <2>2, Zenon DEF Same
  <2>4. q.project = ReadProject(file) /\ {"project", "section"} \subseteq DOMAIN q
    BY <2>1, <2>2, Zenon DEF NewPackage
  <2> QED
    BY <2>2, <2>3, <2>4 DEF Loaded, LoadedFrom
<1>2. CASE ~LoadPackage
  <2>1. phase \notin {"start", "exit"}
    BY <1>2 DEF BerthNext, ReadParameterFile, DoPartitioning, Constructed, Report, DoPacking,
                InitSolution, AssignVesselToRandomSection, GreedyStep, GenSolnSA, StartAnnealing,
                NoFirstExchange, Reject, Accept, FinishAnnealing, FirstExchange, Draw,
                berthProgramVars
  <2>2. Loaded(package) /\ Good(package)
    BY <2>1 DEF OriginInv, BerthIInv, CopiesInv
  <2>3. CASE Report
    <3>0. PICK file \in Projects : LoadedFrom(file, package)
      BY <2>2 DEF Loaded
    <3>1. PICK p, q : p = package /\ q = package' /\ LoadedFrom(file, p)
      BY <3>0
    <3>2. PICK s, c : q = [p EXCEPT !.section = s, !.transhipmentCost = c]
      BY <2>3, <3>1, Zenon DEF Report, UpdatePackage
    <3>3. {"ves", "sect", "trans", "zones"} \subseteq DOMAIN p
      BY <2>2, <3>1 DEF Good
    <3>4. Same(p, q)
      BY <3>2, <3>3 DEF Same
    <3>5. Same(NewPackage(ReadProject(file)), q)
      BY <3>1, <3>4, SameAgain DEF LoadedFrom
    <3>6. q.project = p.project /\ DOMAIN q = DOMAIN p
      BY <3>1, <3>2 DEF LoadedFrom
    <3>7. LoadedFrom(file, q)
      BY <3>1, <3>5, <3>6, Zenon DEF LoadedFrom
    <3> QED
      BY <3>1, <3>7 DEF Loaded
  <2>4. CASE ~Report
    <3>1. package' = package
      BY <1>2, <2>4 DEF BerthNext, ReadParameterFile, DoPartitioning, Constructed, DoPacking,
                InitSolution, AssignVesselToRandomSection, GreedyStep, GenSolnSA, StartAnnealing,
                NoFirstExchange, Reject, Accept, NextTry, FinishAnnealing, FirstExchange, Draw,
                berthProgramVars
    <3> QED
      BY <2>2, <3>1 DEF Loaded
  <2> QED
    BY <2>3, <2>4
<1> QED
  BY <1>1, <1>2

LEMMA OriginHolds == Spec => []OriginInv
<1>1. BerthInit => OriginInv
  BY DEF BerthInit, OriginInv
<1> QED
  BY <1>1, OriginStep, BerthIInvHolds, PTL DEF Spec

\* What is said of distances holds of the package if it does of the project.
LEMMA SameCosts ==
  ASSUME NEW p, NEW q, Same(p, q)
  PROVE  SymmetricDistances(p) => SymmetricDistances(q)
<1>1. p.sect = q.sect /\ p.ves = q.ves
  BY Zenon DEF Same
<1>2. NumSections(p) = NumSections(q)
  BY <1>1, Zenon DEF NumSections
<1> QED
  BY <1>1, <1>2, Zenon DEF SymmetricDistances

\* What holds while the annealing runs.
LEMMA CostFacts ==
  BerthIInv /\ OriginInv /\ Annealing
    => /\ Loaded(package) /\ Good(package) /\ Copies(package, mVes) /\ Vessels = VesselIDs(package)
       /\ Vector(package, x) /\ Vector(package, best) /\ Vector(package, bestsol)
<1> SUFFICES ASSUME BerthIInv, OriginInv, Annealing
             PROVE  /\ Loaded(package) /\ Good(package) /\ Copies(package, mVes)
                    /\ Vessels = VesselIDs(package)
                    /\ Vector(package, x) /\ Vector(package, best) /\ Vector(package, bestsol)
  OBVIOUS
<1>1. phase \notin {"start", "exit"}
  BY DEF Annealing
<1> QED
  BY <1>1, SolvingFacts, AnnealingFacts DEF OriginInv

\* Annealing (CalcObjValByDelt): where distances are the same both ways, the cost
\* derived from the flows of the two exchanged vessels alone is the one computed
\* for the exchanged solution as a whole, in the word that costs are counted in.
THEOREM ExchangesPriced ==
  ASSUME \A file \in Projects : SymmetricDistances(NewPackage(ReadProject(file)))
  PROVE  Spec => []DeltExact
<1>1. BerthIInv /\ OriginInv => DeltExact
  <2> SUFFICES ASSUME BerthIInv, OriginInv, Annealing,
                      NEW i \in Vessels, NEW j \in Vessels, x[i] # x[j],
                      x[i] # UNASSIGNED, x[j] # UNASSIGNED
               PROVE  CalcObjValByDelt(i, j, x) = Exchange(x, i, j)[0]
    BY DEF DeltExact, GenNeighborhood
  <2>1. /\ Loaded(package) /\ Good(package) /\ Copies(package, mVes)
        /\ Vessels = VesselIDs(package) /\ Vector(package, x)
    BY CostFacts
  <2>2. SymmetricDistances(package)
    BY <2>1, SameCosts DEF Loaded, LoadedFrom
  <2> QED
    BY <2>1, <2>2, DeltIsExchange
<1> QED
  BY <1>1, BerthIInvHolds, OriginHolds, PTL

\* What the assert()s of CalcObjVal() and CalcInitialObjVal() see, ObjVal >= aTrans and
\* ObjVal >= aPenalty: each vector's cost is its price, modulo what a word holds, and as
\* long as either part of the price fits a word, they hold exactly when no sum wrapped.
OverflowSeen ==
  Annealing =>
    \A v \in {x, best, bestsol} :
      LET moves == Moves(package, v)
          left  == LeftBehind(package, v)
          parts == ComputeObjVal(v)
      IN  /\ v[0] = Unsigned(moves + left)
          /\ moves < WORD /\ left < WORD
               => (v[0] >= parts.transhipment /\ v[0] >= parts.penalty <=> v[0] = moves + left)

\* Annealing (CalcInitialObjVal, CalcObjValTemp, CalcObjValByDelt): whatever the flows,
\* the distances and the size of a word, the costs that the annealing compares are the
\* prices of their solutions modulo a word, through every exchange, acceptance and
\* rejection, and the assert()s tell a sum that wrapped from one that did not.
THEOREM OverflowDetected == Spec => []OverflowSeen
<1>1. BerthIInv /\ OriginInv => OverflowSeen
  <2> SUFFICES ASSUME BerthIInv, OriginInv, Annealing, NEW v \in {x, best, bestsol}
               PROVE  /\ v[0] = Unsigned(Moves(package, v) + LeftBehind(package, v))
                      /\ Moves(package, v) < WORD /\ LeftBehind(package, v) < WORD
                           => (v[0] >= ComputeObjVal(v).transhipment /\ v[0] >= ComputeObjVal(v).penalty
                                 <=> v[0] = Moves(package, v) + LeftBehind(package, v))
    BY DEF OverflowSeen
  <2>1. Good(package) /\ Copies(package, mVes) /\ Vector(package, v)
    BY CostFacts
  <2>2. PICK p, a, b, c : /\ p = package /\ a = Moves(p, v) /\ b = LeftBehind(p, v) /\ c = v[0]
    OBVIOUS
  <2>3. Places(p, v) /\ v[0] = ValueOf(p, v)
    BY <2>1, <2>2 DEF Vector, Feasible, Places
  <2>4. a \in Nat /\ b \in Nat
    BY <2>1, <2>2, <2>3, PricesNat
  <2>5. TranshipmentCost(p, v) = Unsigned(a) /\ PenaltyCost(p, v) = Unsigned(b)
    BY <2>2, Zenon DEF TranshipmentCost, PenaltyCost, Moves, LeftBehind
  <2>6. c = Unsigned(a + b)
    <3>1. c = Unsigned(Unsigned(a) + Unsigned(b))
      BY <2>2, <2>3, <2>5, Zenon DEF ValueOf
    <3>2. a \in Int /\ Unsigned(b) \in Int /\ b \in Int
      <4>1. a \in Int /\ b \in Int
        BY <2>4
      <4>2. Unsigned(b) \in Nat
        BY <4>1, UnsignedAdd
      <4> QED
        BY <4>1, <4>2
    <3>3. Unsigned(Unsigned(a) + Unsigned(b)) = Unsigned(a + Unsigned(b))
      BY <3>2, UnsignedAdd
    <3>4. PICK d : d = Unsigned(b)
      OBVIOUS
    <3>5. a + d = d + a /\ a + b = b + a
      BY <3>2, <3>4
    <3>6. Unsigned(d + a) = Unsigned(b + a)
      BY <3>2, <3>4, UnsignedAdd
    <3> QED
      BY <3>1, <3>3, <3>4, <3>5, <3>6, Zenon
  <2>7. ASSUME a < WORD, b < WORD
        PROVE  c >= ComputeObjVal(v).transhipment /\ c >= ComputeObjVal(v).penalty <=> c = a + b
    <3>1. ComputeObjVal(v).transhipment = Unsigned(a) /\ ComputeObjVal(v).penalty = Unsigned(b)
      BY <2>1, <2>2, <2>5, CostBridge
    <3>2. Unsigned(a) = a /\ Unsigned(b) = b
      BY <2>4, <2>7, SmallWord
    <3>3. Unsigned(a + b) >= a /\ Unsigned(a + b) >= b <=> Unsigned(a + b) = a + b
      BY <2>4, <2>7, WrapSeen
    <3> QED
      BY <2>6, <3>1, <3>2, <3>3, Zenon
  <2> QED
    BY <2>2, <2>6, <2>7, Zenon
<1> QED
  BY <1>1, BerthIInvHolds, OriginHolds, PTL

(***************************************************************************)
(* Solution files.  The rows are written in the order of the vessels; what *)
(* ReadSolution() makes of header and rows is the solution.                *)
(***************************************************************************)

\* How many of T are no greater than i, as Nth() counts them.
UpToNumber(T, i) == {j \in T : j <= i}
Counted(T, i) == Cardinality(UpToNumber(T, i))

LEMMA CountedFacts ==
  ASSUME NEW V \in Nat, NEW T \in SUBSET (1..V)
  PROVE  \A a, b \in T : /\ Counted(T, a) \in 1..Cardinality(T)
                         /\ a < b => Counted(T, a) < Counted(T, b)
<1> SUFFICES ASSUME NEW a \in T, NEW b \in T
             PROVE  /\ Counted(T, a) \in 1..Cardinality(T)
                    /\ a < b => Counted(T, a) < Counted(T, b)
  OBVIOUS
<1>1. PICK L, R : L = UpToNumber(T, a) /\ R = UpToNumber(T, b)
  OBVIOUS
<1>2. /\ IsFiniteSet(T) /\ L \in SUBSET T /\ R \in SUBSET T
      /\ IsFiniteSet(L) /\ IsFiniteSet(R)
      /\ Cardinality(T) \in Nat /\ Cardinality(L) \in Nat /\ Cardinality(R) \in Nat
      /\ Cardinality(L) <= Cardinality(T)
  <2>1. IsFiniteSet(T)
    <3>1. IsFiniteSet(1..V)
      BY FS_Interval
    <3> QED
      BY <3>1, FS_Subset
  <2>2. L \in SUBSET T /\ R \in SUBSET T
    BY <1>1 DEF UpToNumber
  <2>3. IsFiniteSet(L) /\ IsFiniteSet(R) /\ Cardinality(L) <= Cardinality(T)
    BY <2>1, <2>2, FS_Subset
  <2> QED
    BY <2>1, <2>2, <2>3, FS_CardinalityType
<1>3. a \in L
  BY <1>1 DEF UpToNumber
<1>4. Cardinality(L) # 0
  BY <1>2, <1>3, FS_EmptySet
<1>5. ASSUME a < b
      PROVE  Cardinality(L) < Cardinality(R)
  <2>1. T \in SUBSET Int /\ a \in Int /\ b \in Int
    OBVIOUS
  <2>2. (\A j \in T : j <= a => j <= b) /\ b <= b /\ ~(b <= a)
    BY <1>5, <2>1
  <2>3. L = {j \in T : j <= a} /\ R = {j \in T : j <= b}
    BY <1>1, Zenon DEF UpToNumber
  <2>4. L \subseteq R /\ b \in R /\ b \notin L
    BY <2>2, <2>3, Zenon
  <2>5. L \in SUBSET R /\ L # R
    BY <2>4, Zenon
  <2>6. PICK k, l : k = Cardinality(L) /\ l = Cardinality(R)
    OBVIOUS
  <2>7. k \in Int /\ l \in Int
    BY <1>2, <2>6
  <2>8. k <= l
    BY <1>2, <2>5, <2>6, FS_Subset
  <2>9. k # l
    BY <1>2, <2>5, <2>6, FS_Subset
  <2>10. k < l
    BY <2>7, <2>8, <2>9
  <2> QED
    BY <2>6, <2>10, Zenon
<1> QED
  BY <1>1, <1>2, <1>4, <1>5 DEF Counted

\* Nth() lists a set of numbers from the first to the last.
LEMMA NthLists ==
  ASSUME NEW V \in Nat, NEW T \in SUBSET (1..V)
  PROVE  /\ Cardinality(T) \in Nat
         /\ \A n \in 1..Cardinality(T) : Nth(T, n) \in T
         /\ \A i \in T : \E n \in 1..Cardinality(T) : Nth(T, n) = i
<1>1. PICK N, f : N = Cardinality(T) /\ f = [i \in T |-> Counted(T, i)]
  OBVIOUS
<1>2. IsFiniteSet(T) /\ N \in Nat
  <2>1. IsFiniteSet(1..V)
    BY FS_Interval
  <2>2. IsFiniteSet(T)
    BY <2>1, FS_Subset
  <2> QED
    BY <1>1, <2>2, FS_CardinalityType
<1>3. f \in [T -> 1..N]
  BY <1>1, CountedFacts
<1>4. \A a, b \in T : f[a] = f[b] => a = b
  <2> SUFFICES ASSUME NEW a \in T, NEW b \in T, a # b
               PROVE  f[a] # f[b]
    OBVIOUS
  <2>1. a < b \/ b < a
    OBVIOUS
  <2>2. f[a] \in Int /\ f[b] \in Int
    BY <1>2, <1>3
  <2>3. f[a] = Counted(T, a) /\ f[b] = Counted(T, b)
    BY <1>1
  <2>4. (a < b => Counted(T, a) < Counted(T, b)) /\ (b < a => Counted(T, b) < Counted(T, a))
    BY CountedFacts
  <2>5. f[a] < f[b] \/ f[b] < f[a]
    BY <2>1, <2>3, <2>4, Zenon
  <2> QED
    BY <2>2, <2>5
<1>5. f \in Injection(T, 1..N)
  BY <1>3, <1>4 DEF Injection, IsInjective
<1>6. IsFiniteSet(1..N) /\ Cardinality(1..N) = N
  BY <1>2, FS_Interval
<1>7. f \in Surjection(T, 1..N)
  BY <1>1, <1>2, <1>5, <1>6, FS_Injection
<1>8. \A n : Nth(T, n) = CHOOSE i \in T : Counted(T, i) = n
  BY Zenon DEF Nth, Counted, UpToNumber
<1>9. \A n \in 1..N : Nth(T, n) \in T /\ Counted(T, Nth(T, n)) = n
  <2> SUFFICES ASSUME NEW n \in 1..N
               PROVE  Nth(T, n) \in T /\ Counted(T, Nth(T, n)) = n
    OBVIOUS
  <2>1. \E i \in T : Counted(T, i) = n
    BY <1>1, <1>7 DEF Surjection
  <2> QED
    BY <1>8, <2>1, Zenon
<1>10. \A i \in T : Nth(T, f[i]) = i
  <2> SUFFICES ASSUME NEW i \in T
               PROVE  Nth(T, f[i]) = i
    OBVIOUS
  <2>1. PICK j : j = Nth(T, f[i])
    OBVIOUS
  <2>2. j \in T /\ Counted(T, j) = f[i]
    BY <1>3, <1>9, <2>1
  <2> QED
    BY <1>1, <1>4, <2>1, <2>2
<1> QED
  BY <1>1, <1>2, <1>3, <1>9, <1>10

(* Reading line by line.                                                   *)

\* ReadSolution() reads line by line, from the package without a solution.
FirstRead(p) == [mode |-> "nil", value |-> [p EXCEPT !.solutionExists = TRUE]]
ReadsThrough(p, file, M) ==
  \E st : Steps(st, FirstRead(p), "read", {}, file, M) /\ ReadSolution(p, file) = st[M].value

LEMMA ReadUnfolds == \A p, file, M : Numbered(file, M) => ReadsThrough(p, file, M)
<1> SUFFICES ASSUME NEW p, NEW file, NEW M \in Nat, DOMAIN file = 1..M
             PROVE  \E st : /\ Steps(st, FirstRead(p), "read", {}, file, M)
                            /\ ReadSolution(p, file) = st[M].value
  BY DEF Numbered, ReadsThrough
<1>1. \A s, line : Step("read", {}, s, line) = ReadLine(s, line)
  BY DEF Step
<1> DEFINE init == FirstRead(p)
           F(g, s) == IF s = {} THEN init ELSE ReadLine(g[Fewer(s)], file[Max(s)])
           H(g, s) == IF s = {} THEN init ELSE Step("read", {}, g[Fewer(s)], file[Max(s)])
           Q(g) == g = [s \in SUBSET DOMAIN file |-> F(g, s)]
<1>2. ReadSolution(p, file) = (CHOOSE g : Q(g))[DOMAIN file].value
  BY Zenon DEF ReadSolution, ReadLines, FoldLeft, MapThenFoldSet, Fewer, ReadLine, TakeSolution,
               FirstRead
<1>3. \A g : Folds(g, init, "read", {}, file, SUBSET (1..M))
              <=> g = [s \in SUBSET (1..M) |-> H(g, s)]
  BY Zenon DEF Folds
<1>4. \A g, s : F(g, s) = H(g, s)
  BY <1>1, Zenon
<1> HIDE DEF F, H, init
<1>5. \A g : [s \in SUBSET (1..M) |-> F(g, s)] = [s \in SUBSET (1..M) |-> H(g, s)]
  BY <1>4, Zenon
<1>6. \A g : Q(g) <=> Folds(g, init, "read", {}, file, SUBSET (1..M))
  BY <1>3, <1>5, Zenon
<1> HIDE DEF Q
<1>7. PICK g : g = CHOOSE h : Q(h)
  OBVIOUS
<1>8. Q(g)
  <2>1. \E h : Q(h)
    BY <1>6, FoldsExists
  <2> QED
    BY <1>7, <2>1, Zenon
<1>9. PICK st : Steps(st, init, "read", {}, file, M) /\ g[1..M] = st[M]
  <2>1. Folds(g, init, "read", {}, file, SUBSET (1..M))
    BY <1>6, <1>8, Zenon
  <2>2. M \in Nat
    OBVIOUS
  <2>3. GoesThrough(g, init, "read", {}, file, M)
    BY <2>1, <2>2, FoldSteps, Zenon
  <2> QED
    BY <2>3, Zenon DEF GoesThrough
<1>10. ReadSolution(p, file) = st[M].value
  BY <1>2, <1>7, <1>9, Zenon
<1> QED
  BY <1>9, <1>10 DEF init

\* A line is a keyword w, or a row d.
IsWord(line, w) == line.word = w /\ w # ""
IsRow(line, d) == line.word = "" /\ line.data = d

\* The reader's state has its fields.
Reading(acc) == {"mode", "value"} \subseteq DOMAIN acc

LEMMA WordRead ==
  \A acc, line, w : Reading(acc) /\ IsWord(line, w)
    => /\ Reading(ReadLine(acc, line))
       /\ ReadLine(acc, line).mode = w /\ ReadLine(acc, line).value = acc.value
BY DEF Reading, IsWord, ReadLine

LEMMA RowRead ==
  \A acc, line, d : Reading(acc) /\ IsRow(line, d)
    => /\ Reading(ReadLine(acc, line))
       /\ ReadLine(acc, line).mode = acc.mode
       /\ ReadLine(acc, line).value = TakeSolution(acc.value, acc.mode, d)
BY DEF Reading, IsRow, ReadLine

(* The lines of a file, in the order they are written.                     *)

\* s is a sequence of m elements; one sequence behind another.
List(s, m) == m \in Nat /\ s = [i \in 1..m |-> s[i]]
Joined(h, s, m, t, n) ==
  /\ List(h, m + n)
  /\ \A i \in 1..m : h[i] = s[i]
  /\ \A i \in 1..n : h[m + i] = t[i]

LEMMA Joins == \A s, m, t, n : List(s, m) /\ List(t, n) => Joined(s \o t, s, m, t, n)
<1> SUFFICES ASSUME NEW s, NEW m, NEW t, NEW n, List(s, m), List(t, n)
             PROVE  Joined(s \o t, s, m, t, n)
  OBVIOUS
<1>1. PICK S : S = {s[i] : i \in 1..m} \cup {t[i] : i \in 1..n}
  OBVIOUS
<1>2. m \in Nat /\ n \in Nat
  BY DEF List
<1>3. s \in [1..m -> S] /\ t \in [1..n -> S]
  <2>1. \A i \in 1..m : s[i] \in S
    BY <1>1
  <2>2. \A i \in 1..n : t[i] \in S
    BY <1>1
  <2> QED
    BY <2>1, <2>2 DEF List
<1>4. s \in Seq(S) /\ t \in Seq(S)
  BY <1>2, <1>3, IsASeq
<1>5. Len(s) = m /\ Len(t) = n
  BY <1>2, <1>3, <1>4, LenProperties
<1>6. PICK h : h = s \o t
  OBVIOUS
<1>7. /\ h \in Seq(S) /\ Len(h) = m + n
      /\ \A i \in 1..m + n : h[i] = IF i <= m THEN s[i] ELSE t[i - m]
  BY <1>4, <1>5, <1>6, ConcatProperties
<1>8. h \in [1..m + n -> S]
  BY <1>7, LenProperties
<1>9. List(h, m + n)
  BY <1>2, <1>8 DEF List
<1>10. \A i \in 1..m : h[i] = s[i]
  BY <1>2, <1>7
<1>11. ASSUME NEW i \in 1..n
       PROVE  h[m + i] = t[i]
  <2>1. m + i \in 1..m + n /\ ~(m + i <= m) /\ (m + i) - m = i
    BY <1>2
  <2> QED
    BY <1>7, <2>1
<1> QED
  BY <1>6, <1>9, <1>10, <1>11 DEF Joined

\* A keyword and its row, behind what was written before.
Headed(h, s, m, w, d) ==
  /\ List(h, m + 2)
  /\ \A i \in 1..m : h[i] = s[i]
  /\ IsWord(h[m + 1], w) /\ IsRow(h[m + 2], d)

LEMMA PairList ==
  \A a, b : List(<<a, b>>, 2) /\ <<a, b>>[1] = a /\ <<a, b>>[2] = b
<1> SUFFICES ASSUME NEW a, NEW b
             PROVE  List(<<a, b>>, 2)
  OBVIOUS
<1>1. <<a, b>> \in [1..2 -> {a, b}]
  OBVIOUS
<1> QED
  BY <1>1 DEF List

LEMMA OneTwo == 1 \in 1..2 /\ 2 \in 1..2
OBVIOUS

LEMMA HeadJoins ==
  \A s, m, w, d : List(s, m) /\ w # "" => Headed(s \o <<Word(w), Row(d)>>, s, m, w, d)
<1> SUFFICES ASSUME NEW s, NEW m, NEW w, NEW d, List(s, m), w # ""
             PROVE  Headed(s \o <<Word(w), Row(d)>>, s, m, w, d)
  OBVIOUS
<1>1. PICK a, b, t : a = Word(w) /\ b = Row(d) /\ t = <<a, b>>
  OBVIOUS
<1>2. List(t, 2) /\ t[1] = a /\ t[2] = b
  BY <1>1, PairList
<1>3. PICK h : h = s \o t
  OBVIOUS
<1>4. Joined(h, s, m, t, 2)
  BY <1>2, <1>3, Joins
<1>5. h[m + 1] = a /\ h[m + 2] = b
  BY <1>2, <1>4, OneTwo, Zenon DEF Joined
<1>6. IsWord(a, w) /\ IsRow(b, d)
  <2>1. IsWord(Word(w), w)
    BY DEF Word, IsWord
  <2>2. IsRow(Row(d), d)
    BY DEF Row, IsRow
  <2> QED
    BY <1>1, <2>1, <2>2, Zenon
<1>7. Headed(h, s, m, w, d)
  BY <1>4, <1>5, <1>6, Zenon DEF Joined, Headed
<1> QED
  BY <1>1, <1>3, <1>7, Zenon

\* The keyword at k with the row after it; h has the pairs of s up to m.
Pair(h, k, w, d) == IsWord(h[k], w) /\ IsRow(h[k + 1], d)
HasPairs(h, s, m) ==
  m \in Nat /\ \A k \in 1..m - 1 : h[k] = s[k] /\ h[k + 1] = s[k + 1]

LEMMA PairsKept ==
  \A h, s, m : HasPairs(h, s, m)
    => \A k \in 1..m - 1 : \A w, d : Pair(s, k, w, d) => Pair(h, k, w, d)
BY Zenon DEF HasPairs, Pair

LEMMA PairsChain ==
  \A h, s, r, m, n : HasPairs(h, s, m) /\ HasPairs(s, r, n) /\ n <= m => HasPairs(h, r, n)
BY DEF HasPairs

LEMMA HeadedPairs ==
  \A h, s, m, w, d : List(s, m) /\ Headed(h, s, m, w, d)
    => HasPairs(h, s, m) /\ Pair(h, m + 1, w, d) /\ List(h, m + 2)
<1> SUFFICES ASSUME NEW h, NEW s, NEW m, NEW w, NEW d, List(s, m), Headed(h, s, m, w, d)
             PROVE  HasPairs(h, s, m) /\ Pair(h, m + 1, w, d) /\ List(h, m + 2)
  OBVIOUS
<1>1. m \in Nat /\ (m + 1) + 1 = m + 2
  BY DEF List
<1>2. HasPairs(h, s, m)
  <2>1. \A i \in 1..m : h[i] = s[i]
    BY Zenon DEF Headed
  <2>2. \A k \in 1..m - 1 : k \in 1..m /\ k + 1 \in 1..m
    BY <1>1
  <2> QED
    BY <1>1, <2>1, <2>2, Zenon DEF HasPairs
<1>3. Pair(h, m + 1, w, d)
  BY <1>1, Zenon DEF Headed, Pair
<1> QED
  BY <1>2, <1>3, Zenon DEF Headed

LEMMA JoinedPairs ==
  \A h, s, m, t, n : List(s, m) /\ List(t, n) /\ Joined(h, s, m, t, n)
    => HasPairs(h, s, m)
<1> SUFFICES ASSUME NEW h, NEW s, NEW m, NEW t, NEW n, List(s, m), Joined(h, s, m, t, n)
             PROVE  HasPairs(h, s, m)
  OBVIOUS
<1>1. m \in Nat
  BY DEF List
<1>2. \A i \in 1..m : h[i] = s[i]
  BY Zenon DEF Joined
<1>3. \A k \in 1..m - 1 : k \in 1..m /\ k + 1 \in 1..m
  BY <1>1
<1> QED
  BY <1>1, <1>2, <1>3, Zenon DEF HasPairs

\* The lines of a solution file: the header, ...
Header(F, left, V, total, cost, penalty) ==
  /\ Pair(F, 1, "_NUM_UNALLOCATED", <<left>>)
  /\ Pair(F, 3, "_NUM_VESSELS", <<V + 1>>)
  /\ Pair(F, 5, "_OBJECTIVE_VALUE", <<total>>)
  /\ Pair(F, 7, "_TRANSHIPMENT_VALUE", <<cost>>)
  /\ Pair(F, 9, "_PENALTY_VALUE", <<penalty>>)
  /\ Pair(F, 11, "_TIME_TAKEN", <<0>>)
  /\ Pair(F, 13, "_ALLOCATION", <<0, 0, 0, 0, 0>>)

\* ... a row for each vessel that has a section, and rows that are not read.
VesselLine(line, i, at) == \E d : IsRow(line, d) /\ d[1] = i /\ d[2] = at[i]
Ignored(F, a, b) ==
  \/ b = a
  \/ IsWord(F[a + 1], "_UNALLOCATED_VESSELS") /\ \A n \in a + 2..b : \E d : IsRow(F[n], d)

Body(F, M, at, A) ==
  /\ Numbered(F, M) /\ Cardinality(A) \in Nat /\ 14 + Cardinality(A) <= M
  /\ \A n \in 1..Cardinality(A) : VesselLine(F[14 + n], Nth(A, n), at)
  /\ Ignored(F, 14 + Cardinality(A), M)

\* The part of the file that WriteSolutionFile() writes first.
HeaderLines(left, V, total, cost, penalty) ==
  ((((((<<Word("_NUM_UNALLOCATED"), Row(<<left>>)>>
    \o <<Word("_NUM_VESSELS"), Row(<<V + 1>>)>>)
    \o <<Word("_OBJECTIVE_VALUE"), Row(<<total>>)>>)
    \o <<Word("_TRANSHIPMENT_VALUE"), Row(<<cost>>)>>)
    \o <<Word("_PENALTY_VALUE"), Row(<<penalty>>)>>)
    \o <<Word("_TIME_TAKEN"), Row(<<0>>)>>)
    \o <<Word("_ALLOCATION"), Row(<<0, 0, 0, 0, 0>>)>>)

\* The header is there, one keyword after the other.
LEMMA HeaderPairs ==
  ASSUME NEW left, NEW V, NEW total, NEW cost, NEW penalty
  PROVE  LET f == HeaderLines(left, V, total, cost, penalty)
         IN  List(f, 14) /\ Header(f, left, V, total, cost, penalty)
<1> DEFINE d1 == <<left>>
           d2 == <<V + 1>>
           d3 == <<total>>
           d4 == <<cost>>
           d5 == <<penalty>>
           d6 == <<0>>
           d7 == <<0, 0, 0, 0, 0>>
           f1 == <<Word("_NUM_UNALLOCATED"), Row(d1)>>
           f2 == f1 \o <<Word("_NUM_VESSELS"), Row(d2)>>
           f3 == f2 \o <<Word("_OBJECTIVE_VALUE"), Row(d3)>>
           f4 == f3 \o <<Word("_TRANSHIPMENT_VALUE"), Row(d4)>>
           f5 == f4 \o <<Word("_PENALTY_VALUE"), Row(d5)>>
           f6 == f5 \o <<Word("_TIME_TAKEN"), Row(d6)>>
           f7 == f6 \o <<Word("_ALLOCATION"), Row(d7)>>
<1> SUFFICES List(f7, 14) /\ Header(f7, left, V, total, cost, penalty)
  BY Zenon DEF HeaderLines
<1>1. List(f1, 2) /\ Pair(f1, 1, "_NUM_UNALLOCATED", d1)
  <2>1. PICK a, b : a = Word("_NUM_UNALLOCATED") /\ b = Row(d1)
    OBVIOUS
  <2>2. List(<<a, b>>, 2) /\ <<a, b>>[1] = a /\ <<a, b>>[2] = b
    BY PairList, Zenon
  <2>3. IsWord(a, "_NUM_UNALLOCATED") /\ IsRow(b, d1)
    <3> HIDE DEF d1
    <3> QED
      BY <2>1 DEF Word, Row, IsWord, IsRow
  <2>4. 1 + 1 = 2
    OBVIOUS
  <2> QED
    BY <2>1, <2>2, <2>3, <2>4, Zenon DEF Pair
<1> HIDE DEF d1, d2, d3, d4, d5, d6, d7, f1
<1>2. HasPairs(f2, f1, 2) /\ Pair(f2, 3, "_NUM_VESSELS", d2) /\ List(f2, 4)
  <2>1. Headed(f2, f1, 2, "_NUM_VESSELS", d2)
    BY <1>1, HeadJoins
  <2>2. 2 + 1 = 3 /\ 2 + 2 = 4
    OBVIOUS
  <2> QED
    BY <1>1, <2>1, <2>2, HeadedPairs, Zenon
<1> HIDE DEF f2
<1>3. HasPairs(f3, f2, 4) /\ Pair(f3, 5, "_OBJECTIVE_VALUE", d3) /\ List(f3, 6)
  <2>1. Headed(f3, f2, 4, "_OBJECTIVE_VALUE", d3)
    BY <1>2, HeadJoins
  <2>2. 4 + 1 = 5 /\ 4 + 2 = 6
    OBVIOUS
  <2> QED
    BY <1>2, <2>1, <2>2, HeadedPairs, Zenon
<1> HIDE DEF f3
<1>4. HasPairs(f4, f3, 6) /\ Pair(f4, 7, "_TRANSHIPMENT_VALUE", d4) /\ List(f4, 8)
  <2>1. Headed(f4, f3, 6, "_TRANSHIPMENT_VALUE", d4)
    BY <1>3, HeadJoins
  <2>2. 6 + 1 = 7 /\ 6 + 2 = 8
    OBVIOUS
  <2> QED
    BY <1>3, <2>1, <2>2, HeadedPairs, Zenon
<1> HIDE DEF f4
<1>5. HasPairs(f5, f4, 8) /\ Pair(f5, 9, "_PENALTY_VALUE", d5) /\ List(f5, 10)
  <2>1. Headed(f5, f4, 8, "_PENALTY_VALUE", d5)
    BY <1>4, HeadJoins
  <2>2. 8 + 1 = 9 /\ 8 + 2 = 10
    OBVIOUS
  <2> QED
    BY <1>4, <2>1, <2>2, HeadedPairs, Zenon
<1> HIDE DEF f5
<1>6. HasPairs(f6, f5, 10) /\ Pair(f6, 11, "_TIME_TAKEN", d6) /\ List(f6, 12)
  <2>1. Headed(f6, f5, 10, "_TIME_TAKEN", d6)
    BY <1>5, HeadJoins
  <2>2. 10 + 1 = 11 /\ 10 + 2 = 12
    OBVIOUS
  <2> QED
    BY <1>5, <2>1, <2>2, HeadedPairs, Zenon
<1> HIDE DEF f6
<1>7. HasPairs(f7, f6, 12) /\ Pair(f7, 13, "_ALLOCATION", d7) /\ List(f7, 14)
  <2>1. Headed(f7, f6, 12, "_ALLOCATION", d7)
    BY <1>6, HeadJoins
  <2>2. 12 + 1 = 13 /\ 12 + 2 = 14
    OBVIOUS
  <2> QED
    BY <1>6, <2>1, <2>2, HeadedPairs, Zenon
<1> HIDE DEF f7
<1>8. /\ HasPairs(f7, f5, 10) /\ HasPairs(f7, f4, 8) /\ HasPairs(f7, f3, 6)
      /\ HasPairs(f7, f2, 4) /\ HasPairs(f7, f1, 2)
  <2>1. HasPairs(f7, f5, 10)
    BY <1>6, <1>7, PairsChain
  <2>2. HasPairs(f7, f4, 8)
    BY <1>5, <2>1, PairsChain
  <2>3. HasPairs(f7, f3, 6)
    BY <1>4, <2>2, PairsChain
  <2>4. HasPairs(f7, f2, 4)
    BY <1>3, <2>3, PairsChain
  <2>5. HasPairs(f7, f1, 2)
    BY <1>2, <2>4, PairsChain
  <2> QED
    BY <2>1, <2>2, <2>3, <2>4, <2>5
<1>9. 1 \in 1..2 - 1 /\ 3 \in 1..4 - 1 /\ 5 \in 1..6 - 1 /\ 7 \in 1..8 - 1
      /\ 9 \in 1..10 - 1 /\ 11 \in 1..12 - 1
  OBVIOUS
<1>10. /\ Pair(f7, 1, "_NUM_UNALLOCATED", d1) /\ Pair(f7, 3, "_NUM_VESSELS", d2)
       /\ Pair(f7, 5, "_OBJECTIVE_VALUE", d3) /\ Pair(f7, 7, "_TRANSHIPMENT_VALUE", d4)
       /\ Pair(f7, 9, "_PENALTY_VALUE", d5) /\ Pair(f7, 11, "_TIME_TAKEN", d6)
  BY <1>1, <1>2, <1>3, <1>4, <1>5, <1>6, <1>7, <1>8, <1>9, PairsKept, Zenon
<1> QED
  BY <1>7, <1>10, Zenon DEF Header, d1, d2, d3, d4, d5, d6, d7

\* The other parts of the file.
VesselData(at, i) == <<i, at[i], -1, package.ves.arrival[i], package.ves.departure[i]>>
RowLines(at, ids) == [n \in 1..Cardinality(ids) |-> Row(VesselData(at, Nth(ids, n)))]
LeftLines(at, ids) ==
  IF mUnallocVes = {} THEN <<>>
  ELSE <<Word("_UNALLOCATED_VESSELS")>> \o RowLines(at, ids)

AtSections(at) == {i \in Vessels : at[i] > 0}
AtNone(at) == {i \in Vessels : at[i] < 0}

LEMMA FileParts ==
  ASSUME NEW at, NEW cost, NEW penalty
  PROVE  WriteSolutionFile(at, cost, penalty)
           = (HeaderLines(Cardinality(mUnallocVes), Cardinality(Vessels),
                          Unsigned(cost + penalty), cost, penalty)
                \o RowLines(at, AtSections(at))) \o LeftLines(at, AtNone(at))
BY Zenon DEF WriteSolutionFile, HeaderLines, RowLines, LeftLines, AtSections, AtNone, VesselData

LEMMA RowLinesList ==
  \A at, ids : Cardinality(ids) \in Nat => List(RowLines(at, ids), Cardinality(ids))
<1> SUFFICES ASSUME NEW at, NEW ids, Cardinality(ids) \in Nat
             PROVE  List(RowLines(at, ids), Cardinality(ids))
  OBVIOUS
<1>1. PICK N, r : N = Cardinality(ids) /\ r = RowLines(at, ids)
  OBVIOUS
<1> DEFINE R(n) == Row(VesselData(at, Nth(ids, n)))
<1>2. r = [n \in 1..N |-> R(n)]
  BY <1>1, Zenon DEF RowLines
<1> HIDE DEF R
<1>3. r = [n \in 1..N |-> r[n]]
  BY <1>2
<1> QED
  BY <1>1, <1>3 DEF List

LEMMA NoLines == List(<<>>, 0)
BY DEF List

LEMMA OneLine == \A a : List(<<a>>, 1) /\ <<a>>[1] = a
<1> SUFFICES ASSUME NEW a
             PROVE  List(<<a>>, 1)
  OBVIOUS
<1>1. <<a>> \in [1..1 -> {a}]
  OBVIOUS
<1> QED
  BY <1>1 DEF List

\* Row n of the rows.
LEMMA RowOf ==
  \A at, ids : \A n \in 1..Cardinality(ids) :
    \E d : IsRow(RowLines(at, ids)[n], d) /\ d[1] = Nth(ids, n) /\ d[2] = at[Nth(ids, n)]
<1> SUFFICES ASSUME NEW at, NEW ids, NEW n \in 1..Cardinality(ids)
             PROVE  \E d : /\ IsRow(RowLines(at, ids)[n], d)
                           /\ d[1] = Nth(ids, n) /\ d[2] = at[Nth(ids, n)]
  OBVIOUS
<1>1. PICK i, d : i = Nth(ids, n) /\ d = VesselData(at, i)
  OBVIOUS
<1>2. RowLines(at, ids)[n] = Row(d)
  BY <1>1, Zenon DEF RowLines
<1>3. IsRow(Row(d), d)
  BY DEF Row, IsRow
<1>4. d[1] = i /\ d[2] = at[i]
  BY <1>1 DEF VesselData
<1>5. IsRow(RowLines(at, ids)[n], d)
  BY <1>2, <1>3, Zenon
<1> QED
  BY <1>1, <1>4, <1>5, Zenon

\* The lines of the vessels left behind.
LEMMA LeftLinesList ==
  ASSUME NEW at, NEW ids, Cardinality(ids) \in Nat
  PROVE  \E k : /\ List(LeftLines(at, ids), k)
                /\ \/ k = 0
                   \/ /\ k > 0 /\ IsWord(LeftLines(at, ids)[1], "_UNALLOCATED_VESSELS")
                      /\ \A n \in 2..k : \E d : IsRow(LeftLines(at, ids)[n], d)
<1>1. CASE mUnallocVes = {}
  <2>1. LeftLines(at, ids) = <<>>
    BY <1>1, Zenon DEF LeftLines
  <2> QED
    BY <2>1, NoLines, Zenon
<1>2. CASE mUnallocVes # {}
  <2>1. PICK w, a, r, N, h : /\ w = Word("_UNALLOCATED_VESSELS") /\ a = <<w>> /\ r = RowLines(at, ids)
                          /\ N = Cardinality(ids) /\ h = a \o r
    OBVIOUS
  <2>2. LeftLines(at, ids) = h
    BY <1>2, <2>1, Zenon DEF LeftLines
  <2>3. List(a, 1) /\ a[1] = w /\ List(r, N)
    BY <2>1, OneLine, RowLinesList, Zenon
  <2>4. Joined(h, a, 1, r, N)
    BY <2>1, <2>3, Joins, Zenon
  <2>5. N \in Nat
    BY <2>1
  <2>6. List(h, 1 + N) /\ 1 + N > 0 /\ 1 \in 1..1
    BY <2>4, <2>5 DEF Joined
  <2>7. h[1] = w
    BY <2>3, <2>4, <2>6, Zenon DEF Joined
  <2>8. IsWord(w, "_UNALLOCATED_VESSELS")
    BY <2>1 DEF Word, IsWord
  <2>9. \A n \in 2..1 + N : \E d : IsRow(h[n], d)
    <3> SUFFICES ASSUME NEW n \in 2..1 + N
                 PROVE  \E d : IsRow(h[n], d)
      OBVIOUS
    <3>1. PICK m : m = n - 1
      OBVIOUS
    <3>2. m \in 1..N /\ 1 + m = n
      BY <2>5, <3>1
    <3>3. h[1 + m] = r[m]
      BY <2>4, <3>2, Zenon DEF Joined
    <3>4. \E d : IsRow(r[m], d)
      BY <2>1, <3>2, RowOf, Zenon
    <3> QED
      BY <3>2, <3>3, <3>4, Zenon
  <2> QED
    BY <2>2, <2>6, <2>7, <2>8, <2>9, Zenon
<1> QED
  BY <1>1, <1>2

\* What is written is a header, a row for each vessel that has a section, and
\* rows that are not read.
LEMMA FileWritten ==
  ASSUME NEW at, NEW cost, NEW penalty,
         Cardinality(AtSections(at)) \in Nat, Cardinality(AtNone(at)) \in Nat
  PROVE  \E M : /\ Header(WriteSolutionFile(at, cost, penalty), Cardinality(mUnallocVes),
                          Cardinality(Vessels), Unsigned(cost + penalty), cost, penalty)
                /\ Body(WriteSolutionFile(at, cost, penalty), M, at, AtSections(at))
<1>1. PICK left, V, total, A, B, h, r, t, f, g :
        /\ left = Cardinality(mUnallocVes) /\ V = Cardinality(Vessels)
        /\ total = Unsigned(cost + penalty) /\ A = AtSections(at) /\ B = AtNone(at)
        /\ h = HeaderLines(left, V, total, cost, penalty)
        /\ r = RowLines(at, A) /\ t = LeftLines(at, B) /\ f = h \o r /\ g = f \o t
  OBVIOUS
<1>2. WriteSolutionFile(at, cost, penalty) = g
  BY <1>1, FileParts, Zenon
<1>3. List(h, 14) /\ Header(h, left, V, total, cost, penalty)
  BY <1>1, HeaderPairs, Zenon
<1>4. PICK N : N = Cardinality(A) /\ N \in Nat
  BY <1>1
<1>5. List(r, N)
  BY <1>1, <1>4, RowLinesList, Zenon
<1>6. PICK k : /\ List(t, k)
               /\ \/ k = 0
                  \/ /\ k > 0 /\ IsWord(t[1], "_UNALLOCATED_VESSELS")
                     /\ \A n \in 2..k : \E d : IsRow(t[n], d)
  BY <1>1, LeftLinesList, Zenon
<1>7. Joined(f, h, 14, r, N) /\ List(f, 14 + N)
  <2>1. Joined(h \o r, h, 14, r, N)
    BY <1>3, <1>5, Joins, Zenon
  <2>2. Joined(f, h, 14, r, N)
    BY <1>1, <2>1, Zenon
  <2> QED
    BY <2>2, Zenon DEF Joined
<1>8. PICK a, M : a = 14 + N /\ M = a + k
  OBVIOUS
<1>9. Joined(g, f, a, t, k) /\ List(g, M)
  <2>1. List(f, a) /\ List(t, k)
    BY <1>6, <1>7, <1>8, Zenon
  <2>2. Joined(f \o t, f, a, t, k)
    BY <2>1, Joins, Zenon
  <2>3. Joined(g, f, a, t, k)
    BY <1>1, <2>2, Zenon
  <2>4. List(g, a + k)
    BY <2>3, Zenon DEF Joined
  <2> QED
    BY <1>8, <2>3, <2>4, Zenon
<1>10. k \in Nat /\ a \in Nat /\ M \in Nat /\ a <= M /\ 14 <= a
  BY <1>4, <1>6, <1>8 DEF List
<1>11. Numbered(g, M)
  BY <1>9, <1>10 DEF List, Numbered
<1>12. Header(g, left, V, total, cost, penalty)
  <2>1. HasPairs(f, h, 14)
    BY <1>3, <1>5, <1>7, JoinedPairs
  <2>2. HasPairs(g, f, a)
    BY <1>6, <1>7, <1>8, <1>9, JoinedPairs, Zenon
  <2>3. HasPairs(g, h, 14)
    <3>1. 14 <= a
      BY <1>10
    <3> QED
      BY <2>1, <2>2, <3>1, PairsChain
  <2>4. 1 \in 1..14 - 1 /\ 3 \in 1..14 - 1 /\ 5 \in 1..14 - 1 /\ 7 \in 1..14 - 1
        /\ 9 \in 1..14 - 1 /\ 11 \in 1..14 - 1 /\ 13 \in 1..14 - 1
    OBVIOUS
  <2> QED
    BY <1>3, <2>3, <2>4, PairsKept, Zenon DEF Header
<1>13. \A n \in 1..N : VesselLine(g[14 + n], Nth(A, n), at)
  <2> SUFFICES ASSUME NEW n \in 1..N
               PROVE  VesselLine(g[14 + n], Nth(A, n), at)
    OBVIOUS
  <2>1. f[14 + n] = r[n]
    BY <1>7, Zenon DEF Joined
  <2>2. 14 + n \in 1..a
    BY <1>4, <1>8
  <2>3. g[14 + n] = f[14 + n]
    BY <1>9, <2>2, Zenon DEF Joined
  <2>4. \E d : IsRow(r[n], d) /\ d[1] = Nth(A, n) /\ d[2] = at[Nth(A, n)]
    BY <1>1, <1>4, RowOf, Zenon
  <2> QED
    BY <2>1, <2>3, <2>4, Zenon DEF VesselLine
<1>14. Ignored(g, a, M)
  <2>1. CASE k = 0
    BY <1>8, <1>10, <2>1 DEF Ignored
  <2>2. CASE k # 0
    <3>1. 1 \in 1..k
      BY <1>10, <2>2
    <3>2. g[a + 1] = t[1]
      BY <1>9, <3>1, Zenon DEF Joined
    <3>3. \A n \in a + 2..M : \E d : IsRow(g[n], d)
      <4> SUFFICES ASSUME NEW n \in a + 2..M
                   PROVE  \E d : IsRow(g[n], d)
        OBVIOUS
      <4>1. PICK m : m = n - a
        OBVIOUS
      <4>2. m \in 2..k /\ m \in 1..k /\ a + m = n
        BY <1>8, <1>10, <4>1
      <4>3. g[a + m] = t[m]
        BY <1>9, <4>2, Zenon DEF Joined
      <4>4. \E d : IsRow(t[m], d)
        BY <1>6, <2>2, <4>2, Zenon
      <4> QED
        BY <4>2, <4>3, <4>4, Zenon
    <3>4. IsWord(t[1], "_UNALLOCATED_VESSELS")
      BY <1>6, <2>2, Zenon
    <3> QED
      BY <3>2, <3>3, <3>4, Zenon DEF Ignored
  <2> QED
    BY <2>1, <2>2
<1>15. Body(g, M, at, A)
  BY <1>4, <1>8, <1>10, <1>11, <1>13, <1>14, Zenon DEF Body
<1> QED
  BY <1>1, <1>2, <1>12, <1>15, Zenon

(* What is known after each row.                                           *)

\* What q holds of a solution: l vessels left, the total t, the cost c, the penalty n.
Whole(q) ==
  {"ves", "sect", "trans", "zones", "section", "wharfmark", "unallocatedVessels",
   "objectiveValue", "transhipmentCost", "penalty", "sound"} \subseteq DOMAIN q
Known(q, p, l, t, c, n, s, sec) ==
  /\ Whole(q) /\ Same(p, q)
  /\ q.unallocatedVessels = l /\ q.objectiveValue = t /\ q.transhipmentCost = c /\ q.penalty = n
  /\ q.sound = s /\ q.section = sec

LEMMA TakeUnallocated ==
  \A q, p, l, t, c, n, s, sec, d : Known(q, p, l, t, c, n, s, sec)
    => Known(TakeSolution(q, "_NUM_UNALLOCATED", d), p, d[1], t, c, n, s, sec)
<1> SUFFICES ASSUME NEW q, NEW p, NEW l, NEW t, NEW c, NEW n, NEW s, NEW sec, NEW d,
                    Known(q, p, l, t, c, n, s, sec)
             PROVE  Known(TakeSolution(q, "_NUM_UNALLOCATED", d), p, d[1], t, c, n, s, sec)
  OBVIOUS
<1>1. PICK e : e = d[1]
  OBVIOUS
<1>2. TakeSolution(q, "_NUM_UNALLOCATED", d) = [q EXCEPT !.unallocatedVessels = e]
  BY <1>1 DEF TakeSolution
<1>3. Known([q EXCEPT !.unallocatedVessels = e], p, e, t, c, n, s, sec)
  BY DEF Known, Whole, Same
<1> QED
  BY <1>1, <1>2, <1>3, Zenon

LEMMA TakeObjective ==
  \A q, p, l, t, c, n, s, sec, d : Known(q, p, l, t, c, n, s, sec)
    => Known(TakeSolution(q, "_OBJECTIVE_VALUE", d), p, l, d[1], c, n, s, sec)
<1> SUFFICES ASSUME NEW q, NEW p, NEW l, NEW t, NEW c, NEW n, NEW s, NEW sec, NEW d,
                    Known(q, p, l, t, c, n, s, sec)
             PROVE  Known(TakeSolution(q, "_OBJECTIVE_VALUE", d), p, l, d[1], c, n, s, sec)
  OBVIOUS
<1>1. PICK e : e = d[1]
  OBVIOUS
<1>2. TakeSolution(q, "_OBJECTIVE_VALUE", d) = [q EXCEPT !.objectiveValue = e]
  BY <1>1 DEF TakeSolution
<1>3. Known([q EXCEPT !.objectiveValue = e], p, l, e, c, n, s, sec)
  BY DEF Known, Whole, Same
<1> QED
  BY <1>1, <1>2, <1>3, Zenon

LEMMA TakeTranshipment ==
  \A q, p, l, t, c, n, s, sec, d : Known(q, p, l, t, c, n, s, sec)
    => Known(TakeSolution(q, "_TRANSHIPMENT_VALUE", d), p, l, t, d[1], n, s, sec)
<1> SUFFICES ASSUME NEW q, NEW p, NEW l, NEW t, NEW c, NEW n, NEW s, NEW sec, NEW d,
                    Known(q, p, l, t, c, n, s, sec)
             PROVE  Known(TakeSolution(q, "_TRANSHIPMENT_VALUE", d), p, l, t, d[1], n, s, sec)
  OBVIOUS
<1>1. PICK e : e = d[1]
  OBVIOUS
<1>2. TakeSolution(q, "_TRANSHIPMENT_VALUE", d) = [q EXCEPT !.transhipmentCost = e]
  BY <1>1 DEF TakeSolution
<1>3. Known([q EXCEPT !.transhipmentCost = e], p, l, t, e, n, s, sec)
  BY DEF Known, Whole, Same
<1> QED
  BY <1>1, <1>2, <1>3, Zenon

LEMMA TakePenalty ==
  \A q, p, l, t, c, n, s, sec, d : Known(q, p, l, t, c, n, s, sec)
    => Known(TakeSolution(q, "_PENALTY_VALUE", d), p, l, t, c, d[1], s, sec)
<1> SUFFICES ASSUME NEW q, NEW p, NEW l, NEW t, NEW c, NEW n, NEW s, NEW sec, NEW d,
                    Known(q, p, l, t, c, n, s, sec)
             PROVE  Known(TakeSolution(q, "_PENALTY_VALUE", d), p, l, t, c, d[1], s, sec)
  OBVIOUS
<1>1. PICK e : e = d[1]
  OBVIOUS
<1>2. TakeSolution(q, "_PENALTY_VALUE", d) = [q EXCEPT !.penalty = e]
  BY <1>1 DEF TakeSolution
<1>3. Known([q EXCEPT !.penalty = e], p, l, t, c, e, s, sec)
  BY DEF Known, Whole, Same
<1> QED
  BY <1>1, <1>2, <1>3, Zenon

LEMMA TakeVessels ==
  \A q, p, l, t, c, n, s, sec, d :
    Known(q, p, l, t, c, n, s, sec) /\ d[1] = NumVessels(p) + 1
      => Known(TakeSolution(q, "_NUM_VESSELS", d), p, l, t, c, n, TRUE, sec)
<1> TAKE q, p, l, t, c, n, s, sec, d
<1> HAVE Known(q, p, l, t, c, n, s, sec) /\ d[1] = NumVessels(p) + 1
<1>1. NumVessels(q) = NumVessels(p)
  BY Zenon DEF Known, Same, NumVessels
<1>2. (d[1] = NumVessels(q) + 1) = TRUE
  BY <1>1
<1>3. TakeSolution(q, "_NUM_VESSELS", d) = [q EXCEPT !.sound = d[1] = NumVessels(q) + 1]
  BY Zenon DEF TakeSolution
<1>4. TakeSolution(q, "_NUM_VESSELS", d) = [q EXCEPT !.sound = TRUE]
  BY <1>2, <1>3, Zenon
<1>5. Known([q EXCEPT !.sound = TRUE], p, l, t, c, n, TRUE, sec)
  BY DEF Known, Whole, Same
<1> QED
  BY <1>4, <1>5, Zenon

LEMMA TakeNothing ==
  \A q, d : /\ TakeSolution(q, "_TIME_TAKEN", d) = q
            /\ TakeSolution(q, "_UNALLOCATED_VESSELS", d) = q
            /\ d[1] = 0 => TakeSolution(q, "_ALLOCATION", d) = q
BY Zenon DEF TakeSolution

\* Vessel i gets section k.
PutAt(sec, sec2, i, k) == sec2 = [sec EXCEPT ![i] = k]

LEMMA TakeAllocation ==
  \A q, p, l, t, c, n, s, sec, sec2, d, i :
    Known(q, p, l, t, c, n, s, sec) /\ d[1] = i /\ i # 0 /\ PutAt(sec, sec2, i, d[2])
      => Known(TakeSolution(q, "_ALLOCATION", d), p, l, t, c, n, s, sec2)
<1> SUFFICES ASSUME NEW q, NEW p, NEW l, NEW t, NEW c, NEW n, NEW s, NEW sec, NEW sec2, NEW d,
                    NEW i, Known(q, p, l, t, c, n, s, sec), d[1] = i, i # 0,
                    PutAt(sec, sec2, i, d[2])
             PROVE  Known(TakeSolution(q, "_ALLOCATION", d), p, l, t, c, n, s, sec2)
  OBVIOUS
<1>1. PICK e, m : e = d[2] /\ m = d[3]
  OBVIOUS
<1>2. TakeSolution(q, "_ALLOCATION", d) = [q EXCEPT !.section[i] = e, !.wharfmark[i] = m]
  BY <1>1 DEF TakeSolution
<1>3. Known([q EXCEPT !.section[i] = e, !.wharfmark[i] = m], p, l, t, c, n, s, [sec EXCEPT ![i] = e])
  BY DEF Known, Whole, Same
<1>4. sec2 = [sec EXCEPT ![i] = e]
  BY <1>1, Zenon DEF PutAt
<1> QED
  BY <1>2, <1>3, <1>4, Zenon

\* The reader goes through the lines of F.
Reads(st, F, M) == M \in Nat /\ \A n \in 1..M : st[n] = ReadLine(st[n - 1], F[n])

LEMMA ReadsSteps ==
  \A st, init, F, M : M \in Nat /\ Steps(st, init, "read", {}, F, M) => Reads(st, F, M) /\ st[0] = init
<1> SUFFICES ASSUME NEW st, NEW init, NEW F, NEW M \in Nat, Steps(st, init, "read", {}, F, M)
             PROVE  Reads(st, F, M) /\ st[0] = init
  OBVIOUS
<1>1. \A s, line : Step("read", {}, s, line) = ReadLine(s, line)
  <2>1. "read" # "sweep"
    OBVIOUS
  <2> QED
    BY <2>1, Zenon DEF Step
<1> QED
  BY <1>1, Zenon DEF Steps, Reads

\* The reader is at a row of keyword w and knows what Known() says.
Stands(acc, w, p, l, t, c, n, s, sec) ==
  Reading(acc) /\ acc.mode = w /\ Known(acc.value, p, l, t, c, n, s, sec)

TwoLines(j, k, m, M) == j \in Nat /\ M \in Nat /\ k = j + 1 /\ m = j + 2 /\ m <= M

\* The row d of keyword w is taken between lines j and m.
Taken(st, j, m, w, d) ==
  Reading(st[m]) /\ st[m].mode = w /\ st[m].value = TakeSolution(st[j].value, w, d)

\* What is read of a keyword, and of a row.
AfterWord(acc, acc2, w) == Reading(acc2) /\ acc2.mode = w /\ acc2.value = acc.value
AfterRow(acc, acc2, d) ==
  Reading(acc2) /\ acc2.mode = acc.mode /\ acc2.value = TakeSolution(acc.value, acc.mode, d)

LEMMA ReadsWord ==
  \A acc, line, w : Reading(acc) /\ IsWord(line, w) => AfterWord(acc, ReadLine(acc, line), w)
BY WordRead DEF AfterWord

LEMMA ReadsRow ==
  \A acc, line, d : Reading(acc) /\ IsRow(line, d) => AfterRow(acc, ReadLine(acc, line), d)
BY RowRead DEF AfterRow

\* A keyword and its row are two steps of the reader.
LEMMA PairTaken ==
  \A st, F, M, j, k, m, w, d :
    Reads(st, F, M) /\ TwoLines(j, k, m, M) /\ Reading(st[j]) /\ Pair(F, k, w, d)
      => Taken(st, j, m, w, d)
<1> SUFFICES ASSUME NEW st, NEW F, NEW M, NEW j, NEW k, NEW m, NEW w, NEW d,
                    Reads(st, F, M), TwoLines(j, k, m, M), Reading(st[j]), Pair(F, k, w, d)
             PROVE  Taken(st, j, m, w, d)
  OBVIOUS
<1>1. k \in 1..M /\ m \in 1..M /\ k - 1 = j /\ m - 1 = k /\ k + 1 = m
  BY DEF TwoLines
<1>2. st[k] = ReadLine(st[j], F[k]) /\ st[m] = ReadLine(st[k], F[m])
  <2>1. st[k] = ReadLine(st[k - 1], F[k]) /\ st[m] = ReadLine(st[m - 1], F[m])
    BY <1>1, Zenon DEF Reads
  <2> QED
    BY <1>1, <2>1, Zenon
<1>3. IsWord(F[k], w) /\ IsRow(F[m], d)
  BY <1>1, Zenon DEF Pair
<1>4. AfterWord(st[j], ReadLine(st[j], F[k]), w)
  BY <1>3, ReadsWord, Zenon
<1>5. AfterWord(st[j], st[k], w)
  BY <1>2, <1>4, Zenon
<1>6. AfterRow(st[k], ReadLine(st[k], F[m]), d)
  BY <1>3, <1>5, ReadsRow, Zenon DEF AfterWord
<1>7. AfterRow(st[k], st[m], d)
  BY <1>2, <1>6, Zenon
<1> QED
  BY <1>5, <1>7, Zenon DEF AfterWord, AfterRow, Taken

\* The header is read first.
LEMMA HeaderRead ==
  ASSUME NEW st, NEW F, NEW M, Reads(st, F, M), 14 <= M, NEW p,
         NEW l, NEW t, NEW c, NEW n, NEW s, NEW sec,
         Reading(st[0]), Known(st[0].value, p, l, t, c, n, s, sec),
         NEW left, NEW V, V = NumVessels(p), NEW total, NEW cost, NEW penalty,
         Header(F, left, V, total, cost, penalty)
  PROVE  Stands(st[14], "_ALLOCATION", p, left, total, cost, penalty, TRUE, sec)
<1>1. /\ TwoLines(0, 1, 2, M) /\ TwoLines(2, 3, 4, M) /\ TwoLines(4, 5, 6, M) /\ TwoLines(6, 7, 8, M)
      /\ TwoLines(8, 9, 10, M) /\ TwoLines(10, 11, 12, M) /\ TwoLines(12, 13, 14, M)
  <2>1. M \in Nat /\ 14 <= M
    BY DEF Reads
  <2> QED
    BY <2>1 DEF TwoLines
<1>2. PICK d1, d2, d3, d4, d5, d6, d7 :
        /\ d1 = <<left>> /\ d2 = <<V + 1>> /\ d3 = <<total>> /\ d4 = <<cost>>
        /\ d5 = <<penalty>> /\ d6 = <<0>> /\ d7 = <<0, 0, 0, 0, 0>>
  OBVIOUS
<1>3. /\ d1[1] = left /\ d2[1] = NumVessels(p) + 1 /\ d3[1] = total /\ d4[1] = cost
      /\ d5[1] = penalty /\ d7[1] = 0
  BY <1>2
<1>4. /\ Pair(F, 1, "_NUM_UNALLOCATED", d1) /\ Pair(F, 3, "_NUM_VESSELS", d2)
      /\ Pair(F, 5, "_OBJECTIVE_VALUE", d3) /\ Pair(F, 7, "_TRANSHIPMENT_VALUE", d4)
      /\ Pair(F, 9, "_PENALTY_VALUE", d5) /\ Pair(F, 11, "_TIME_TAKEN", d6)
      /\ Pair(F, 13, "_ALLOCATION", d7)
  BY <1>2, Zenon DEF Header
<1>5. Reading(st[2]) /\ Known(st[2].value, p, left, t, c, n, s, sec)
  <2>1. Reading(st[2]) /\ st[2].value = TakeSolution(st[0].value, "_NUM_UNALLOCATED", d1)
    <3>1. Taken(st, 0, 2, "_NUM_UNALLOCATED", d1)
      BY <1>1, <1>4, PairTaken, Zenon
    <3> QED
      BY <3>1, Zenon DEF Taken
  <2>2. Known(TakeSolution(st[0].value, "_NUM_UNALLOCATED", d1), p, d1[1], t, c, n, s, sec)
    BY TakeUnallocated, Zenon
  <2> QED
    BY <1>3, <2>1, <2>2, Zenon
<1>6. Reading(st[4]) /\ Known(st[4].value, p, left, t, c, n, TRUE, sec)
  <2>1. Reading(st[4]) /\ st[4].value = TakeSolution(st[2].value, "_NUM_VESSELS", d2)
    <3>1. Taken(st, 2, 4, "_NUM_VESSELS", d2)
      BY <1>1, <1>4, <1>5, PairTaken, Zenon
    <3> QED
      BY <3>1, Zenon DEF Taken
  <2>2. Known(TakeSolution(st[2].value, "_NUM_VESSELS", d2), p, left, t, c, n, TRUE, sec)
    BY <1>3, <1>5, TakeVessels, Zenon
  <2> QED
    BY <2>1, <2>2, Zenon
<1>7. Reading(st[6]) /\ Known(st[6].value, p, left, total, c, n, TRUE, sec)
  <2>1. Reading(st[6]) /\ st[6].value = TakeSolution(st[4].value, "_OBJECTIVE_VALUE", d3)
    <3>1. Taken(st, 4, 6, "_OBJECTIVE_VALUE", d3)
      BY <1>1, <1>4, <1>6, PairTaken, Zenon
    <3> QED
      BY <3>1, Zenon DEF Taken
  <2>2. Known(TakeSolution(st[4].value, "_OBJECTIVE_VALUE", d3), p, left, d3[1], c, n, TRUE, sec)
    BY <1>6, TakeObjective, Zenon
  <2> QED
    BY <1>3, <2>1, <2>2, Zenon
<1>8. Reading(st[8]) /\ Known(st[8].value, p, left, total, cost, n, TRUE, sec)
  <2>1. Reading(st[8]) /\ st[8].value = TakeSolution(st[6].value, "_TRANSHIPMENT_VALUE", d4)
    <3>1. Taken(st, 6, 8, "_TRANSHIPMENT_VALUE", d4)
      BY <1>1, <1>4, <1>7, PairTaken, Zenon
    <3> QED
      BY <3>1, Zenon DEF Taken
  <2>2. Known(TakeSolution(st[6].value, "_TRANSHIPMENT_VALUE", d4), p, left, total, d4[1], n, TRUE, sec)
    BY <1>7, TakeTranshipment, Zenon
  <2> QED
    BY <1>3, <2>1, <2>2, Zenon
<1>9. Reading(st[10]) /\ Known(st[10].value, p, left, total, cost, penalty, TRUE, sec)
  <2>1. Reading(st[10]) /\ st[10].value = TakeSolution(st[8].value, "_PENALTY_VALUE", d5)
    <3>1. Taken(st, 8, 10, "_PENALTY_VALUE", d5)
      BY <1>1, <1>4, <1>8, PairTaken, Zenon
    <3> QED
      BY <3>1, Zenon DEF Taken
  <2>2. Known(TakeSolution(st[8].value, "_PENALTY_VALUE", d5), p, left, total, cost, d5[1], TRUE, sec)
    BY <1>8, TakePenalty, Zenon
  <2> QED
    BY <1>3, <2>1, <2>2, Zenon
<1>10. Reading(st[12]) /\ Known(st[12].value, p, left, total, cost, penalty, TRUE, sec)
  <2>1. Reading(st[12]) /\ st[12].value = TakeSolution(st[10].value, "_TIME_TAKEN", d6)
    <3>1. Taken(st, 10, 12, "_TIME_TAKEN", d6)
      BY <1>1, <1>4, <1>9, PairTaken, Zenon
    <3> QED
      BY <3>1, Zenon DEF Taken
  <2>2. TakeSolution(st[10].value, "_TIME_TAKEN", d6) = st[10].value
    BY TakeNothing, Zenon
  <2> QED
    BY <1>9, <2>1, <2>2, Zenon
<1>11. /\ Reading(st[14]) /\ st[14].mode = "_ALLOCATION"
       /\ Known(st[14].value, p, left, total, cost, penalty, TRUE, sec)
  <2>1. /\ Reading(st[14]) /\ st[14].mode = "_ALLOCATION"
        /\ st[14].value = TakeSolution(st[12].value, "_ALLOCATION", d7)
    <3>1. Taken(st, 12, 14, "_ALLOCATION", d7)
      BY <1>1, <1>4, <1>10, PairTaken, Zenon
    <3> QED
      BY <3>1, Zenon DEF Taken
  <2>2. TakeSolution(st[12].value, "_ALLOCATION", d7) = st[12].value
    BY <1>3, TakeNothing, Zenon
  <2> QED
    BY <1>10, <2>1, <2>2, Zenon
<1> QED
  BY <1>11, Zenon DEF Stands

\* The sections of the vessels in T, as they are read.
Partial(V, T, at) == [v \in 1..V |-> IF v \in T THEN at[v] ELSE UNASSIGNED]
Adds(T, T2, i) == T2 = T \cup {i}
FirstOf(A, n) == {Nth(A, m) : m \in 1..n}

LEMMA PartialPuts ==
  \A V, T, T2, at, i : i \in 1..V /\ Adds(T, T2, i)
    => PutAt(Partial(V, T, at), Partial(V, T2, at), i, at[i])
<1> TAKE V, T, T2, at, i
<1> HAVE i \in 1..V /\ Adds(T, T2, i)
<1>1. PICK f, g, h : /\ f = Partial(V, T, at) /\ g = Partial(V, T2, at)
                     /\ h = [f EXCEPT ![i] = at[i]]
  OBVIOUS
<1>2. f = [v \in 1..V |-> IF v \in T THEN at[v] ELSE UNASSIGNED]
  BY <1>1, Zenon DEF Partial
<1>3. g = [v \in 1..V |-> IF v \in T2 THEN at[v] ELSE UNASSIGNED]
  BY <1>1, Zenon DEF Partial
<1>4. \A v : v \in T2 <=> v \in T \/ v = i
  BY Zenon DEF Adds
<1>5. h = [v \in 1..V |-> IF v = i THEN at[i] ELSE f[v]]
  BY <1>1, <1>2
<1>6. \A v \in 1..V : g[v] = h[v]
  <2> TAKE v \in 1..V
  <2>1. g[v] = IF v \in T2 THEN at[v] ELSE UNASSIGNED
    BY <1>3, Zenon
  <2>2. f[v] = IF v \in T THEN at[v] ELSE UNASSIGNED
    BY <1>2, Zenon
  <2>3. h[v] = IF v = i THEN at[i] ELSE f[v]
    BY <1>5, Zenon
  <2> QED
    BY <1>4, <2>1, <2>2, <2>3, Zenon
<1>7. g = h
  BY <1>3, <1>5, <1>6
<1> QED
  BY <1>1, <1>7, Zenon DEF PutAt

LEMMA FirstAdds == \A A : \A n \in Nat : Adds(FirstOf(A, n), FirstOf(A, n + 1), Nth(A, n + 1))
<1> SUFFICES ASSUME NEW A, NEW n \in Nat
             PROVE  FirstOf(A, n + 1) = FirstOf(A, n) \cup {Nth(A, n + 1)}
  BY DEF Adds
<1>1. 1..n + 1 = 1..n \cup {n + 1}
  OBVIOUS
<1> QED
  BY <1>1 DEF FirstOf

LEMMA RowsRead ==
  ASSUME NEW st, NEW F, NEW M, Reads(st, F, M), NEW p, NEW at, NEW V \in Nat,
         NEW A \in SUBSET (1..V), Body(F, M, at, A),
         NEW l, NEW t, NEW c, NEW n, NEW s, NEW sec, sec = [v \in 1..V |-> UNASSIGNED],
         Stands(st[14], "_ALLOCATION", p, l, t, c, n, s, sec)
  PROVE  Known(st[M].value, p, l, t, c, n, s, Partial(V, A, at))
<1>1. PICK N, a : N = Cardinality(A) /\ a = 14 + N
  OBVIOUS
<1>2. /\ N \in Nat /\ a <= M /\ M \in Nat /\ a \in Nat
      /\ \A k \in 1..N : VesselLine(F[14 + k], Nth(A, k), at)
      /\ Ignored(F, a, M)
  <2>1. N \in Nat /\ a <= M /\ M \in Nat
    BY <1>1 DEF Body, Numbered
  <2>2. (\A k \in 1..N : VesselLine(F[14 + k], Nth(A, k), at)) /\ Ignored(F, a, M)
    BY <1>1, Zenon DEF Body
  <2>3. a \in Nat
    BY <1>1, <2>1
  <2> QED
    BY <2>1, <2>2, <2>3
<1>3. /\ \A k \in 1..N : Nth(A, k) \in A
      /\ \A i \in A : \E k \in 1..N : Nth(A, k) = i
  BY <1>1, NthLists
<1> DEFINE P(k) == k <= N => Stands(st[14 + k], "_ALLOCATION", p, l, t, c, n, s,
                                    Partial(V, FirstOf(A, k), at))
           B == {k \in Nat : P(k)}
<1>4. P(0)
  <2>1. FirstOf(A, 0) = {} /\ 14 + 0 = 14
    BY DEF FirstOf
  <2>2. Partial(V, {}, at) = sec
    BY DEF Partial
  <2> QED
    BY <2>1, <2>2, Zenon
<1>5. ASSUME NEW k \in Nat, P(k)
      PROVE  P(k + 1)
  <2> SUFFICES ASSUME k + 1 <= N
               PROVE  Stands(st[14 + (k + 1)], "_ALLOCATION", p, l, t, c, n, s,
                             Partial(V, FirstOf(A, k + 1), at))
    OBVIOUS
  <2>1. PICK i, j, h, g, T, T2 :
          /\ i = Nth(A, k + 1) /\ j = 14 + k /\ h = 14 + (k + 1) /\ g = k + 1
          /\ T = FirstOf(A, k) /\ T2 = FirstOf(A, k + 1)
    OBVIOUS
  <2>2. k <= N /\ h \in 1..M /\ h - 1 = j /\ g \in 1..N
    BY <1>1, <1>2, <2>1
  <2>3. Stands(st[j], "_ALLOCATION", p, l, t, c, n, s, Partial(V, T, at))
    BY <1>5, <2>1, <2>2, Zenon
  <2>4. st[h] = ReadLine(st[j], F[h])
    <3>1. st[h] = ReadLine(st[h - 1], F[h])
      BY <2>2, Zenon DEF Reads
    <3> QED
      BY <2>2, <3>1, Zenon
  <2>5. VesselLine(F[h], i, at)
    BY <1>2, <2>1, <2>2, Zenon
  <2>6. PICK d : IsRow(F[h], d) /\ d[1] = i /\ d[2] = at[i]
    BY <2>5, Zenon DEF VesselLine
  <2>7. i \in 1..V /\ i # 0
    <3>1. i \in A
      BY <1>3, <2>1, <2>2, Zenon
    <3> QED
      BY <3>1
  <2>8. PutAt(Partial(V, T, at), Partial(V, T2, at), i, at[i])
    BY <2>1, <2>7, FirstAdds, PartialPuts, Zenon
  <2>9. Reading(st[j]) /\ st[j].mode = "_ALLOCATION"
        /\ Known(st[j].value, p, l, t, c, n, s, Partial(V, T, at))
    BY <2>3, Zenon DEF Stands
  <2>10. Reading(st[h]) /\ st[h].mode = "_ALLOCATION"
         /\ st[h].value = TakeSolution(st[j].value, "_ALLOCATION", d)
    <3>1. AfterRow(st[j], ReadLine(st[j], F[h]), d)
      BY <2>6, <2>9, ReadsRow, Zenon
    <3>2. AfterRow(st[j], st[h], d)
      BY <2>4, <3>1, Zenon
    <3> QED
      BY <2>9, <3>2, Zenon DEF AfterRow
  <2>11. PutAt(Partial(V, T, at), Partial(V, T2, at), i, d[2])
    BY <2>6, <2>8, Zenon
  <2>12. Known(TakeSolution(st[j].value, "_ALLOCATION", d), p, l, t, c, n, s, Partial(V, T2, at))
    BY <2>6, <2>7, <2>9, <2>11, TakeAllocation, Zenon
  <2> QED
    BY <2>1, <2>10, <2>12, Zenon DEF Stands
<1>6. \A k \in Nat : k \in B
  <2> HIDE DEF P
  <2>1. \A k \in Nat : (\A m \in Nat : m < k => m \in B) => k \in B
    <3> SUFFICES ASSUME NEW k \in Nat, \A m \in Nat : m < k => m \in B
                 PROVE  P(k)
      OBVIOUS
    <3>1. CASE k = 0
      BY <1>4, <3>1
    <3>2. CASE k # 0
      <4>1. k - 1 \in Nat /\ k - 1 < k /\ (k - 1) + 1 = k
        BY <3>2
      <4>2. P(k - 1)
        BY <4>1
      <4> QED
        BY <1>5, <4>1, <4>2
    <3> QED
      BY <3>1, <3>2
  <2> HIDE DEF B
  <2>2. B \in SUBSET Nat
    BY DEF B
  <2> QED
    BY <2>1, <2>2, Induction
<1>7. Stands(st[a], "_ALLOCATION", p, l, t, c, n, s, Partial(V, A, at))
  <2>1. P(N)
    BY <1>2, <1>6
  <2>2. N <= N
    BY <1>2
  <2>3. FirstOf(A, N) = A
    BY <1>3 DEF FirstOf
  <2> QED
    BY <1>1, <2>1, <2>2, <2>3, Zenon
<1> HIDE DEF P, B
<1>8. CASE a = M
  BY <1>7, <1>8, Zenon DEF Stands
<1>9. CASE a # M
  <2> DEFINE Q(k) == a + 1 + k <= M =>
                       Stands(st[a + 1 + k], "_UNALLOCATED_VESSELS", p, l, t, c, n, s, Partial(V, A, at))
             C == {k \in Nat : Q(k)}
  <2>1. /\ IsWord(F[a + 1], "_UNALLOCATED_VESSELS")
        /\ \A k \in a + 2..M : \E d : IsRow(F[k], d)
    BY <1>2, <1>9, Zenon DEF Ignored
  <2>2. Q(0)
    <3>1. PICK h : h = a + 1
      OBVIOUS
    <3>2. a + 1 + 0 = h /\ h \in 1..M /\ h - 1 = a
      BY <1>2, <1>9, <3>1
    <3>3. st[h] = ReadLine(st[a], F[h])
      <4>1. st[h] = ReadLine(st[h - 1], F[h])
        BY <3>2, Zenon DEF Reads
      <4> QED
        BY <3>2, <4>1, Zenon
    <3>4. IsWord(F[h], "_UNALLOCATED_VESSELS")
      BY <2>1, <3>1, Zenon
    <3>5. Reading(st[a]) /\ Known(st[a].value, p, l, t, c, n, s, Partial(V, A, at))
      BY <1>7, Zenon DEF Stands
    <3>6. Reading(st[h]) /\ st[h].mode = "_UNALLOCATED_VESSELS" /\ st[h].value = st[a].value
      <4>1. AfterWord(st[a], ReadLine(st[a], F[h]), "_UNALLOCATED_VESSELS")
        BY <3>4, <3>5, ReadsWord, Zenon
      <4>2. AfterWord(st[a], st[h], "_UNALLOCATED_VESSELS")
        BY <3>3, <4>1, Zenon
      <4> QED
        BY <4>2, Zenon DEF AfterWord
    <3>7. Stands(st[h], "_UNALLOCATED_VESSELS", p, l, t, c, n, s, Partial(V, A, at))
      BY <3>5, <3>6, Zenon DEF Stands
    <3> QED
      BY <3>2, <3>7, Zenon
  <2>3. ASSUME NEW k \in Nat, Q(k)
        PROVE  Q(k + 1)
    <3> SUFFICES ASSUME a + 1 + (k + 1) <= M
                 PROVE  Stands(st[a + 1 + (k + 1)], "_UNALLOCATED_VESSELS", p, l, t, c, n, s,
                               Partial(V, A, at))
      OBVIOUS
    <3>1. PICK j, h : j = a + 1 + k /\ h = a + 1 + (k + 1)
      OBVIOUS
    <3>2. j <= M /\ h \in 1..M /\ h \in a + 2..M /\ h - 1 = j
      BY <1>2, <3>1
    <3>3. st[h] = ReadLine(st[j], F[h])
      <4>1. st[h] = ReadLine(st[h - 1], F[h])
        BY <3>2, Zenon DEF Reads
      <4> QED
        BY <3>2, <4>1, Zenon
    <3>4. Stands(st[j], "_UNALLOCATED_VESSELS", p, l, t, c, n, s, Partial(V, A, at))
      BY <2>3, <3>1, <3>2, Zenon
    <3>5. PICK d : IsRow(F[h], d)
      BY <2>1, <3>2, Zenon
    <3>6. Reading(st[j]) /\ st[j].mode = "_UNALLOCATED_VESSELS"
          /\ Known(st[j].value, p, l, t, c, n, s, Partial(V, A, at))
      BY <3>4, Zenon DEF Stands
    <3>7. /\ Reading(st[h]) /\ st[h].mode = "_UNALLOCATED_VESSELS"
          /\ st[h].value = TakeSolution(st[j].value, "_UNALLOCATED_VESSELS", d)
      <4>1. AfterRow(st[j], ReadLine(st[j], F[h]), d)
        BY <3>5, <3>6, ReadsRow, Zenon
      <4>2. AfterRow(st[j], st[h], d)
        BY <3>3, <4>1, Zenon
      <4> QED
        BY <3>6, <4>2, Zenon DEF AfterRow
    <3>8. st[h].value = st[j].value
      BY <3>7, TakeNothing, Zenon
    <3> QED
      BY <3>1, <3>6, <3>7, <3>8, Zenon DEF Stands
  <2>4. \A k \in Nat : k \in C
    <3> HIDE DEF Q
    <3>1. \A k \in Nat : (\A m \in Nat : m < k => m \in C) => k \in C
      <4> SUFFICES ASSUME NEW k \in Nat, \A m \in Nat : m < k => m \in C
                   PROVE  Q(k)
        OBVIOUS
      <4>1. CASE k = 0
        BY <2>2, <4>1
      <4>2. CASE k # 0
        <5>1. k - 1 \in Nat /\ k - 1 < k /\ (k - 1) + 1 = k
          BY <4>2
        <5>2. Q(k - 1)
          BY <5>1
        <5> QED
          BY <2>3, <5>1, <5>2
      <4> QED
        BY <4>1, <4>2
    <3> HIDE DEF C
    <3>2. C \in SUBSET Nat
      BY DEF C
    <3> QED
      BY <3>1, <3>2, Induction
  <2>5. PICK k \in Nat : a + 1 + k = M
    <3>1. M - (a + 1) \in Nat /\ a + 1 + (M - (a + 1)) = M
      BY <1>2, <1>9
    <3> QED
      BY <3>1
  <2>6. Q(k)
    BY <2>4
  <2>7. a + 1 + k <= M
    BY <1>2, <2>5
  <2>8. Stands(st[M], "_UNALLOCATED_VESSELS", p, l, t, c, n, s, Partial(V, A, at))
    BY <2>5, <2>6, <2>7, Zenon
  <2> QED
    BY <2>8, Zenon DEF Stands
<1> QED
  BY <1>8, <1>9

(* What the package computes of the solution.                              *)

\* Two sums with the same terms but for zeros.
LEMMA SumsAgree ==
  \A f, g, c, A, B, V : Masks(f, c, A, V) /\ Masks(g, c, B, V)
    => SumFunction(f) = SumFunction(g) /\ SumFunction(g) \in Int
<1> SUFFICES ASSUME NEW f, NEW g, NEW c, NEW A, NEW B, NEW V, Masks(f, c, A, V), Masks(g, c, B, V)
             PROVE  SumFunction(f) = SumFunction(g) /\ SumFunction(g) \in Int
  OBVIOUS
<1>1. SumFunction(f) = SumFunctionOnSet(c, V) /\ SumFunctionOnSet(c, V) \in Int
  BY SumMasked, Zenon
<1>2. SumFunction(g) = SumFunctionOnSet(c, V)
  BY SumMasked, Zenon
<1> QED
  BY <1>1, <1>2, Zenon

LEMMA TwoWays ==
  \A a, b, d \in Nat : /\ a * d + b * d = (a + b) * d /\ (a + b) * d \in Int
                       /\ (a = 0 /\ b = 0 => (a + b) * d = 0)
OBVIOUS

\* What the package says of a pair of vessels and of a vessel and the port.
LEMMA PairRead ==
  ASSUME NEW p, Good(p), SymmetricDistances(p), NEW at, Places(p, at),
         NEW i \in VesselIDs(p), at[i] # UNASSIGNED
  PROVE  /\ p.trans[<<i, 0>>] * p.sect.dist[<<at[i], 0>>] + p.trans[<<0, i>>] * p.sect.dist[<<0, at[i]>>]
              = PortFlowOf(p, i) * Distance(p, at[i], 0)
         /\ PortFlowOf(p, i) * Distance(p, at[i], 0) \in Int
         /\ \A j \in VesselIDs(p) : at[j] # UNASSIGNED =>
              /\ p.trans[<<i, j>>] * p.sect.dist[<<at[i], at[j]>>]
                   + p.trans[<<j, i>>] * p.sect.dist[<<at[j], at[i]>>]
                   = FlowOf(p, i, j) * Distance(p, at[i], at[j])
              /\ FlowOf(p, i, j) * Distance(p, at[i], at[j]) \in Int
              /\ j # i /\ j \notin Neighbours(p, i) => FlowOf(p, i, j) * Distance(p, at[i], at[j]) = 0
<1>1. Usable(p) /\ Charged(p) /\ NumSections(p) \in Nat /\ UNASSIGNED = -1
  BY DEF Good, Usable, UNASSIGNED
<1>2. \A j \in VesselIDs(p) : at[j] # UNASSIGNED => at[j] \in 0..NumSections(p)
  BY <1>1 DEF Places, SectionIDs
<1>3. \A k, l \in 0..NumSections(p) :
        /\ p.sect.dist[<<k, l>>] \in Nat /\ p.sect.dist[<<k, l>>] = p.sect.dist[<<l, k>>]
        /\ Distance(p, k, l) = p.sect.dist[<<k, l>>]
  <2>1. \A k, l \in 0..NumSections(p) : p.sect.dist[<<k, l>>] \in Nat
    BY <1>1, Zenon DEF Charged
  <2>2. \A k, l \in 0..NumSections(p) : p.sect.dist[<<k, l>>] = p.sect.dist[<<l, k>>]
    BY Zenon DEF SymmetricDistances
  <2>3. \A k, l \in 0..NumSections(p) : Distance(p, k, l) = p.sect.dist[<<k, l>>]
    <3>1. \A k \in 0..NumSections(p) : k >= 0
      BY <1>1
    <3> QED
      BY <3>1, Zenon DEF Distance
  <2> QED
    BY <2>1, <2>2, <2>3
<1>4. ASSUME NEW j \in VesselIDs(p) \cup {0}
      PROVE  p.trans[<<i, j>>] \in Nat /\ p.trans[<<j, i>>] \in Nat
  <2>1. {i, j} \subseteq 0..NumVessels(p)
    BY <1>1 DEF VesselIDs, Usable
  <2> QED
    BY <1>1, <2>1 DEF Charged
<1>5. PICK k, d, a, b : /\ k = at[i] /\ d = Distance(p, k, 0)
                        /\ a = p.trans[<<i, 0>>] /\ b = p.trans[<<0, i>>]
  OBVIOUS
<1>6. k \in 0..NumSections(p) /\ 0 \in 0..NumSections(p)
  BY <1>1, <1>2, <1>5
<1>7. /\ p.sect.dist[<<k, 0>>] = d /\ p.sect.dist[<<0, k>>] = d /\ d \in Nat
      /\ a \in Nat /\ b \in Nat
  BY <1>3, <1>4, <1>5, <1>6
<1>8. a * d + b * d = (a + b) * d /\ (a + b) * d \in Int
  BY <1>7, TwoWays
<1>9. ASSUME NEW j \in VesselIDs(p), at[j] # UNASSIGNED
      PROVE  /\ p.trans[<<i, j>>] * p.sect.dist[<<at[i], at[j]>>]
                  + p.trans[<<j, i>>] * p.sect.dist[<<at[j], at[i]>>]
                  = FlowOf(p, i, j) * Distance(p, at[i], at[j])
             /\ FlowOf(p, i, j) * Distance(p, at[i], at[j]) \in Int
             /\ j # i /\ j \notin Neighbours(p, i) => FlowOf(p, i, j) * Distance(p, at[i], at[j]) = 0
  <2>1. PICK l, e, u, v : /\ l = at[j] /\ e = Distance(p, k, l)
                          /\ u = p.trans[<<i, j>>] /\ v = p.trans[<<j, i>>]
    OBVIOUS
  <2>2. l \in 0..NumSections(p)
    BY <1>2, <1>9, <2>1
  <2>3. /\ p.sect.dist[<<k, l>>] = e /\ p.sect.dist[<<l, k>>] = e /\ e \in Nat
        /\ u \in Nat /\ v \in Nat
    BY <1>3, <1>4, <1>6, <2>1, <2>2
  <2>4. /\ u * e + v * e = (u + v) * e /\ (u + v) * e \in Int
        /\ u = 0 /\ v = 0 => (u + v) * e = 0
    BY <2>3, TwoWays
  <2>5. j # i /\ j \notin Neighbours(p, i) => u = 0 /\ v = 0
    BY <2>1, <2>3 DEF Neighbours
  <2>6. FlowOf(p, i, j) = u + v
    BY <2>1, Zenon DEF FlowOf
  <2> QED
    BY <1>5, <2>1, <2>3, <2>4, <2>5, <2>6, Zenon
<1>10. PortFlowOf(p, i) = a + b
  BY <1>5, Zenon DEF PortFlowOf
<1> QED
  BY <1>5, <1>7, <1>8, <1>9, <1>10, Zenon
\* The transhipment that the package computes is the partitioner's.
LEMMA TranshipmentRead ==
  ASSUME NEW p, Good(p), SymmetricDistances(p), NEW at, at = p.section, Places(p, at)
  PROVE  TranshipmentOf(p) = TranshipmentCost(p, at)
<1>1. PICK V, T : V = VesselIDs(p) /\ T = {v \in V : at[v] # UNASSIGNED}
  OBVIOUS
<1>2. /\ IsFiniteSet(V) /\ V \in SUBSET Int /\ T \in SUBSET V
      /\ \A v \in V : v \in T <=> at[v] # UNASSIGNED
  BY <1>1, VesselsFinite DEF Good, Usable, VesselIDs
<1> DEFINE Move(i, k, j, l) == p.trans[<<i, j>>] * p.sect.dist[<<k, l>>]
                                 + p.trans[<<j, i>>] * p.sect.dist[<<l, k>>]
           Js(i) == {j \in T : j > i}
           G(i) == [j \in Js(i) |-> Move(i, at[i], j, at[j])]
           Of(i) == SumFunction(G(i)) + Move(i, at[i], 0, 0)
           Fs(i) == [j \in AfterBoth(p, at, i) |-> FlowOf(p, i, j) * Distance(p, at[i], at[j])]
<1>3. TranshipmentOf(p) = Unsigned(SumFunction([i \in T |-> Of(i)]))
  BY <1>1, Zenon DEF TranshipmentOf, Berthed
<1>4. ASSUME NEW i \in T
      PROVE  Of(i) = MoveCost(p, at, i) /\ MoveCost(p, at, i) \in Int
  <2>1. i \in V /\ i \in VesselIDs(p) /\ at[i] # UNASSIGNED
    BY <1>1, <1>2
  <2>2. /\ Move(i, at[i], 0, 0) = PortFlowOf(p, i) * Distance(p, at[i], 0)
        /\ PortFlowOf(p, i) * Distance(p, at[i], 0) \in Int
        /\ \A j \in VesselIDs(p) : at[j] # UNASSIGNED =>
             /\ Move(i, at[i], j, at[j]) = FlowOf(p, i, j) * Distance(p, at[i], at[j])
             /\ FlowOf(p, i, j) * Distance(p, at[i], at[j]) \in Int
             /\ j # i /\ j \notin Neighbours(p, i) => FlowOf(p, i, j) * Distance(p, at[i], at[j]) = 0
    BY <2>1, PairRead
  <2> DEFINE C(j) == FlowOf(p, i, j) * Distance(p, at[i], at[j])
  <2>3. PICK A, J, f, g, c :
          /\ A = AfterBoth(p, at, i) /\ J = Js(i) /\ f = Fs(i) /\ g = G(i)
          /\ c = [j \in V |-> IF j \in A THEN C(j) ELSE 0]
    OBVIOUS
  <2>4. /\ J \in SUBSET V /\ A \in SUBSET J
        /\ \A j \in J : j \in T /\ j # i
        /\ \A j \in J \ A : j \notin Neighbours(p, i)
    <3>1. J = {j \in T : j > i}
      BY <2>3, Zenon
    <3>2. A = {j \in {j \in Neighbours(p, i) : j > i} : Both(at, i, j)}
      BY <2>3, Zenon DEF AfterBoth
    <3>3. \A j : j \in A <=> j \in Neighbours(p, i) /\ j > i /\ at[j] # UNASSIGNED
      BY <2>1, <3>2 DEF Both
    <3>4. Neighbours(p, i) \in SUBSET V
      BY <1>1 DEF Neighbours
    <3>5. i \in Int
      BY <1>2, <2>1
    <3> QED
      BY <1>2, <3>1, <3>3, <3>4, <3>5
  <2>5. \A j \in J : /\ Move(i, at[i], j, at[j]) = C(j) /\ C(j) \in Int
                     /\ j \notin A => C(j) = 0
    BY <1>1, <1>2, <2>2, <2>4
  <2>6. (\A j \in A : f[j] = C(j)) /\ DOMAIN f = A /\ DOMAIN g = J
        /\ \A j \in J : g[j] = Move(i, at[i], j, at[j])
    BY <2>3
  <2> HIDE DEF Move, C
  <2>7. Masks(f, c, A, V) /\ Masks(g, c, J, V)
    BY <1>2, <2>3, <2>4, <2>5, <2>6 DEF Masks
  <2>8. SumFunction(f) = SumFunction(g) /\ SumFunction(g) \in Int
    BY <2>7, SumsAgree
  <2>9. PICK s, m : s = SumFunction(g) /\ m = PortFlowOf(p, i) * Distance(p, at[i], 0)
    OBVIOUS
  <2>10. Of(i) = s + m
    BY <2>2, <2>3, <2>9, Zenon
  <2>11. MoveCost(p, at, i) = s + m
    BY <2>1, <2>3, <2>8, <2>9, Zenon DEF MoveCost
  <2>12. s \in Int /\ m \in Int
    BY <2>2, <2>8, <2>9, Zenon
  <2> QED
    BY <2>10, <2>11, <2>12
<1>5. ASSUME NEW i \in V \ T
      PROVE  MoveCost(p, at, i) = 0
  <2>1. at[i] = UNASSIGNED
    BY <1>2
  <2>2. AfterBoth(p, at, i) = {}
    BY <2>1 DEF AfterBoth, Both
  <2>3. PICK f : f = [j \in AfterBoth(p, at, i) |-> FlowOf(p, i, j) * Distance(p, at[i], at[j])]
    OBVIOUS
  <2>4. DOMAIN f = {}
    BY <2>2, <2>3
  <2>5. SumFunction(f) = 0
    BY <2>4, SumEmpty, Zenon DEF SumFunction
  <2>6. MoveCost(p, at, i) = SumFunction(f) + 0
    BY <2>1, <2>3, Zenon DEF MoveCost
  <2> QED
    BY <2>5, <2>6
<1>6. PICK f, c : f = [i \in T |-> Of(i)] /\ c = [i \in V |-> MoveCost(p, at, i)]
  OBVIOUS
<1>7. DOMAIN f = T /\ DOMAIN c = V /\ (\A i \in T : f[i] = Of(i))
      /\ \A i \in V : c[i] = MoveCost(p, at, i)
  BY <1>6
<1> HIDE DEF Of
<1>8. Masks(f, c, T, V)
  BY <1>2, <1>4, <1>5, <1>7 DEF Masks
<1>9. SumFunction(f) = SumFunction(c)
  <2>1. SumFunction(f) = SumFunctionOnSet(c, V)
    BY <1>8, SumMasked
  <2> QED
    BY <1>7, <2>1, Zenon DEF SumFunction
<1>10. TranshipmentCost(p, at) = Unsigned(SumFunction(c))
  BY <1>1, <1>6, Zenon DEF TranshipmentCost
<1> QED
  BY <1>3, <1>6, <1>9, <1>10, Zenon

\* So is the penalty.
LEMMA PenaltyRead ==
  ASSUME NEW p, Good(p), NEW at, at = p.section, Places(p, at)
  PROVE  PenaltyOf(p) = PenaltyCost(p, at)
<1>1. PICK V : V = VesselIDs(p)
  OBVIOUS
<1>2. IsFiniteSet(V) /\ V \in SUBSET Int /\ INFINITY \in Nat /\ Usable(p) /\ Charged(p)
  BY <1>1, VesselsFinite, WordAssumption DEF Good, Usable, VesselIDs
<1> DEFINE Flow(i, j) == (p.trans[<<i, j>>] + p.trans[<<j, i>>]) * INFINITY
           Apart(i) == {j \in V : j > i /\ ~(at[i] # UNASSIGNED /\ at[j] # UNASSIGNED)}
           G(i) == [j \in Apart(i) |-> Flow(i, j)]
           Of(i) == SumFunction(G(i)) + (IF at[i] # UNASSIGNED THEN 0 ELSE Flow(i, 0))
           Fs(i) == [j \in AfterNotBoth(p, at, i) |-> FlowOf(p, i, j) * INFINITY]
<1>3. PenaltyOf(p) = Unsigned(SumFunction([i \in V |-> Of(i)]))
  BY <1>1, Zenon DEF PenaltyOf, Berthed
<1>4. ASSUME NEW i \in V
      PROVE  Of(i) = LeftCost(p, at, i)
  <2> DEFINE C(j) == FlowOf(p, i, j) * INFINITY
  <2>1. \A j \in V : Flow(i, j) = C(j)
    BY Zenon DEF FlowOf
  <2>2. Flow(i, 0) = PortFlowOf(p, i) * INFINITY
    BY Zenon DEF PortFlowOf
  <2>3. PICK A, J, f, g, c :
          /\ A = AfterNotBoth(p, at, i) /\ J = Apart(i) /\ f = Fs(i) /\ g = G(i)
          /\ c = [j \in V |-> IF j \in A THEN C(j) ELSE 0]
    OBVIOUS
  <2>4. /\ J \in SUBSET V /\ A \in SUBSET J
        /\ \A j \in J : j # i
        /\ \A j \in J \ A : j \notin Neighbours(p, i)
    <3>1. J = {j \in V : j > i /\ ~(at[i] # UNASSIGNED /\ at[j] # UNASSIGNED)}
      BY <2>3, Zenon
    <3>2. A = {j \in {j \in Neighbours(p, i) : j > i} : ~Both(at, i, j)}
      BY <2>3, Zenon DEF AfterNotBoth
    <3>3. \A j : j \in A <=> j \in Neighbours(p, i) /\ j > i
                               /\ ~(at[i] # UNASSIGNED /\ at[j] # UNASSIGNED)
      BY <3>2 DEF Both
    <3>4. Neighbours(p, i) \in SUBSET V
      BY <1>1 DEF Neighbours
    <3>5. i \in Int
      BY <1>2
    <3> QED
      BY <1>2, <3>1, <3>3, <3>4, <3>5
  <2>5. \A j \in J : C(j) \in Int /\ (j \notin A => C(j) = 0)
    <3> SUFFICES ASSUME NEW j \in J
                 PROVE  C(j) \in Int /\ (j \notin A => C(j) = 0)
      OBVIOUS
    <3>1. PICK u, v : u = p.trans[<<i, j>>] /\ v = p.trans[<<j, i>>]
      OBVIOUS
    <3>2. u \in Nat /\ v \in Nat
      <4>1. {i, j} \subseteq 0..NumVessels(p)
        BY <1>1, <1>2, <2>4 DEF VesselIDs, Usable
      <4> QED
        BY <1>2, <3>1, <4>1 DEF Charged
    <3>3. (u + v) * INFINITY \in Int /\ (u = 0 /\ v = 0 => (u + v) * INFINITY = 0)
      BY <1>2, <3>2, TwoWays
    <3>4. j \notin A => u = 0 /\ v = 0
      <4>1. j \notin A => j \in VesselIDs(p) /\ j # i /\ j \notin Neighbours(p, i)
        BY <1>1, <2>4
      <4> QED
        BY <3>1, <3>2, <4>1 DEF Neighbours
    <3>5. C(j) = (u + v) * INFINITY
      BY <3>1, Zenon DEF FlowOf
    <3> HIDE DEF C
    <3> QED
      BY <3>3, <3>4, <3>5
  <2>6. (\A j \in A : f[j] = C(j)) /\ DOMAIN f = A /\ DOMAIN g = J
        /\ \A j \in J : g[j] = Flow(i, j)
    BY <2>3
  <2>7. \A j \in J : g[j] = C(j)
    BY <2>1, <2>4, <2>6
  <2> HIDE DEF C, Flow
  <2>8. Masks(f, c, A, V) /\ Masks(g, c, J, V)
    BY <1>2, <2>3, <2>4, <2>5, <2>6, <2>7 DEF Masks
  <2>9. SumFunction(f) = SumFunction(g) /\ SumFunction(g) \in Int
    BY <2>8, SumsAgree
  <2>10. Of(i) = SumFunction(g) + (IF at[i] # UNASSIGNED THEN 0 ELSE Flow(i, 0))
    BY <2>3, Zenon
  <2>11. LeftCost(p, at, i) = SumFunction(g) + (IF at[i] = UNASSIGNED THEN Flow(i, 0) ELSE 0)
    BY <2>2, <2>3, <2>9, Zenon DEF LeftCost
  <2> HIDE DEF Of
  <2>12. CASE at[i] = UNASSIGNED
    BY <2>10, <2>11, <2>12, Zenon
  <2>13. CASE at[i] # UNASSIGNED
    BY <2>10, <2>11, <2>13, Zenon
  <2> QED
    BY <2>12, <2>13
<1> HIDE DEF Of
<1>5. [i \in V |-> Of(i)] = [i \in V |-> LeftCost(p, at, i)]
  BY <1>4, Zenon
<1> QED
  BY <1>1, <1>3, <1>5, Zenon DEF PenaltyCost

\* Packages of one project have the same costs and the same room.
LEMMA SameTotals ==
  ASSUME NEW p, NEW q, Same(p, q), NEW at
  PROVE  /\ TranshipmentCost(q, at) = TranshipmentCost(p, at)
         /\ PenaltyCost(q, at) = PenaltyCost(p, at)
<1>1. q.ves = p.ves /\ q.trans = p.trans /\ q.sect = p.sect
  BY Zenon DEF Same
<1>2. VesselIDs(q) = VesselIDs(p)
  BY <1>1, Zenon DEF VesselIDs, NumVessels
<1>3. /\ \A i, j : FlowOf(q, i, j) = FlowOf(p, i, j)
      /\ \A i : PortFlowOf(q, i) = PortFlowOf(p, i)
      /\ \A k, l : Distance(q, k, l) = Distance(p, k, l)
      /\ \A i : Neighbours(q, i) = Neighbours(p, i)
  BY <1>1, <1>2, Zenon DEF FlowOf, PortFlowOf, Distance, Neighbours
<1>4. ASSUME NEW i
      PROVE  MoveCost(q, at, i) = MoveCost(p, at, i) /\ LeftCost(q, at, i) = LeftCost(p, at, i)
  <2>1. AfterBoth(q, at, i) = AfterBoth(p, at, i) /\ AfterNotBoth(q, at, i) = AfterNotBoth(p, at, i)
    BY <1>3, Zenon DEF AfterBoth, AfterNotBoth
  <2>2. [j \in AfterBoth(q, at, i) |-> FlowOf(q, i, j) * Distance(q, at[i], at[j])]
          = [j \in AfterBoth(p, at, i) |-> FlowOf(p, i, j) * Distance(p, at[i], at[j])]
    BY <1>3, <2>1, Zenon
  <2>3. [j \in AfterNotBoth(q, at, i) |-> FlowOf(q, i, j) * INFINITY]
          = [j \in AfterNotBoth(p, at, i) |-> FlowOf(p, i, j) * INFINITY]
    BY <1>3, <2>1, Zenon
  <2>4. MoveCost(q, at, i) = MoveCost(p, at, i)
    BY <1>3, <2>2, Zenon DEF MoveCost
  <2>5. LeftCost(q, at, i) = LeftCost(p, at, i)
    BY <1>3, <2>3, Zenon DEF LeftCost
  <2> QED
    BY <2>4, <2>5
<1>5. /\ [i \in VesselIDs(q) |-> MoveCost(q, at, i)] = [i \in VesselIDs(p) |-> MoveCost(p, at, i)]
      /\ [i \in VesselIDs(q) |-> LeftCost(q, at, i)] = [i \in VesselIDs(p) |-> LeftCost(p, at, i)]
  BY <1>2, <1>4, Zenon
<1> QED
  BY <1>5, Zenon DEF TranshipmentCost, PenaltyCost

LEMMA SameRoom ==
  ASSUME NEW p, NEW q, Same(p, q), NEW at
  PROVE  /\ Zoned(p) => Zoned(q)
         /\ Feasible(p, at) => Feasible(q, at)
         /\ \A k : HeldAt(q, at, k) = HeldAt(p, at, k)
<1>1. q.ves = p.ves /\ q.zones = p.zones /\ q.sect = p.sect
  BY Zenon DEF Same
<1>2. /\ VesselIDs(q) = VesselIDs(p) /\ SectionIDs(q) = SectionIDs(p)
      /\ NumTimeZones(q) = NumTimeZones(p)
  BY <1>1, Zenon DEF VesselIDs, NumVessels, SectionIDs, NumSections, NumTimeZones
<1>3. \A i : Zones(q, i) = Zones(p, i)
  BY <1>1, <1>2, Zenon DEF Zones, StartTimeZone, EndTimeZone, TimeZones
<1>4. \A k : HeldAt(q, at, k) = HeldAt(p, at, k)
  BY <1>2, Zenon DEF HeldAt
<1>5. \A T, z : Needed(q, T, z) = Needed(p, T, z)
  <2> TAKE T, z
  <2>1. {i \in T : z \in Zones(q, i)} = {i \in T : z \in Zones(p, i)}
    BY <1>3
  <2> QED
    BY <1>1, <2>1, Zenon DEF Needed
<1>6. \A k, T : Fits(p, k, T) => Fits(q, k, T)
  BY <1>1, <1>2, <1>5, Zenon DEF Fits
<1>7. Zoned(p) => Zoned(q)
  BY <1>1, <1>2, <1>3, Zenon DEF Zoned
<1>8. Feasible(p, at) => Feasible(q, at)
  BY <1>2, <1>4, <1>6, Zenon DEF Feasible
<1> QED
  BY <1>4, <1>7, <1>8

\* The length that VerifySolution() adds up in a time zone is there.
LEMMA DensityFits ==
  ASSUME NEW p, Good(p), Zoned(p), NEW at, at = p.section, Feasible(p, at),
         NEW k \in SectionIDs(p), NEW z \in 1..NumTimeZones(p)
  PROVE  ~(Density(p, k, z) > p.sect.length[k])
<1>1. PICK S, U, len, room :
        /\ S = {v \in p.zones[z].vessels : at[v] = k}
        /\ U = {i \in HeldAt(p, at, k) : z \in Zones(p, i)}
        /\ len = p.ves.length /\ room = p.sect.length[k]
  OBVIOUS
<1>2. Usable(p) /\ room \in Nat
  BY <1>1 DEF Good, Usable
<1>3. U \in SUBSET VesselIDs(p)
  BY <1>1 DEF HeldAt
<1>4. S \in SUBSET U
  <2>1. \A v \in p.zones[z].vessels : v \in VesselIDs(p) /\ z \in Zones(p, v)
    BY DEF Zoned
  <2> QED
    BY <1>1, <2>1 DEF HeldAt
<1>5. IsFiniteSet(U) /\ \A i \in U : len[i] \in Nat
  BY <1>1, <1>2, <1>3, VesselsFinite DEF Usable
<1>6. SumFunctionOnSet(len, S) <= SumFunctionOnSet(len, U)
  BY <1>4, <1>5, SumMonotone
<1>7. SumFunctionOnSet(len, U) <= room
  <2>1. Fits(p, k, HeldAt(p, at, k))
    BY DEF Feasible
  <2>2. Needed(p, HeldAt(p, at, k), z) <= room
    BY <1>1, <2>1, Zenon DEF Fits
  <2> QED
    BY <1>1, <2>2, Zenon DEF Needed
<1>8. Density(p, k, z) = SumFunctionOnSet(len, S)
  BY <1>1, Zenon DEF Density
<1>9. SumFunctionOnSet(len, S) \in Int /\ SumFunctionOnSet(len, U) \in Int
  <2>1. IsFiniteSet(S) /\ (\A i \in S : len[i] \in Int) /\ \A i \in U : len[i] \in Int
    BY <1>4, <1>5, FS_Subset
  <2> QED
    BY <1>5, <2>1, SumInt
<1> QED
  BY <1>1, <1>2, <1>6, <1>7, <1>8, <1>9

\* A solution that says what it costs and fits passes VerifySolution().
LEMMA Verified ==
  ASSUME NEW p, Good(p), Zoned(p), SymmetricDistances(p), NEW at, Feasible(p, at),
         NEW o, NEW l, NEW t, NEW c, NEW n, Known(p, o, l, t, c, n, TRUE, at),
         l = Cardinality(HeldAt(p, at, UNASSIGNED)), c = TranshipmentCost(p, at),
         n = PenaltyCost(p, at), t = Unsigned(c + n)
  PROVE  /\ p.sound /\ VerifySolution(p) = {}
         /\ AnalyzeSolution(p).transhipment = p.transhipmentCost /\ p.section = at
<1>1. /\ p.unallocatedVessels = l /\ p.objectiveValue = t /\ p.transhipmentCost = c
      /\ p.penalty = n /\ p.sound = TRUE /\ p.section = at
  BY Zenon DEF Known
<1>2. Places(p, at)
  BY Zenon DEF Feasible, Places
<1>3. TranshipmentOf(p) = c
  BY <1>1, <1>2, TranshipmentRead
<1>4. PenaltyOf(p) = n
  BY <1>1, <1>2, PenaltyRead
<1>5. Cardinality({v \in VesselIDs(p) : ~Berthed(p, v)}) = l
  <2>1. {v \in VesselIDs(p) : ~Berthed(p, v)} = HeldAt(p, at, UNASSIGNED)
    BY <1>1 DEF Berthed, HeldAt
  <2> QED
    BY <2>1
<1>6. \A k \in SectionIDs(p), z \in 1..NumTimeZones(p) : ~(Density(p, k, z) > p.sect.length[k])
  BY <1>1, DensityFits
<1>7. Unsigned(TranshipmentOf(p) + PenaltyOf(p)) = t
  BY <1>3, <1>4, Zenon
<1>8. VerifySolution(p) = {}
  BY <1>1, <1>3, <1>4, <1>5, <1>6, <1>7, Zenon DEF VerifySolution
<1>9. AnalyzeSolution(p).transhipment = TranshipmentOf(p)
  BY Zenon DEF AnalyzeSolution
<1> QED
  BY <1>1, <1>3, <1>8, <1>9
\* The package as it is before a solution is read.
LEMMA FreshKnown ==
  ASSUME NEW project, NEW p, p = NewPackage(project), NEW V, V = NumVessels(p)
  PROVE  /\ Reading(FirstRead(p))
         /\ \E l, t, c, n, s : Known(FirstRead(p).value, p, l, t, c, n, s,
                                     [v \in 1..V |-> UNASSIGNED])
<1>1. PICK q, r : q = [p EXCEPT !.solutionExists = TRUE] /\ r = FirstRead(p)
  OBVIOUS
<1>2. Reading(r) /\ r.value = q
  <2>1. r = [mode |-> "nil", value |-> q]
    BY <1>1, Zenon DEF FirstRead
  <2> QED
    BY <2>1 DEF Reading
<1>3. PICK sec : sec = [v \in 1..V |-> UNASSIGNED]
  OBVIOUS
<1>4. p.section = sec
  <2>1. PICK ves, W : ves = ReadVessels(Database[project["_DATASET"]].ves)
                      /\ W = Max(DOMAIN ves.length)
    OBVIOUS
  <2>2. p.section = [v \in 1..W |-> UNASSIGNED] /\ p.ves = ves
    BY <2>1, Zenon DEF NewPackage
  <2>3. V = W
    BY <2>1, <2>2, Zenon DEF NumVessels
  <2> QED
    BY <1>3, <2>2, <2>3, Zenon
<1>5. Whole(p) /\ "solutionExists" \in DOMAIN p
  <2>1. DOMAIN p = {"project", "ves", "sect", "trans", "zones", "section", "wharfmark",
                    "transhipmentCost", "penalty", "objectiveValue", "unallocatedVessels",
                    "solutionExists", "sound"}
    BY Zenon DEF NewPackage
  <2> QED
    BY <2>1 DEF Whole
<1>6. Known(q, p, q.unallocatedVessels, q.objectiveValue, q.transhipmentCost, q.penalty,
            q.sound, sec)
  BY <1>1, <1>4, <1>5 DEF Known, Whole, Same
<1>7. Known(r.value, p, q.unallocatedVessels, q.objectiveValue, q.transhipmentCost, q.penalty,
            q.sound, sec)
  BY <1>2, <1>6, Zenon
<1> QED
  BY <1>1, <1>2, <1>3, <1>7, Zenon

(* What is written is what is read.                                        *)

\* What is read of file F is the solution of package p, and passes the check.
ReadsBack(p, F) ==
  LET again == ReadSolution(NewPackage(p.project), F)
  IN  /\ again.sound
      /\ VerifySolution(again) = {}
      /\ AnalyzeSolution(again).transhipment = again.transhipmentCost
      /\ again.section = p.section

\* The vessels with and without a section.
LEMMA AtSectionsFacts ==
  ASSUME NEW p, Good(p), Vessels = VesselIDs(p), NEW at, Feasible(p, at),
         at = [i \in VesselIDs(p) |-> at[i]], NEW V, V = NumVessels(p)
  PROVE  /\ V \in Nat /\ Cardinality(Vessels) = V
         /\ AtSections(at) \in SUBSET (1..V) /\ Partial(V, AtSections(at), at) = at
         /\ Cardinality(AtSections(at)) \in Nat /\ Cardinality(AtNone(at)) \in Nat
<1>1. V \in Nat /\ VesselIDs(p) = 1..V /\ NumSections(p) \in Nat
  BY DEF Good, Usable, VesselIDs
<1>2. Cardinality(Vessels) = V
  BY <1>1, FS_Interval
<1>3. PICK A, B : A = AtSections(at) /\ B = AtNone(at)
  OBVIOUS
<1>4. /\ A \in SUBSET (1..V) /\ B \in SUBSET (1..V)
      /\ \A i \in 1..V : i \in A <=> at[i] > 0
  BY <1>1, <1>3 DEF AtSections, AtNone
<1>5. IsFiniteSet(A) /\ IsFiniteSet(B)
  <2>1. IsFiniteSet(1..V)
    BY <1>1, FS_Interval
  <2> QED
    BY <1>4, <2>1, FS_Subset
<1>6. Cardinality(A) \in Nat /\ Cardinality(B) \in Nat
  BY <1>5, FS_CardinalityType
<1>7. \A i \in 1..V : i \notin A => at[i] = UNASSIGNED
  <2>1. \A i \in 1..V : at[i] \in 1..NumSections(p) \/ at[i] = UNASSIGNED
    BY <1>1 DEF Feasible, SectionIDs
  <2>2. \A i \in 1..V : at[i] \in 1..NumSections(p) => at[i] > 0
    BY <1>1
  <2> QED
    BY <1>4, <2>1, <2>2
<1>8. Partial(V, A, at) = [v \in 1..V |-> at[v]]
  <2>1. \A v \in 1..V : (IF v \in A THEN at[v] ELSE UNASSIGNED) = at[v]
    BY <1>7
  <2> QED
    BY <2>1, Zenon DEF Partial
<1>9. Partial(V, A, at) = at
  BY <1>1, <1>8, Zenon
<1> QED
  BY <1>1, <1>2, <1>3, <1>4, <1>6, <1>9

\* The file of a solution is read as that solution.
LEMMA FileKnown ==
  ASSUME NEW file, NEW p, p = NewPackage(ReadProject(file)), Good(p), Vessels = VesselIDs(p),
         NEW at, Feasible(p, at), at = [i \in VesselIDs(p) |-> at[i]], NEW cost, NEW penalty
  PROVE  Known(ReadSolution(p, WriteSolutionFile(at, cost, penalty)), p,
               Cardinality(mUnallocVes), Unsigned(cost + penalty), cost, penalty, TRUE, at)
<1>1. PICK V, A, F, left, total :
        /\ V = NumVessels(p) /\ A = AtSections(at) /\ F = WriteSolutionFile(at, cost, penalty)
        /\ left = Cardinality(mUnallocVes) /\ total = Unsigned(cost + penalty)
  OBVIOUS
<1>2. /\ V \in Nat /\ Cardinality(Vessels) = V /\ A \in SUBSET (1..V) /\ Partial(V, A, at) = at
      /\ Cardinality(AtSections(at)) \in Nat /\ Cardinality(AtNone(at)) \in Nat
  BY <1>1, AtSectionsFacts
<1>3. PICK M : /\ Header(WriteSolutionFile(at, cost, penalty), Cardinality(mUnallocVes),
                         Cardinality(Vessels), Unsigned(cost + penalty), cost, penalty)
               /\ Body(WriteSolutionFile(at, cost, penalty), M, at, AtSections(at))
  BY <1>2, FileWritten
<1>4. Header(F, left, V, total, cost, penalty) /\ Body(F, M, at, A)
  BY <1>1, <1>2, <1>3, Zenon
<1>5. Numbered(F, M) /\ M \in Nat /\ 14 <= M
  <2>1. Numbered(F, M) /\ Cardinality(A) \in Nat /\ 14 + Cardinality(A) <= M
    BY <1>4, Zenon DEF Body
  <2> QED
    BY <2>1 DEF Numbered
<1>6. PICK st : Steps(st, FirstRead(p), "read", {}, F, M) /\ ReadSolution(p, F) = st[M].value
  <2>1. ReadsThrough(p, F, M)
    BY <1>5, ReadUnfolds, Zenon
  <2> QED
    BY <2>1, Zenon DEF ReadsThrough
<1>7. Reads(st, F, M) /\ st[0] = FirstRead(p)
  BY <1>5, <1>6, ReadsSteps, Zenon
<1>8. PICK sec : sec = [v \in 1..V |-> UNASSIGNED]
  OBVIOUS
<1>9. Reading(FirstRead(p)) /\ \E l, t, c, n, s : Known(FirstRead(p).value, p, l, t, c, n, s, sec)
  BY <1>1, <1>8, FreshKnown, Zenon
<1>10. PICK l, t, c, n, s : Known(st[0].value, p, l, t, c, n, s, sec)
  BY <1>7, <1>9, Zenon
<1>11. Reading(st[0])
  BY <1>7, <1>9, Zenon
<1>12. Stands(st[14], "_ALLOCATION", p, left, total, cost, penalty, TRUE, sec)
  BY <1>1, <1>4, <1>5, <1>7, <1>10, <1>11, HeaderRead, Zenon
<1>13. Known(st[M].value, p, left, total, cost, penalty, TRUE, Partial(V, A, at))
  BY <1>2, <1>4, <1>7, <1>8, <1>12, RowsRead, Zenon
<1> QED
  BY <1>1, <1>2, <1>6, <1>13, Zenon

\* Report writes what can be read back.
LEMMA ReportReadsBack ==
  ASSUME BerthIInv, OriginInv, Report,
         \A file \in Projects : SymmetricDistances(NewPackage(ReadProject(file)))
  PROVE  solutionFile' # UNSET => ReadsBack(package', solutionFile')
<1> SUFFICES ASSUME solutionFile' # UNSET
             PROVE  ReadsBack(package', solutionFile')
  OBVIOUS
<1>1. phase = "solved" /\ phase \in Solving
  BY DEF Report, Solving
<1>2. PICK p, at, cost, penalty : /\ p = package /\ at = Sections
                                  /\ cost = ComputeObjVal(at).transhipment
                                  /\ penalty = ComputeObjVal(at).penalty
  OBVIOUS
<1>3. /\ Good(p) /\ Placed(p, mVes, mSect, mUnallocVes) /\ Copies(package, mVes)
      /\ Vessels = VesselIDs(p) /\ at = Where(mVes) /\ Loaded(p)
  BY <1>1, <1>2, SolvingFacts DEF OriginInv
<1>4. PICK file \in Projects : LoadedFrom(file, p)
  BY <1>3 DEF Loaded
<1>5. PICK q, F, o : q = package' /\ F = solutionFile' /\ o = NewPackage(ReadProject(file))
  OBVIOUS
<1>6. /\ Same(o, p) /\ p.project = ReadProject(file) /\ {"project", "section"} \subseteq DOMAIN p
      /\ Good(o) /\ Zoned(o) /\ SymmetricDistances(o)
  BY <1>4, <1>5, PackageGood DEF LoadedFrom
<1>7. Feasible(p, at) /\ mUnallocVes = HeldAt(p, at, UNASSIGNED)
  BY <1>3, Zenon DEF Placed
<1>8. at = [i \in VesselIDs(p) |-> at[i]]
  BY <1>2, <1>3, Zenon DEF Sections
<1>9. F = WriteSolutionFile(at, cost, penalty)
  <2>1. F \in {UNSET, WriteSolutionFile(Sections, ComputeObjVal(Sections).transhipment,
                                        ComputeObjVal(Sections).penalty)}
    BY <1>5, Zenon DEF Report
  <2> QED
    BY <1>2, <1>5, <2>1, Zenon
<1>10. q.section = at /\ q.project = ReadProject(file)
  <2>1. q = [p EXCEPT !.section = [i \in Vessels |-> at[i]], !.transhipmentCost = cost]
    BY <1>2, <1>5, Zenon DEF Report, UpdatePackage
  <2>2. q = [p EXCEPT !.section = at, !.transhipmentCost = cost]
    BY <1>3, <1>8, <2>1, Zenon
  <2> QED
    BY <1>6, <2>2
<1>11. Same(p, o)
  BY <1>6, Zenon DEF Same
<1>12. Vessels = VesselIDs(o)
  BY <1>3, <1>6, Zenon DEF Same, VesselIDs, NumVessels
<1>13. Feasible(o, at) /\ HeldAt(o, at, UNASSIGNED) = mUnallocVes
  <2>1. Feasible(p, at) => Feasible(o, at)
    BY <1>11, SameRoom, Zenon
  <2>2. \A k : HeldAt(o, at, k) = HeldAt(p, at, k)
    BY <1>11, SameRoom, Zenon
  <2> QED
    BY <1>7, <2>1, <2>2, Zenon
<1>14. at = [i \in VesselIDs(o) |-> at[i]]
  BY <1>3, <1>8, <1>12, Zenon
<1>15. PICK r : r = ReadSolution(o, F)
  OBVIOUS
<1>16. Known(r, o, Cardinality(mUnallocVes), Unsigned(cost + penalty), cost, penalty, TRUE, at)
  BY <1>5, <1>6, <1>9, <1>12, <1>13, <1>14, <1>15, FileKnown, Zenon
<1>17. Whole(r) /\ Same(o, r)
  BY <1>16, Zenon DEF Known
<1>18. Good(r) /\ Zoned(r) /\ SymmetricDistances(r) /\ Feasible(r, at)
       /\ HeldAt(r, at, UNASSIGNED) = mUnallocVes
  <2>1. {"ves", "sect", "trans", "zones"} \subseteq DOMAIN r
    BY <1>17 DEF Whole
  <2>2. Good(r)
    BY <1>6, <1>17, <2>1, SamePackage
  <2>3. SymmetricDistances(r)
    BY <1>6, <1>17, SameCosts
  <2>4. Zoned(r) /\ Feasible(r, at) /\ HeldAt(r, at, UNASSIGNED) = mUnallocVes
    <3>1. (Zoned(o) => Zoned(r)) /\ (Feasible(o, at) => Feasible(r, at))
      BY <1>17, SameRoom, Zenon
    <3>2. \A k : HeldAt(r, at, k) = HeldAt(o, at, k)
      BY <1>17, SameRoom, Zenon
    <3> QED
      BY <1>6, <1>13, <3>1, <3>2, Zenon
  <2> QED
    BY <2>2, <2>3, <2>4
<1>19. cost = TranshipmentCost(r, at) /\ penalty = PenaltyCost(r, at)
  <2>1. cost = TranshipmentCost(p, at) /\ penalty = PenaltyCost(p, at)
    BY <1>2, <1>3, CostBridge
  <2>2. TranshipmentCost(o, at) = TranshipmentCost(p, at) /\ PenaltyCost(o, at) = PenaltyCost(p, at)
    BY <1>11, SameTotals, Zenon
  <2>3. TranshipmentCost(r, at) = TranshipmentCost(o, at) /\ PenaltyCost(r, at) = PenaltyCost(o, at)
    BY <1>17, SameTotals, Zenon
  <2> QED
    BY <2>1, <2>2, <2>3, Zenon
<1>20. /\ r.sound /\ VerifySolution(r) = {}
       /\ AnalyzeSolution(r).transhipment = r.transhipmentCost /\ r.section = at
  <2>1. PICK l, t : l = Cardinality(mUnallocVes) /\ t = Unsigned(cost + penalty)
    OBVIOUS
  <2>2. Known(r, o, l, t, cost, penalty, TRUE, at) /\ l = Cardinality(HeldAt(r, at, UNASSIGNED))
    BY <1>16, <1>18, <2>1, Zenon
  <2> QED
    BY <1>18, <1>19, <2>1, <2>2, Verified
<1>21. ReadSolution(NewPackage(q.project), F) = r
  BY <1>5, <1>10, <1>15, Zenon
<1>22. ReadsBack(q, F)
  BY <1>10, <1>20, <1>21, Zenon DEF ReadsBack
<1> QED
  BY <1>5, <1>22, Zenon

\* There is no file before a project is loaded, and the one that is written is
\* the one of the solution in the package.
FileInv ==
  /\ phase = "start" => solutionFile = UNSET
  /\ solutionFile # UNSET => ReadsBack(package, solutionFile)

LEMMA FileStep ==
  ASSUME \A file \in Projects : SymmetricDistances(NewPackage(ReadProject(file)))
  PROVE  BerthIInv /\ OriginInv /\ FileInv /\ [BerthNext]_berthProgramVars => FileInv'
<1> SUFFICES ASSUME BerthIInv, OriginInv, FileInv, [BerthNext]_berthProgramVars
             PROVE  FileInv'
  OBVIOUS
<1>1. CASE Report
  <2>1. phase' # "start"
    BY <1>1 DEF Report, AfterPartitioning
  <2>2. solutionFile' # UNSET => ReadsBack(package', solutionFile')
    BY <1>1, ReportReadsBack
  <2> QED
    BY <2>1, <2>2 DEF FileInv
<1>2. CASE LoadPackage
  <2>1. solutionFile' = UNSET /\ phase' # "start"
    BY <1>2 DEF LoadPackage, solverVars, FileInv
  <2> QED
    BY <2>1 DEF FileInv
<1>3. CASE ~Report /\ ~LoadPackage
  <2>1. package' = package /\ solutionFile' = solutionFile /\ (phase' = "start" => phase = "start")
    BY <1>3 DEF BerthNext, ReadParameterFile, DoPartitioning, Constructed, DoPacking, solverVars,
                InitSolution, AssignVesselToRandomSection, GreedyStep, GenSolnSA, StartAnnealing,
                NoFirstExchange, Reject, Accept, NextTry, FinishAnnealing, FirstExchange, Draw,
                berthProgramVars, AfterPartitioning
  <2> QED
    BY <2>1 DEF FileInv
<1> QED
  BY <1>1, <1>2, <1>3

\* Report and ReadSolution (WriteSolutionFile, VerifySolution): of every project whose
\* distances are the same both ways, the solution file that a partitioner writes is
\* read as the solution it was written of, and VerifySolution() has nothing to report.
THEOREM ReadBackVerifiedHolds ==
  ASSUME \A file \in Projects : SymmetricDistances(NewPackage(ReadProject(file)))
  PROVE  Spec => []ReadBackVerified
<1>1. BerthInit => FileInv
  BY DEF BerthInit, FileInv
<1>2. BerthIInv /\ OriginInv /\ FileInv /\ [BerthNext]_berthProgramVars => FileInv'
  BY FileStep
<1>3. FileInv => ReadBackVerified
  BY DEF FileInv, ReadBackVerified, ReadsBack
<1> QED
  BY <1>1, <1>2, <1>3, BerthIInvHolds, OriginHolds, PTL DEF Spec

=============================================================================
