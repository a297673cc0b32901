------------------------------ MODULE BenchProofs ------------------------------
(***************************************************************************)
(* Theorems about Bench, for any traces, any number of conversations,      *)
(* replicas and permits, either policy and any cap.                        *)
(*                                                                         *)
(* The load generator never has more requests open than it was asked to,   *)
(* and the router refuses none of them while nothing has failed and its    *)
(* caps would do.  Its report leaves no prompt out.  The books that load   *)
(* generator, router and replicas keep agree when it reports, and what the *)
(* router predicted is what the replicas found.                            *)
(*                                                                         *)
(* The proofs need sums over finite sets, which come first, and what the   *)
(* loops that load the file return.                                        *)
(***************************************************************************)
EXTENDS Bench, PrefixCacheLemmas
-----------------------------------------------------------------------------
\* The recursive function that Sum is defined by.
Picked(s) == CHOOSE x \in s : TRUE

Partial(f, s, sums) == IF s = {} THEN 0 ELSE f[Picked(s)] + sums[s \ {Picked(s)}]

PartialSums(f, D) == CHOOSE sums : sums = [s \in SUBSET D |-> Partial(f, s, sums)]

\* The sum of f over the members of s.
SumOver(f, D, s) == PartialSums(f, D)[s]

LEMMA SumIsSumOver == ASSUME NEW f PROVE Sum(f) = SumOver(f, DOMAIN f, DOMAIN f)
  BY DEF Sum, FoldFunction, FoldFunctionOnSet, MapThenFoldSet, SumOver, PartialSums, Partial, Picked

LEMMA PickedFrom == ASSUME NEW s, s # {} PROVE Picked(s) \in s
  BY DEF Picked

\* The recursion is well founded.
LEMMA PartialSumsExist ==
    ASSUME NEW f, NEW D, IsFiniteSet(D)
    PROVE  PartialSums(f, D) = [s \in SUBSET D |-> Partial(f, s, PartialSums(f, D))]
  <1> DEFINE Small(n) == {s \in SUBSET D : Cardinality(s) <= n}
             Upto(n) == \E sums : sums = [s \in Small(n) |-> Partial(f, s, sums)]
             Bad == {n \in Nat : ~Upto(n)}
  <1>1. \A s \in SUBSET D : IsFiniteSet(s) /\ Cardinality(s) \in Nat /\ Cardinality(s) <= Cardinality(D)
    BY FS_Subset, FS_CardinalityType
  <1>2. Cardinality(D) \in Nat
    BY FS_CardinalityType
  <1>3. Bad = {}
    <2> SUFFICES ASSUME Bad # {} PROVE FALSE
      OBVIOUS
    <2>1. PICK n \in Bad : \A m \in Bad : n <= m
      <3>1. Bad \in SUBSET Nat
        OBVIOUS
      <3> HIDE DEF Bad
      <3> QED BY <3>1, LeastNat
    <2>2. n \in Nat /\ ~Upto(n)
      BY <2>1
    <2>3. CASE n = 0
      <3> DEFINE zero == [s \in Small(0) |-> 0]
      <3>1. \A s \in Small(0) : s = {}
        BY <1>1, FS_EmptySet
      <3>2. zero = [s \in Small(0) |-> Partial(f, s, zero)]
        BY <3>1 DEF Partial
      <3> QED BY <2>2, <2>3, <3>2
    <2>4. CASE n # 0
      <3>1. n - 1 \in Nat /\ n - 1 \notin Bad
        <4> HIDE DEF Bad
        <4> QED BY <2>1, <2>2, <2>4
      <3>2. PICK sums : sums = [s \in Small(n - 1) |-> Partial(f, s, sums)]
        BY <3>1
      <3> DEFINE more == [s \in Small(n) |-> Partial(f, s, sums)]
      <3>3. ASSUME NEW s \in Small(n), s # {} PROVE more[s \ {Picked(s)}] = sums[s \ {Picked(s)}]
        <4> DEFINE t == s \ {Picked(s)}
        <4>1. t \in SUBSET D /\ Cardinality(t) <= n - 1
          <5>1. Picked(s) \in s /\ IsFiniteSet(s) /\ Cardinality(s) \in Nat /\ Cardinality(s) <= n
            BY <1>1, <3>3, PickedFrom
          <5>2. Cardinality(t) = Cardinality(s) - 1
            BY <5>1, FS_RemoveElement
          <5> QED BY <2>2, <5>1, <5>2
        <4>2. Cardinality(t) <= n
          BY <1>1, <2>2, <4>1
        <4>3. t \in Small(n) /\ t \in Small(n - 1)
          BY <4>1, <4>2
        <4> HIDE DEF t, Small
        <4>4. more[t] = Partial(f, t, sums)
          BY <4>3
        <4>5. sums[t] = Partial(f, t, sums)
          BY <3>2, <4>3
        <4> QED BY <4>4, <4>5 DEF t
      <3> HIDE DEF Small
      <3>4. \A s \in Small(n) : Partial(f, s, sums) = Partial(f, s, more)
        BY <3>3 DEF Partial
      <3>5. more = [s \in Small(n) |-> Partial(f, s, more)]
        BY <3>4
      <3> QED BY <2>2, <3>5
    <2> QED BY <2>3, <2>4
  <1>4. Upto(Cardinality(D))
    <2> HIDE DEF Upto
    <2> QED BY <1>2, <1>3
  <1>5. Small(Cardinality(D)) = SUBSET D
    BY <1>1
  <1>6. PICK sums : sums = [s \in SUBSET D |-> Partial(f, s, sums)]
    BY <1>4, <1>5
  <1> QED BY <1>6 DEF PartialSums

LEMMA SumOverStep ==
    ASSUME NEW f, NEW D, IsFiniteSet(D), NEW s \in SUBSET D
    PROVE  SumOver(f, D, s) = IF s = {} THEN 0
                              ELSE f[Picked(s)] + SumOver(f, D, s \ {Picked(s)})
  <1> DEFINE sums == PartialSums(f, D)
  <1>1. sums = [t \in SUBSET D |-> Partial(f, t, sums)]
    BY PartialSumsExist
  <1> HIDE DEF sums
  <1>2. sums[s] = Partial(f, s, sums)
    BY <1>1
  <1> QED BY <1>2 DEF SumOver, Partial, sums

\* Induction over the subsets of a finite set: a set of them has a smallest one.
LEMMA SmallestSet ==
    ASSUME NEW D, IsFiniteSet(D), NEW B \in SUBSET (SUBSET D), B # {}
    PROVE  \E s \in B : \A x \in s : s \ {x} \notin B
  <1> DEFINE sizes == {Cardinality(s) : s \in B}
  <1>1. \A s \in SUBSET D : IsFiniteSet(s) /\ Cardinality(s) \in Nat
    BY FS_Subset, FS_CardinalityType
  <1>2. sizes \in SUBSET Nat /\ sizes # {}
    BY <1>1
  <1>3. PICK n \in sizes : \A m \in sizes : n <= m
    <2> HIDE DEF sizes
    <2> QED BY <1>2, LeastNat
  <1>4. PICK s \in B : n = Cardinality(s)
    BY <1>3
  <1>5. ASSUME NEW x \in s PROVE s \ {x} \notin B
    <2>1. Cardinality(s \ {x}) = Cardinality(s) - 1
      BY <1>1, FS_RemoveElement
    <2>2. Cardinality(s) \in Nat
      BY <1>1
    <2>3. ~(n <= Cardinality(s \ {x}))
      BY <1>4, <2>1, <2>2
    <2> QED BY <1>3, <2>3
  <1> QED BY <1>5

LEMMA SumOverNat ==
    ASSUME NEW D, IsFiniteSet(D), NEW f, \A x \in D : f[x] \in Nat
    PROVE  \A s \in SUBSET D : SumOver(f, D, s) \in Nat
  <1> DEFINE Bad == {s \in SUBSET D : SumOver(f, D, s) \notin Nat}
  <1> SUFFICES ASSUME Bad # {} PROVE FALSE
    OBVIOUS
  <1>1. PICK s \in Bad : \A x \in s : s \ {x} \notin Bad
    <2>1. Bad \in SUBSET (SUBSET D)
      OBVIOUS
    <2> HIDE DEF Bad
    <2> QED BY <2>1, SmallestSet
  <1>2. s \in SUBSET D /\ SumOver(f, D, s) \notin Nat
    BY <1>1
  <1>3. s # {}
    <2>1. s = {} => SumOver(f, D, s) = 0
      BY <1>2, SumOverStep
    <2> QED BY <1>2, <2>1
  <1>4. Picked(s) \in s
    BY <1>3, PickedFrom
  <1>5. SumOver(f, D, s \ {Picked(s)}) \in Nat /\ f[Picked(s)] \in Nat
    BY <1>1, <1>2, <1>4
  <1> QED BY <1>2, <1>3, <1>5, SumOverStep

\* The order in which the members are taken makes no difference.
LEMMA SumOverTake ==
    ASSUME NEW D, IsFiniteSet(D), NEW f, \A x \in D : f[x] \in Nat
    PROVE  \A s \in SUBSET D : \A x \in s : SumOver(f, D, s) = f[x] + SumOver(f, D, s \ {x})
  <1> DEFINE Fine(s) == \A x \in s : SumOver(f, D, s) = f[x] + SumOver(f, D, s \ {x})
             Bad == {s \in SUBSET D : ~Fine(s)}
  <1> SUFFICES ASSUME Bad # {} PROVE FALSE
    OBVIOUS
  <1>1. PICK s \in Bad : \A x \in s : s \ {x} \notin Bad
    <2>1. Bad \in SUBSET (SUBSET D)
      OBVIOUS
    <2> HIDE DEF Bad
    <2> QED BY <2>1, SmallestSet
  <1>2. s \in SUBSET D /\ ~Fine(s) /\ \A x \in s : Fine(s \ {x})
    BY <1>1
  <1>3. PICK x \in s : SumOver(f, D, s) # f[x] + SumOver(f, D, s \ {x})
    BY <1>2
  <1> DEFINE p == Picked(s)
  <1>4. p \in s /\ SumOver(f, D, s) = f[p] + SumOver(f, D, s \ {p})
    <2>1. s # {} /\ s \in SUBSET D
      BY <1>2, <1>3
    <2>2. p \in s
      BY <2>1, PickedFrom
    <2>3. SumOver(f, D, s) = IF s = {} THEN 0 ELSE f[p] + SumOver(f, D, s \ {p})
      <3> HIDE DEF Fine, Bad
      <3> QED BY <2>1, SumOverStep
    <2> QED BY <2>1, <2>2, <2>3
  <1> HIDE DEF p
  <1>5. x # p
    BY <1>3, <1>4
  <1>6. SumOver(f, D, s \ {p}) = f[x] + SumOver(f, D, (s \ {p}) \ {x})
    BY <1>2, <1>4, <1>5
  <1>7. SumOver(f, D, s \ {x}) = f[p] + SumOver(f, D, (s \ {x}) \ {p})
    BY <1>2, <1>4, <1>5
  <1>8. (s \ {p}) \ {x} = (s \ {x}) \ {p} /\ (s \ {x}) \ {p} \in SUBSET D
    BY <1>2
  <1>9. f[x] \in Nat /\ f[p] \in Nat /\ SumOver(f, D, (s \ {x}) \ {p}) \in Nat
    BY <1>2, <1>4, <1>8, SumOverNat
  <1>10. f[p] + (f[x] + SumOver(f, D, (s \ {x}) \ {p})) = f[x] + (f[p] + SumOver(f, D, (s \ {x}) \ {p}))
    BY <1>9
  <1>11. SumOver(f, D, s \ {p}) = f[x] + SumOver(f, D, (s \ {x}) \ {p})
    BY <1>6, <1>8
  <1> QED BY <1>3, <1>4, <1>7, <1>10, <1>11, Zenon

\* Only the members' values count.
LEMMA SumOverSame ==
    ASSUME NEW D, IsFiniteSet(D), NEW f, NEW E, IsFiniteSet(E), NEW g, NEW S,
           S \subseteq D, S \subseteq E, \A x \in S : f[x] = g[x]
    PROVE  \A s \in SUBSET S : SumOver(f, D, s) = SumOver(g, E, s)
  <1> DEFINE Bad == {s \in SUBSET S : SumOver(f, D, s) # SumOver(g, E, s)}
  <1> SUFFICES ASSUME Bad # {} PROVE FALSE
    OBVIOUS
  <1>1. PICK s \in Bad : \A x \in s : s \ {x} \notin Bad
    <2>1. Bad \in SUBSET (SUBSET S) /\ IsFiniteSet(S)
      BY FS_Subset
    <2> HIDE DEF Bad
    <2> QED BY <2>1, SmallestSet
  <1>2. s \in SUBSET S /\ s \in SUBSET D /\ s \in SUBSET E /\ SumOver(f, D, s) # SumOver(g, E, s)
    BY <1>1
  <1>3. s # {}
    BY <1>2, SumOverStep
  <1>4. Picked(s) \in s
    BY <1>3, PickedFrom
  <1>5. SumOver(f, D, s \ {Picked(s)}) = SumOver(g, E, s \ {Picked(s)})
    BY <1>1, <1>2, <1>4
  <1>6. f[Picked(s)] = g[Picked(s)]
    BY <1>2, <1>4
  <1>7. /\ SumOver(f, D, s) = f[Picked(s)] + SumOver(f, D, s \ {Picked(s)})
        /\ SumOver(g, E, s) = g[Picked(s)] + SumOver(g, E, s \ {Picked(s)})
    BY <1>2, <1>3, SumOverStep
  <1> QED BY <1>2, <1>5, <1>6, <1>7
-----------------------------------------------------------------------------
\* What the proofs use of Sum.

LEMMA SumNat ==
    ASSUME NEW D, IsFiniteSet(D), NEW f \in [D -> Nat]
    PROVE  Sum(f) \in Nat
  BY SumIsSumOver, SumOverNat

LEMMA SumEmpty ==
    ASSUME NEW f, DOMAIN f = {}
    PROVE  Sum(f) = 0
  BY SumIsSumOver, SumOverStep, FS_EmptySet

\* One summand taken out.
LEMMA SumTake ==
    ASSUME NEW D, IsFiniteSet(D), NEW f \in [D -> Nat], NEW x \in D
    PROVE  Sum(f) = f[x] + Sum([y \in D \ {x} |-> f[y]])
  <1> DEFINE E == D \ {x}
             g == [y \in E |-> f[y]]
  <1>1. IsFiniteSet(E) /\ E \subseteq D /\ DOMAIN g = E /\ DOMAIN f = D /\ \A y \in E : f[y] = g[y]
    BY FS_RemoveElement
  <1> HIDE DEF g, E
  <1>2. SumOver(f, D, E) = SumOver(g, E, E)
    BY <1>1, SumOverSame
  <1>3. SumOver(f, D, D) = f[x] + SumOver(f, D, D \ {x})
    BY SumOverTake
  <1> QED BY <1>1, <1>2, <1>3, SumIsSumOver DEF E, g

\* One summand more.
LEMMA SumExtended ==
    ASSUME NEW D, IsFiniteSet(D), NEW f \in [D -> Nat], NEW x, x \notin D,
           NEW g \in [D \cup {x} -> Nat], \A y \in D : g[y] = f[y]
    PROVE  Sum(g) = Sum(f) + g[x] /\ Sum(f) \in Nat /\ Sum(g) \in Nat
  <1>1. IsFiniteSet(D \cup {x}) /\ x \in D \cup {x} /\ (D \cup {x}) \ {x} = D
    BY FS_AddElement
  <1>2. Sum(g) = g[x] + Sum([y \in (D \cup {x}) \ {x} |-> g[y]])
    BY <1>1, SumTake
  <1>3. [y \in D |-> g[y]] = f
    OBVIOUS
  <1>4. Sum(f) \in Nat /\ Sum(g) \in Nat
    BY <1>1, SumNat
  <1> QED BY <1>1, <1>2, <1>3, <1>4

\* One summand changed.
LEMMA SumChanged ==
    ASSUME NEW D, IsFiniteSet(D), NEW f \in [D -> Nat], NEW g \in [D -> Nat], NEW x \in D,
           \A y \in D \ {x} : g[y] = f[y]
    PROVE  Sum(g) + f[x] = Sum(f) + g[x] /\ Sum(f) \in Nat /\ Sum(g) \in Nat
  <1>1. [y \in D \ {x} |-> f[y]] = [y \in D \ {x} |-> g[y]]
    OBVIOUS
  <1>2. /\ Sum(f) = f[x] + Sum([y \in D \ {x} |-> f[y]])
        /\ Sum(g) = g[x] + Sum([y \in D \ {x} |-> g[y]])
    BY SumTake
  <1>3. Sum([y \in D \ {x} |-> f[y]]) \in Nat
    <2>1. IsFiniteSet(D \ {x}) /\ [y \in D \ {x} |-> f[y]] \in [D \ {x} -> Nat]
      BY FS_RemoveElement
    <2> QED BY <2>1, SumNat
  <1>4. Sum(f) \in Nat /\ Sum(g) \in Nat
    BY SumNat
  <1> QED BY <1>1, <1>2, <1>3, <1>4

\* No summand larger.
LEMMA SumMonotone ==
    ASSUME NEW D, IsFiniteSet(D), NEW f \in [D -> Nat], NEW g \in [D -> Nat],
           \A y \in D : f[y] <= g[y]
    PROVE  Sum(f) <= Sum(g) /\ Sum(f) \in Nat /\ Sum(g) \in Nat
  <1> DEFINE Bad == {s \in SUBSET D : ~(SumOver(f, D, s) <= SumOver(g, D, s))}
  <1>1. Bad = {}
    <2> SUFFICES ASSUME Bad # {} PROVE FALSE
      OBVIOUS
    <2>1. PICK s \in Bad : \A x \in s : s \ {x} \notin Bad
      <3>1. Bad \in SUBSET (SUBSET D)
        OBVIOUS
      <3> HIDE DEF Bad
      <3> QED BY <3>1, SmallestSet
    <2>2. s \in SUBSET D /\ ~(SumOver(f, D, s) <= SumOver(g, D, s))
      BY <2>1
    <2>3. s # {}
      BY <2>2, SumOverStep
    <2>4. PICK x \in s : TRUE
      BY <2>3
    <2>5. s \ {x} \in SUBSET D /\ SumOver(f, D, s \ {x}) <= SumOver(g, D, s \ {x})
      BY <2>1, <2>2, <2>4
    <2>6. /\ SumOver(f, D, s \ {x}) \in Nat /\ SumOver(g, D, s \ {x}) \in Nat
          /\ f[x] \in Nat /\ g[x] \in Nat /\ f[x] <= g[x]
      BY <2>2, <2>4, <2>5, SumOverNat
    <2>7. /\ SumOver(f, D, s) = f[x] + SumOver(f, D, s \ {x})
          /\ SumOver(g, D, s) = g[x] + SumOver(g, D, s \ {x})
      BY <2>2, <2>4, SumOverTake
    <2> QED BY <2>2, <2>5, <2>6, <2>7
  <1>2. SumOver(f, D, D) <= SumOver(g, D, D)
    BY <1>1
  <1> QED BY <1>2, SumNat, SumIsSumOver

LEMMA SumZero ==
    ASSUME NEW D, IsFiniteSet(D), NEW f \in [D -> Nat], \A y \in D : f[y] = 0
    PROVE  Sum(f) = 0
  <1> DEFINE Bad == {s \in SUBSET D : SumOver(f, D, s) # 0}
  <1>1. Bad = {}
    <2> SUFFICES ASSUME Bad # {} PROVE FALSE
      OBVIOUS
    <2>1. PICK s \in Bad : \A x \in s : s \ {x} \notin Bad
      <3>1. Bad \in SUBSET (SUBSET D)
        OBVIOUS
      <3> HIDE DEF Bad
      <3> QED BY <3>1, SmallestSet
    <2>2. s \in SUBSET D /\ SumOver(f, D, s) # 0
      BY <2>1
    <2>3. s # {}
      BY <2>2, SumOverStep
    <2>4. PICK x \in s : TRUE
      BY <2>3
    <2>5. s \ {x} \in SUBSET D /\ SumOver(f, D, s \ {x}) = 0
      BY <2>1, <2>2, <2>4
    <2>6. SumOver(f, D, s) = f[x] + SumOver(f, D, s \ {x}) /\ f[x] = 0
      BY <2>2, <2>4, SumOverTake
    <2> QED BY <2>2, <2>5, <2>6
  <1>2. SumOver(f, D, D) = 0
    BY <1>1
  <1> QED BY <1>2, SumIsSumOver
-----------------------------------------------------------------------------
\* Loading.

\* The prompts of a recorded conversation are beginnings of it.
TextsOf(recorded) == {SubSeq(recorded, 1, k) : k \in 1..Len(recorded)}

\* One message more.
TurnStep(recorded, k, before) ==
    IF recorded[k].from = "human" THEN Append(before, SubSeq(recorded, 1, k)) ELSE before

TurnsEquation(recorded, Turns) ==
    Turns = [k \in 0..Len(recorded) |->
                IF k = 0 THEN <<>> ELSE TurnStep(recorded, k, Turns[k - 1])]

TurnsFcn(recorded) == CHOOSE Turns : TurnsEquation(recorded, Turns)

LEMMA TurnsOfIsFcn == ASSUME NEW recorded PROVE TurnsOf(recorded) = TurnsFcn(recorded)[Len(recorded)]
  BY DEF TurnsOf, TurnsFcn, TurnsEquation, TurnStep

LEMMA TurnsOfFacts ==
    ASSUME NEW recorded, Len(recorded) \in Nat
    PROVE  TurnsOf(recorded) \in Seq(TextsOf(recorded))
  <1>0. PICK n \in Nat : n = Len(recorded)
    OBVIOUS
  <1> DEFINE V == Seq(TextsOf(recorded))
             Step == [k \in 1..n |-> [before \in V |-> TurnStep(recorded, k, before)]]
             Turns == TurnsFcn(recorded)
  <1>1. ASSUME NEW k \in 1..n, NEW before \in V PROVE TurnStep(recorded, k, before) \in V
    <2>1. SubSeq(recorded, 1, k) \in TextsOf(recorded)
      BY <1>0 DEF TextsOf
    <2> QED BY <2>1 DEF TurnStep
  <1>2. Step \in [1..n -> [V -> V]] /\ <<>> \in V
    BY <1>1
  <1>3. ASSUME NEW k \in 1..n, NEW before \in V PROVE Step[k][before] = TurnStep(recorded, k, before)
    OBVIOUS
  <1> HIDE DEF Step, V
  <1>4. PICK f \in [0..n -> V] : f[0] = <<>> /\ \A k \in 1..n : f[k] = Step[k][f[k - 1]]
    <2>1. PICK first \in V : first = <<>>
      BY <1>2
    <2>2. Step \in Steps(n, V)
      BY <1>2 DEF Steps
    <2>3. \E f : LoopOf(n, V, first, Step, f)
      BY <2>2, LoopExists
    <2> QED BY <2>1, <2>3 DEF LoopOf
  <1>5. TurnsEquation(recorded, f)
    <2>1. ASSUME NEW k \in 1..n PROVE f[k] = TurnStep(recorded, k, f[k - 1])
      <3>1. f[k - 1] \in V
        BY <1>4
      <3> QED BY <1>3, <1>4, <3>1
    <2> QED BY <1>0, <1>4, <2>1 DEF TurnsEquation
  <1>6. TurnsEquation(recorded, Turns)
    BY <1>5 DEF TurnsFcn
  <1> HIDE DEF Turns
  <1>7. Turns[0] = <<>> /\ \A k \in 1..n : Turns[k] = TurnStep(recorded, k, Turns[k - 1])
    BY <1>0, <1>6 DEF TurnsEquation
  <1> DEFINE Bad == {k \in 0..n : Turns[k] \notin V}
  <1>8. Bad = {}
    <2> SUFFICES ASSUME Bad # {} PROVE FALSE
      OBVIOUS
    <2>1. PICK k \in Bad : \A j \in Bad : k <= j
      <3>1. Bad \in SUBSET Nat
        OBVIOUS
      <3> HIDE DEF Bad
      <3> QED BY <3>1, LeastNat
    <2>2. k \in 0..n /\ Turns[k] \notin V
      BY <2>1
    <2>3. k # 0
      BY <1>2, <1>7, <2>2
    <2>4. k \in 1..n /\ k - 1 \in 0..n /\ k - 1 \notin Bad
      <3> HIDE DEF Bad
      <3> QED BY <2>1, <2>2, <2>3
    <2> QED BY <1>1, <1>7, <2>2, <2>4
  <1>9. Turns[n] \in V
    BY <1>8
  <1> QED BY <1>0, <1>9, TurnsOfIsFcn DEF Turns, V

\* All the prompts there are.
Texts == UNION {UNION {TextsOf(trace[k]) : k \in DOMAIN trace} : trace \in Traces}

\* A conversation has at least one prompt.
Conversations == Seq(Texts) \ {<<>>}

\* One conversation more.
LoadStep(trace, k, out) ==
    IF (k > 1 /\ Len(out) >= MaxConversations) \/ TurnsOf(trace[k]) = <<>>
    THEN out ELSE Append(out, TurnsOf(trace[k]))

LoadEquation(trace, Loaded) ==
    Loaded = [k \in 0..Len(trace) |->
                IF k = 0 THEN <<>> ELSE LoadStep(trace, k, Loaded[k - 1])]

LoadFcn(trace) == CHOOSE Loaded : LoadEquation(trace, Loaded)

LEMMA LoadIsFcn == ASSUME NEW trace PROVE LoadShareGpt(trace) = LoadFcn(trace)[Len(trace)]
  BY DEF LoadShareGpt, LoadFcn, LoadEquation, LoadStep

LEMMA LoadFacts ==
    ASSUME NEW trace \in Traces
    PROVE  LoadShareGpt(trace) \in Seq(Conversations)
  <1>10. Len(trace) \in Nat
    BY LoadgenAssumption
  <1>11. PICK n \in Nat : n = Len(trace)
    BY <1>10
  <1> DEFINE V == Seq(Conversations)
             Step == [k \in 1..n |-> [out \in V |-> LoadStep(trace, k, out)]]
             Loaded == LoadFcn(trace)
  <1>0. DOMAIN trace = 1..n /\ \A k \in 1..n : Len(trace[k]) \in Nat
    BY <1>11, LoadgenAssumption
  <1>1. ASSUME NEW k \in 1..n, NEW out \in V PROVE LoadStep(trace, k, out) \in V
    <2>1. TurnsOf(trace[k]) \in Seq(TextsOf(trace[k]))
      BY <1>0, TurnsOfFacts
    <2>2. TextsOf(trace[k]) \subseteq Texts
      BY <1>0 DEF Texts
    <2>3. TurnsOf(trace[k]) \in Seq(Texts)
      BY <2>1, <2>2
    <2>4. TurnsOf(trace[k]) # <<>> => TurnsOf(trace[k]) \in Conversations
      BY <2>3 DEF Conversations
    <2> QED BY <2>4 DEF LoadStep
  <1>2. Step \in [1..n -> [V -> V]] /\ <<>> \in V
    BY <1>1
  <1>3. ASSUME NEW k \in 1..n, NEW out \in V PROVE Step[k][out] = LoadStep(trace, k, out)
    OBVIOUS
  <1> HIDE DEF Step, V
  <1>4. PICK f \in [0..n -> V] : f[0] = <<>> /\ \A k \in 1..n : f[k] = Step[k][f[k - 1]]
    <2>1. PICK first \in V : first = <<>>
      BY <1>2
    <2>2. Step \in Steps(n, V)
      BY <1>2 DEF Steps
    <2>3. \E f : LoopOf(n, V, first, Step, f)
      BY <2>2, LoopExists
    <2> QED BY <2>1, <2>3 DEF LoopOf
  <1>5. LoadEquation(trace, f)
    <2>1. ASSUME NEW k \in 1..n PROVE f[k] = LoadStep(trace, k, f[k - 1])
      <3>1. f[k - 1] \in V
        BY <1>4
      <3> QED BY <1>3, <1>4, <3>1
    <2> QED BY <1>11, <1>4, <2>1 DEF LoadEquation
  <1>6. LoadEquation(trace, Loaded)
    BY <1>5 DEF LoadFcn
  <1> HIDE DEF Loaded
  <1>7. Loaded[0] = <<>> /\ \A k \in 1..n : Loaded[k] = LoadStep(trace, k, Loaded[k - 1])
    BY <1>11, <1>6 DEF LoadEquation
  <1> DEFINE Bad == {k \in 0..n : Loaded[k] \notin V}
  <1>8. Bad = {}
    <2> SUFFICES ASSUME Bad # {} PROVE FALSE
      OBVIOUS
    <2>1. PICK k \in Bad : \A j \in Bad : k <= j
      <3>1. Bad \in SUBSET Nat
        OBVIOUS
      <3> HIDE DEF Bad
      <3> QED BY <3>1, LeastNat
    <2>2. k \in 0..n /\ Loaded[k] \notin V
      BY <2>1
    <2>3. k # 0
      BY <1>2, <1>7, <2>2
    <2>4. k \in 1..n /\ k - 1 \in 0..n /\ k - 1 \notin Bad
      <3> HIDE DEF Bad
      <3> QED BY <2>1, <2>2, <2>3
    <2> QED BY <1>1, <1>7, <2>2, <2>4
  <1>9. Loaded[n] \in V
    BY <1>8
  <1> QED BY <1>11, <1>9, LoadIsFcn DEF Loaded, V

\* A text reaches the scheduler as a chain of blocks.
LEMMA TextsHash == \A p \in Texts : HashesOf(p) \in Chains \cup {<<>>}
  <1> SUFFICES ASSUME NEW p \in Texts PROVE HashesOf(p) \in Chains \cup {<<>>}
    OBVIOUS
  <1>1. PICK trace \in Traces : p \in UNION {TextsOf(trace[k]) : k \in DOMAIN trace}
    BY DEF Texts
  <1>2. PICK k \in DOMAIN trace : p \in TextsOf(trace[k])
    BY <1>1
  <1>3. PICK n \in 1..Len(trace[k]) : p = SubSeq(trace[k], 1, n)
    BY <1>2 DEF TextsOf
  <1> QED BY <1>3, BenchAssumption
-----------------------------------------------------------------------------
\* The tasks that hold a permit.
Asking == {i \in Tasks : pc[i] = "asking"}

\* A permit is free or with a task that is asking, and there are as many as
\* main made.
PermitsOK ==
    /\ DOMAIN pc = Tasks
    /\ permits \in Nat
    /\ IsFiniteSet(Asking)
    /\ permits + Cardinality(Asking) = Concurrency

LEMMA PermitsInit == BenchInit => PermitsOK
  <1> SUFFICES ASSUME BenchInit PROVE PermitsOK
    OBVIOUS
  <1>1. pc = [i \in Tasks |-> "queued"] /\ permits = Concurrency
    BY DEF BenchInit, LoadInit
  <1>2. Asking = {}
    BY <1>1 DEF Asking
  <1>3. Concurrency \in Nat
    BY LoadgenAssumption
  <1> QED BY <1>1, <1>2, <1>3, FS_EmptySet DEF PermitsOK

LEMMA PermitsSame ==
    ASSUME PermitsOK, UNCHANGED <<convs, pc, permits>>
    PROVE  PermitsOK'
  BY DEF PermitsOK, Asking, Tasks

LEMMA PermitTaken ==
    ASSUME PermitsOK, NEW i \in Tasks, Acquire(i)
    PROVE  PermitsOK'
  <1>1. /\ pc[i] = "queued" /\ permits > 0 /\ permits' = permits - 1 /\ convs' = convs
        /\ pc' = [pc EXCEPT ![i] = "asking"]
    BY DEF Acquire
  <1>2. Tasks' = Tasks /\ DOMAIN pc' = Tasks' /\ pc'[i] = "asking"
        /\ \A j \in Tasks \ {i} : pc'[j] = pc[j]
    BY <1>1 DEF Tasks, PermitsOK
  <1>3. Asking' = Asking \cup {i} /\ i \notin Asking
    BY <1>1, <1>2 DEF Asking
  <1>4. IsFiniteSet(Asking) /\ Cardinality(Asking) \in Nat
    BY FS_CardinalityType DEF PermitsOK
  <1>5. IsFiniteSet(Asking') /\ Cardinality(Asking') = Cardinality(Asking) + 1
    BY <1>3, <1>4, FS_AddElement
  <1> QED BY <1>1, <1>2, <1>4, <1>5, LoadgenAssumption DEF PermitsOK

LEMMA PermitReturned ==
    ASSUME PermitsOK, NEW i \in Tasks, pc[i] = "asking", Finish(i), convs' = convs
    PROVE  PermitsOK'
  <1>1. permits' = permits + 1 /\ pc' = [pc EXCEPT ![i] = "done"]
    BY DEF Finish
  <1>2. Tasks' = Tasks /\ DOMAIN pc' = Tasks' /\ pc'[i] = "done"
        /\ \A j \in Tasks \ {i} : pc'[j] = pc[j]
    BY <1>1 DEF Tasks, PermitsOK
  <1>3. Asking' = Asking \ {i} /\ i \in Asking
    BY <1>2 DEF Asking
  <1>4. IsFiniteSet(Asking) /\ Cardinality(Asking) \in Nat
    BY FS_CardinalityType DEF PermitsOK
  <1>5. IsFiniteSet(Asking') /\ Cardinality(Asking') = Cardinality(Asking) - 1
    BY <1>3, <1>4, FS_RemoveElement
  <1> QED BY <1>1, <1>2, <1>4, <1>5, LoadgenAssumption DEF PermitsOK

LEMMA PermitsNext == PermitsOK /\ [BenchNext]_benchVars => PermitsOK'
  <1> SUFFICES ASSUME PermitsOK, [BenchNext]_benchVars PROVE PermitsOK'
    OBVIOUS
  <1>1. ASSUME UNCHANGED loadVars PROVE PermitsOK'
    BY <1>1, PermitsSame DEF loadVars, taskVars
  <1>2. ASSUME NEW i \in Tasks, Refused(i) PROVE PermitsOK'
    BY <1>2, PermitReturned DEF Refused
  <1>3. ASSUME NEW i \in Tasks, NEW reply, Answered(i, reply) PROVE PermitsOK'
    <2>1. pc[i] = "asking" /\ convs' = convs
      BY <1>3 DEF Answered
    <2>2. CASE Finish(i)
      BY <2>1, <2>2, PermitReturned
    <2>3. CASE UNCHANGED <<pc, permits>>
      BY <2>1, <2>3, PermitsSame
    <2> QED BY <1>3, <2>2, <2>3 DEF Answered
  <1>4. ASSUME NEW i \in Tasks, TaskStarts(i) PROVE PermitsOK'
    BY <1>4, PermitTaken DEF TaskStarts
  <1>5. CASE MainJoins
    BY <1>5, PermitsSame DEF MainJoins, Join, taskVars
  <1>6. ASSUME NEW i \in Tasks, GoesOn(i) PROVE PermitsOK'
    <2>1. CASE Accepted(i)
      BY <1>1, <2>1 DEF Accepted, PickFor
    <2>2. CASE TurnedAway(i)
      BY <1>2, <2>2 DEF TurnedAway
    <2>3. CASE Prefills(i)
      BY <1>1, <2>3 DEF Prefills
    <2>4. CASE Served(i)
      BY <1>1, <2>4 DEF Served
    <2>5. CASE TimesOut(i)
      BY <1>1, <2>5 DEF TimesOut
    <2>6. CASE Breaks(i)
      BY <1>1, <2>6 DEF Breaks
    <2>7. CASE FailsOver(i)
      BY <1>1, <2>7 DEF FailsOver
    <2>8. CASE PicksAgain(i)
      BY <1>1, <2>8 DEF PicksAgain, PickFor
    <2>9. CASE Delivered(i)
      BY <1>2, <1>3, <2>9 DEF Delivered
    <2> QED BY <1>6, <2>1, <2>2, <2>3, <2>4, <2>5, <2>6, <2>7, <2>8, <2>9 DEF GoesOn
  <1>7. ASSUME NEW i \in Tasks, Hangs(i) PROVE PermitsOK'
    BY <1>1, <1>7 DEF Hangs
  <1>8. ASSUME NEW r \in Replicas, Probed(r) \/ Restarts(r) PROVE PermitsOK'
    BY <1>1, <1>8 DEF Probed, Restarts
  <1>9. CASE Starts \/ ShutdownSignal \/ Exits \/ MetricsServerFails \/ Connects
    BY <1>1, <1>9 DEF Starts, ShutdownSignal, Exits, MetricsServerFails, Connects
  <1>10. CASE UNCHANGED benchVars
    BY <1>1, <1>10 DEF benchVars
  <1> QED BY <1>4, <1>5, <1>6, <1>7, <1>8, <1>9, <1>10 DEF BenchNext

LEMMA PermitsEver == BenchSpec => []PermitsOK
  <1> QED BY PermitsInit, PermitsNext, PTL DEF BenchSpec

\* The router never sees more requests at once than asked for on the command
\* line (main.rs:88-112).
THEOREM ConcurrencyIsKept == BenchSpec => []ConcurrencyKept
  <1>1. PermitsOK => ConcurrencyKept
    <2> SUFFICES ASSUME PermitsOK PROVE Cardinality(Asking) <= Concurrency
      BY DEF ConcurrencyKept, Asking
    <2>1. Cardinality(Asking) \in Nat
      BY FS_CardinalityType DEF PermitsOK
    <2> QED BY <2>1, LoadgenAssumption DEF PermitsOK
  <1> QED BY <1>1, PermitsEver, PTL
-----------------------------------------------------------------------------
\* n sets that have nothing in common and m members each have n * m together.
LEMMA Pigeonhole ==
    ASSUME NEW n \in Nat, NEW m \in Nat, NEW S, IsFiniteSet(S),
           NEW part \in [0..(n - 1) -> SUBSET S],
           \A r \in 0..(n - 1) : m <= Cardinality(part[r]),
           \A q, r \in 0..(n - 1) : q # r => part[q] \cap part[r] = {}
    PROVE  n * m <= Cardinality(S)
  <1> DEFINE U(k) == UNION {part[r] : r \in 0..(k - 1)}
             Wrong == {k \in 0..n : ~(k * m <= Cardinality(U(k)))}
  <1>1. ASSUME NEW k \in 0..n
        PROVE  U(k) \subseteq S /\ IsFiniteSet(U(k)) /\ Cardinality(U(k)) \in Nat
    <2>1. \A r \in 0..(k - 1) : r \in 0..(n - 1)
      OBVIOUS
    <2>2. U(k) \subseteq S
      BY <2>1
    <2> HIDE DEF U
    <2> QED BY <2>2, FS_Subset, FS_CardinalityType
  <1>2. Wrong = {}
    <2> SUFFICES ASSUME Wrong # {} PROVE FALSE
      OBVIOUS
    <2>1. PICK k \in Wrong : \A j \in Wrong : k <= j
      <3>1. Wrong \in SUBSET Nat
        OBVIOUS
      <3> HIDE DEF Wrong
      <3> QED BY <3>1, LeastNat
    <2>2. k \in 0..n /\ ~(k * m <= Cardinality(U(k)))
      BY <2>1
    <2>3. k # 0
      <3>1. Cardinality(U(k)) \in Nat
        BY <1>1, <2>2
      <3> HIDE DEF U
      <3>2. 0 * m = 0
        OBVIOUS
      <3> QED BY <2>2, <3>1, <3>2
    <2>4. k - 1 \in 0..n /\ k - 1 \in 0..(n - 1) /\ k \in Nat
      BY <2>2, <2>3
    <2>5. (k - 1) * m <= Cardinality(U(k - 1))
      <3>1. k - 1 \notin Wrong
        <4> HIDE DEF Wrong
        <4> QED BY <2>1, <2>4
      <3> HIDE DEF U
      <3> QED BY <2>4, <3>1
    <2>6. U(k) = U(k - 1) \cup part[k - 1]
      <3>1. \A r : r \in 0..(k - 1) <=> r \in 0..(k - 1 - 1) \/ r = k - 1
        BY <2>4
      <3> QED BY <3>1
    <2>7. U(k - 1) \cap part[k - 1] = {}
      <3>1. \A r \in 0..(k - 1 - 1) : r \in 0..(n - 1) /\ r # k - 1
        BY <2>4
      <3> QED BY <2>4, <3>1
    <2>8. IsFiniteSet(U(k - 1)) /\ Cardinality(U(k - 1)) \in Nat /\ Cardinality(U(k)) \in Nat
      BY <1>1, <2>2, <2>4
    <2> HIDE DEF U
    <2>9. IsFiniteSet(part[k - 1]) /\ Cardinality(part[k - 1]) \in Nat
      BY <2>4, FS_Subset, FS_CardinalityType
    <2>10. Cardinality(U(k)) = Cardinality(U(k - 1)) + Cardinality(part[k - 1])
      <3>1. Cardinality(U(k - 1) \cap part[k - 1]) = 0
        BY <2>7, FS_EmptySet
      <3>2. Cardinality(U(k - 1) \cup part[k - 1])
              = Cardinality(U(k - 1)) + Cardinality(part[k - 1])
                  - Cardinality(U(k - 1) \cap part[k - 1])
        BY <2>8, <2>9, FS_Union
      <3> QED BY <2>6, <2>8, <2>9, <3>1, <3>2
    <2>11. k * m = (k - 1) * m + m /\ (k - 1) * m \in Nat /\ k * m \in Nat
      BY <2>4
    <2> QED BY <2>2, <2>4, <2>5, <2>8, <2>9, <2>10, <2>11
  <1>3. n \in 0..n
    OBVIOUS
  <1>4. n * m <= Cardinality(U(n)) /\ U(n) \subseteq S /\ Cardinality(U(n)) \in Nat
    BY <1>1, <1>2, <1>3
  <1> HIDE DEF U
  <1>5. Cardinality(U(n)) <= Cardinality(S) /\ Cardinality(S) \in Nat
    BY <1>4, FS_Subset, FS_CardinalityType
  <1> QED BY <1>4, <1>5
-----------------------------------------------------------------------------
\* Nothing has failed, and the caps together would do.
Calm == Concurrency <= NumReplicas * MaxInflight /\ trouble \subseteq {"signal"}

\* The tasks whose request a replica has.
On(r) == {i \in Tasks : call[i].at \in {"sent", "prefilling"} /\ call[i].replica = r}

\* What becomes of a request while nothing fails.
CallFits(what) ==
    \/ what.at = "replied"
    \/ /\ what.at \in {"sent", "prefilling"} /\ what.replica \in Replicas
       /\ what = [at |-> what.at, attempt |-> what.attempt, replica |-> what.replica,
                  matched |-> what.matched, cached |-> what.cached]

AllUp == \A r \in Replicas : healthy[r]

Loads == \A r \in Replicas : inflight[r] <= Cardinality(On(r))

CallsFit == \A i \in Tasks : call[i] = NoCall \/ (pc[i] = "asking" /\ CallFits(call[i]))

Shapes ==
    /\ DOMAIN call = Tasks
    /\ healthy \in [Replicas -> BOOLEAN]
    /\ inflight \in [Replicas -> Nat]

Quiet == AllUp /\ Loads /\ CallsFit

\* The inductive invariant: while nothing has failed every replica is up, and
\* loaded with no more than the requests of tasks that ask.
BenchOK == PermitsOK /\ Shapes /\ (Calm => Quiet)

LEMMA NotCalled == NoCall.at = "none" /\ ~CallFits(NoCall)
  BY DEF NoCall, CallFits

LEMMA OnFacts ==
    ASSUME PermitsOK, CallsFit, NEW r
    PROVE  On(r) \subseteq Asking /\ IsFiniteSet(On(r)) /\ Cardinality(On(r)) \in Nat
  <1>1. On(r) \subseteq Asking
    BY NotCalled DEF On, CallsFit, Asking
  <1> QED BY <1>1, FS_Subset, FS_CardinalityType DEF PermitsOK

\* A request that the router has not picked a replica for finds one.
LEMMA SomeAvailable ==
    ASSUME PermitsOK, Shapes, Calm, Quiet, NEW i \in Tasks, pc[i] = "asking", call[i] = NoCall
    PROVE  Available # {}
  <1> SUFFICES ASSUME Available = {} PROVE FALSE
    OBVIOUS
  <1> DEFINE S == Asking \ {i}
             part == [r \in 0..(NumReplicas - 1) |-> On(r)]
  <1>1. IsFiniteSet(Asking) /\ Cardinality(Asking) \in Nat /\ i \in Asking
    BY FS_CardinalityType DEF PermitsOK, Asking
  <1>2. IsFiniteSet(S) /\ Cardinality(S) = Cardinality(Asking) - 1
    BY <1>1, FS_RemoveElement
  <1>3. Cardinality(Asking) <= Concurrency /\ Concurrency \in Nat
    BY <1>1, LoadgenAssumption DEF PermitsOK
  <1>4. NumReplicas \in Nat /\ MaxInflight \in Nat /\ Replicas = 0..(NumReplicas - 1)
    BY SchedulerAssumption DEF Replicas
  <1>5. ASSUME NEW r \in Replicas PROVE MaxInflight <= Cardinality(On(r))
    <2>1. inflight[r] >= MaxInflight
      BY <1>4 DEF Available, Healthy, Quiet, AllUp, Shapes
    <2>2. inflight[r] \in Nat /\ Cardinality(On(r)) \in Nat /\ inflight[r] <= Cardinality(On(r))
      BY OnFacts DEF Shapes, Quiet, Loads
    <2> QED BY <1>4, <2>1, <2>2
  <1>6. ASSUME NEW r \in Replicas PROVE On(r) \subseteq S
    <2>1. i \notin On(r)
      BY NotCalled DEF On
    <2> QED BY <2>1, OnFacts DEF Quiet
  <1>7. \A q, r \in Replicas : q # r => On(q) \cap On(r) = {}
    BY DEF On
  <1> HIDE DEF S
  <1>8. part \in [0..(NumReplicas - 1) -> SUBSET S] /\ \A r \in 0..(NumReplicas - 1) : part[r] = On(r)
    BY <1>4, <1>6
  <1> HIDE DEF part
  <1>9. /\ \A r \in 0..(NumReplicas - 1) : MaxInflight <= Cardinality(part[r])
        /\ \A q, r \in 0..(NumReplicas - 1) : q # r => part[q] \cap part[r] = {}
    BY <1>4, <1>5, <1>7, <1>8
  <1>10. NumReplicas * MaxInflight <= Cardinality(S)
    BY <1>2, <1>4, <1>8, <1>9, Pigeonhole
  <1>11. Concurrency <= NumReplicas * MaxInflight /\ NumReplicas * MaxInflight \in Nat
    BY <1>4 DEF Calm
  <1> QED BY <1>1, <1>2, <1>3, <1>10, <1>11
-----------------------------------------------------------------------------
LEMMA ShapesInit == BenchInit => Shapes
  BY DEF BenchInit, SchedulerInit, Shapes

LEMMA ChosenIsReplica ==
    ASSUME NEW hashes, NEW r \in Choice(hashes)
    PROVE  r \in Replicas /\ r \in Available
  BY DEF Choice, FirstInScan, CacheAwareChoice, BestScored, LeastLoaded, Available, Healthy

\* What the scheduler's methods do to health and load.
LEMMA MethodShapes ==
    ASSUME Shapes
    PROVE  /\ \A hashes : \A r \in Choice(hashes) : Pick(hashes, r) =>
                  healthy' = healthy /\ inflight' = [inflight EXCEPT ![r] = @ + 1]
           /\ \A r : Complete(r) =>
                  healthy' = healthy /\ inflight' = [inflight EXCEPT ![r] = IF @ = 0 THEN 0 ELSE @ - 1]
           /\ \A r : MarkUnhealthy(r) =>
                  /\ healthy' = [healthy EXCEPT ![r] = FALSE]
                  /\ inflight' = [inflight EXCEPT ![r] = 0]
           /\ \A r : MarkHealthy(r) =>
                  healthy' = [healthy EXCEPT ![r] = TRUE] /\ inflight' = inflight
           /\ PickFails => healthy' = healthy /\ inflight' = inflight
  BY DEF Pick, Complete, MarkUnhealthy, MarkHealthy, PickFails, schedVars

LEMMA ShapesNext == Shapes /\ [BenchNext]_benchVars => Shapes'
  <1> SUFFICES ASSUME Shapes, [BenchNext]_benchVars PROVE Shapes'
    OBVIOUS
  <1> DEFINE Scheduled ==
                 /\ healthy' \in [Replicas -> BOOLEAN]
                 /\ inflight' \in [Replicas -> Nat]
             Called == DOMAIN call' = Tasks /\ Tasks' = Tasks
  <1>1. ASSUME UNCHANGED schedVars PROVE Scheduled
    BY <1>1 DEF schedVars, Shapes
  <1>2. ASSUME NEW hashes, NEW r \in Choice(hashes), Pick(hashes, r) PROVE Scheduled
    BY <1>2, ChosenIsReplica, MethodShapes DEF Shapes
  <1>3. ASSUME NEW r, Complete(r) \/ MarkUnhealthy(r) \/ MarkHealthy(r) PROVE Scheduled
    <2>1. CASE Complete(r)
      <3>1. healthy' = healthy /\ inflight' = [inflight EXCEPT ![r] = IF @ = 0 THEN 0 ELSE @ - 1]
        BY <2>1, MethodShapes
      <3>2. \A q \in Replicas : inflight'[q] \in Nat
        BY <3>1 DEF Shapes
      <3> QED BY <3>1, <3>2 DEF Shapes
    <2>2. CASE MarkUnhealthy(r)
      <3>1. healthy' = [healthy EXCEPT ![r] = FALSE] /\ inflight' = [inflight EXCEPT ![r] = 0]
        BY <2>2, MethodShapes
      <3>2. healthy' \in [Replicas -> BOOLEAN]
        BY <3>1 DEF Shapes
      <3>3. inflight' \in [Replicas -> Nat]
        BY <3>1 DEF Shapes
      <3> QED BY <3>2, <3>3
    <2>3. CASE MarkHealthy(r)
      BY <2>3, MethodShapes DEF Shapes
    <2> QED BY <1>3, <2>1, <2>2, <2>3
  <1>4. ASSUME UNCHANGED call \/ (\E i, what : Moves(i, what)), convs' = convs PROVE Called
    BY <1>4 DEF Moves, Shapes, Tasks
  <1>5. ASSUME call' = [j \in Tasks |-> call'[j]], convs' = convs PROVE Called
    BY <1>5 DEF Tasks
  <1>6. ASSUME Scheduled, Called PROVE Shapes'
    BY <1>6 DEF Shapes
  <1> HIDE DEF Scheduled, Called
  <1>7. ASSUME NEW i \in Tasks, GoesOn(i) PROVE Shapes'
    <2>1. ASSUME NEW attempt, PickFor(i, attempt) PROVE Shapes'
      <3>1. Called
        BY <1>4, <2>1 DEF PickFor, loadVars
      <3>2. Scheduled
        BY <1>1, <1>2, <2>1 DEF PickFor, PickFails
      <3> QED BY <1>6, <3>1, <3>2
    <2>2. CASE TurnedAway(i)
      BY <1>1, <1>4, <1>6, <2>2 DEF TurnedAway, routerVars, Refused
    <2>3. CASE Prefills(i)
      BY <1>1, <1>4, <1>6, <2>3 DEF Prefills, loadVars
    <2>4. CASE Served(i) \/ TimesOut(i) \/ Breaks(i) \/ FailsOver(i)
      <3>1. Called
        BY <1>4, <2>4 DEF Served, TimesOut, Breaks, FailsOver, loadVars
      <3>2. Scheduled
        BY <1>3, <2>4 DEF Served, TimesOut, Breaks, FailsOver
      <3> QED BY <1>6, <3>1, <3>2
    <2>5. CASE Delivered(i)
      BY <1>1, <1>4, <1>6, <2>5 DEF Delivered, Answered, Refused
    <2> QED BY <1>7, <2>1, <2>2, <2>3, <2>4, <2>5 DEF GoesOn, Accepted, PicksAgain
  <1>8. ASSUME NEW i \in Tasks, TaskStarts(i) \/ Hangs(i) PROVE Shapes'
    BY <1>1, <1>4, <1>6, <1>8 DEF TaskStarts, Acquire, Hangs, routerVars, loadVars
  <1>9. ASSUME NEW r \in Replicas, Probed(r) PROVE Shapes'
    BY <1>3, <1>4, <1>6, <1>9 DEF Probed, loadVars
  <1>10. ASSUME NEW r \in Replicas, Restarts(r) PROVE Shapes'
    <2>1. call' = [j \in Tasks |-> call'[j]] /\ convs' = convs
      BY <1>10 DEF Restarts, loadVars
    <2> QED BY <1>1, <1>5, <1>6, <1>10, <2>1 DEF Restarts
  <1>11. CASE MetricsServerFails
    <2>1. call' = [j \in Tasks |-> call'[j]] /\ convs' = convs
      BY <1>11 DEF MetricsServerFails, loadVars
    <2> QED BY <1>1, <1>5, <1>6, <1>11, <2>1 DEF MetricsServerFails
  <1>12. CASE Starts \/ ShutdownSignal \/ Exits \/ Connects \/ MainJoins
    <2>1. UNCHANGED schedVars /\ UNCHANGED call /\ convs' = convs
      BY <1>12 DEF Starts, ShutdownSignal, Exits, Connects, MainJoins, Join, routerVars, loadVars
    <2> QED BY <1>1, <1>4, <1>6, <2>1
  <1>13. CASE UNCHANGED benchVars
    BY <1>1, <1>4, <1>6, <1>13 DEF benchVars, routerVars, loadVars
  <1> QED BY <1>7, <1>8, <1>9, <1>10, <1>11, <1>12, <1>13 DEF BenchNext

-----------------------------------------------------------------------------
\* After a fault there is trouble that a signal does not explain.
LEMMA FaultIsTrouble ==
    ASSUME NEW what \in {"died", "hang", "break", "probe", "restart"}, Fault(what)
    PROVE  ~Calm'
  BY DEF Fault, Calm

\* Trouble is never forgotten.
LEMMA TroubleGrows == [BenchNext]_benchVars => trouble \subseteq trouble'
  <1> SUFFICES ASSUME [BenchNext]_benchVars PROVE trouble \subseteq trouble'
    OBVIOUS
  <1> USE DEF worldVars, Fault
  <1>1. ASSUME NEW i \in Tasks, GoesOn(i) PROVE trouble \subseteq trouble'
    BY <1>1 DEF GoesOn, Accepted, PickFor, TurnedAway, Prefills, Served, TimesOut, Breaks,
                FailsOver, PicksAgain, Delivered
  <1>2. ASSUME NEW i \in Tasks, TaskStarts(i) \/ Hangs(i) PROVE trouble \subseteq trouble'
    BY <1>2 DEF TaskStarts, Hangs
  <1>3. ASSUME NEW r \in Replicas, Probed(r) \/ Restarts(r) PROVE trouble \subseteq trouble'
    BY <1>3 DEF Probed, Restarts
  <1>4. CASE Starts \/ ShutdownSignal \/ Exits \/ MetricsServerFails \/ Connects \/ MainJoins
    BY <1>4 DEF Starts, ShutdownSignal, Exits, MetricsServerFails, Connects, MainJoins
  <1>5. CASE UNCHANGED benchVars
    BY <1>5 DEF benchVars
  <1> QED BY <1>1, <1>2, <1>3, <1>4, <1>5 DEF BenchNext

LEMMA CalmBefore ==
    ASSUME [BenchNext]_benchVars, Calm'
    PROVE  Calm
  BY TroubleGrows DEF Calm
-----------------------------------------------------------------------------
\* Steps that touch neither health, load nor calls, and end no task's asking
\* while it has a request open.
LEMMA QuietSame ==
    ASSUME Shapes, Quiet, healthy' = healthy, inflight' = inflight, call' = call, convs' = convs,
           \A j \in Tasks : call[j] # NoCall => pc'[j] = pc[j]
    PROVE  Quiet'
  <1>1. Tasks' = Tasks
    BY DEF Tasks
  <1>2. \A r : On(r)' = On(r)
    BY <1>1 DEF On
  <1>3. Loads'
    BY <1>2 DEF Quiet, Loads
  <1> QED BY <1>1, <1>3 DEF Quiet, AllUp, CallsFit

\* Steps that change the call of one task.
LEMMA QuietMove ==
    ASSUME Shapes, Quiet, NEW i \in Tasks, NEW what, Moves(i, what), healthy' = healthy,
           convs' = convs,
           \A j \in Tasks \ {i} : pc'[j] = pc[j],
           what = NoCall \/ (pc'[i] = "asking" /\ CallFits(what)),
           Loads'
    PROVE  Quiet'
  <1>1. Tasks' = Tasks
    BY DEF Tasks
  <1>2. call'[i] = what /\ \A j \in Tasks \ {i} : call'[j] = call[j]
    BY DEF Moves, Shapes
  <1>3. AllUp'
    BY DEF Quiet, AllUp
  <1>4. CallsFit'
    BY <1>1, <1>2 DEF Quiet, CallsFit
  <1> QED BY <1>3, <1>4 DEF Quiet

\* pick, by a task whose request has no replica yet.
LEMMA QuietPick ==
    ASSUME PermitsOK, Shapes, Calm, Quiet, NEW i \in Tasks, Accepted(i)
    PROVE  Quiet'
  <1>1. /\ pc[i] = "asking" /\ call[i] = NoCall /\ PickFor(i, 1)
        /\ convs' = convs /\ pc' = pc
    BY DEF Accepted, PickFor, loadVars, taskVars
  <1>2. ~PickFails
    BY <1>1, SomeAvailable DEF PickFails
  <1> DEFINE what(r) == [at |-> "sent", attempt |-> 1, replica |-> r,
                         matched |-> MatchedBlocks(r, Prompt(i)), cached |-> 0]
  <1>3. PICK r \in Choice(Prompt(i)) : Pick(Prompt(i), r) /\ Moves(i, what(r))
    BY <1>1, <1>2 DEF PickFor
  <1>4. r \in Replicas /\ healthy' = healthy /\ inflight' = [inflight EXCEPT ![r] = @ + 1]
    BY <1>3, ChosenIsReplica, MethodShapes
  <1>5. /\ what(r).at = "sent" /\ what(r).replica = r
        /\ what(r) = [at |-> what(r).at, attempt |-> what(r).attempt, replica |-> what(r).replica,
                      matched |-> what(r).matched, cached |-> what(r).cached]
    OBVIOUS
  <1> HIDE DEF what
  <1>6. Tasks' = Tasks /\ call'[i] = what(r) /\ \A j \in Tasks \ {i} : call'[j] = call[j]
    BY <1>1, <1>3 DEF Moves, Shapes, Tasks
  <1>7. On(r)' = On(r) \cup {i} /\ i \notin On(r) /\ \A q \in Replicas \ {r} : On(q)' = On(q)
    BY <1>1, <1>5, <1>6, NotCalled DEF On
  <1>8. Loads'
    <2> SUFFICES ASSUME NEW q \in Replicas PROVE inflight'[q] <= Cardinality(On(q)')
      BY DEF Loads
    <2>1. /\ inflight[q] \in Nat /\ inflight[q] <= Cardinality(On(q))
          /\ IsFiniteSet(On(q)) /\ Cardinality(On(q)) \in Nat
      BY OnFacts DEF Quiet, Loads, Shapes
    <2>2. CASE q = r
      <3>1. Cardinality(On(q)') = Cardinality(On(q)) + 1
        BY <1>7, <2>1, <2>2, FS_AddElement
      <3>2. inflight'[q] = inflight[q] + 1
        BY <1>4, <2>2 DEF Shapes
      <3> QED BY <2>1, <3>1, <3>2
    <2>3. CASE q # r
      <3>1. inflight'[q] = inflight[q] /\ On(q)' = On(q)
        BY <1>4, <1>7, <2>3 DEF Shapes
      <3> QED BY <2>1, <3>1
    <2> QED BY <2>2, <2>3
  <1>9. pc'[i] = "asking" /\ CallFits(what(r))
    BY <1>1, <1>4, <1>5 DEF CallFits
  <1> QED BY <1>1, <1>3, <1>4, <1>8, <1>9, QuietMove

\* The replica takes the request: its load stays where it is.
LEMMA QuietPrefill ==
    ASSUME PermitsOK, Shapes, Quiet, NEW i \in Tasks, Prefills(i)
    PROVE  Quiet'
  <1>1. /\ call[i].at = "sent" /\ call[i] # NoCall
        /\ healthy' = healthy /\ inflight' = inflight /\ convs' = convs /\ pc' = pc
    BY NotCalled DEF Prefills, schedVars, loadVars, taskVars
  <1>2. pc[i] = "asking" /\ CallFits(call[i])
    BY <1>1 DEF Quiet, CallsFit
  <1> DEFINE what == [call[i] EXCEPT !.at = "prefilling",
                                     !.cached = CachedBlocks(sim[call[i].replica], Prompt(i))]
  <1>3. Moves(i, what)
    BY DEF Prefills
  <1>4. /\ call[i].replica \in Replicas
        /\ call[i] = [at |-> call[i].at, attempt |-> call[i].attempt, replica |-> call[i].replica,
                      matched |-> call[i].matched, cached |-> call[i].cached]
    BY <1>1, <1>2 DEF CallFits
  <1>5. what = [at |-> "prefilling", attempt |-> call[i].attempt, replica |-> call[i].replica,
                matched |-> call[i].matched,
                cached |-> CachedBlocks(sim[call[i].replica], Prompt(i))]
    <2> DEFINE now == CachedBlocks(sim[call[i].replica], Prompt(i))
               Around == [at : {call[i].at, "prefilling"}, attempt : {call[i].attempt},
                          replica : {call[i].replica}, matched : {call[i].matched},
                          cached : {call[i].cached, now}]
    <2>1. call[i] \in Around
      BY <1>4
    <2> HIDE DEF now
    <2>2. what \in Around
      BY <2>1 DEF now
    <2>3. /\ what.at = "prefilling" /\ what.cached = now
          /\ what.attempt = call[i].attempt /\ what.replica = call[i].replica
          /\ what.matched = call[i].matched
      BY <2>1 DEF now
    <2> HIDE DEF what
    <2> QED BY <2>2, <2>3 DEF now
  <1> HIDE DEF what
  <1>6. CallFits(what) /\ what.at = "prefilling" /\ what.replica = call[i].replica
    BY <1>4, <1>5 DEF CallFits
  <1>7. Tasks' = Tasks /\ call'[i] = what /\ \A j \in Tasks \ {i} : call'[j] = call[j]
    BY <1>1, <1>3 DEF Moves, Shapes, Tasks
  <1>8. \A q \in Replicas : On(q)' = On(q)
    BY <1>1, <1>6, <1>7 DEF On
  <1>9. Loads'
    BY <1>1, <1>8 DEF Quiet, Loads
  <1> QED BY <1>1, <1>2, <1>3, <1>6, <1>9, QuietMove

\* The response: the slot is free before the request is off the books.
LEMMA QuietServed ==
    ASSUME PermitsOK, Shapes, Quiet, NEW i \in Tasks, Served(i)
    PROVE  Quiet'
  <1>1. /\ call[i].at = "prefilling" /\ call[i] # NoCall
        /\ Complete(call[i].replica) /\ convs' = convs /\ pc' = pc
    BY NotCalled DEF Served, loadVars, taskVars
  <1>2. pc[i] = "asking" /\ CallFits(call[i])
    BY <1>1 DEF Quiet, CallsFit
  <1> DEFINE what == [at |-> "replied", cached |-> call[i].cached]
  <1>3. Moves(i, what) /\ what.at = "replied" /\ CallFits(what)
    BY DEF Served, CallFits
  <1>4. PICK r \in Replicas : r = call[i].replica
    BY <1>1, <1>2 DEF CallFits
  <1>5. healthy' = healthy /\ inflight' = [inflight EXCEPT ![r] = IF @ = 0 THEN 0 ELSE @ - 1]
    BY <1>1, <1>4, MethodShapes
  <1> HIDE DEF what
  <1>6. Tasks' = Tasks /\ call'[i] = what /\ \A j \in Tasks \ {i} : call'[j] = call[j]
    BY <1>1, <1>3 DEF Moves, Shapes, Tasks
  <1>7. On(r)' = On(r) \ {i} /\ i \in On(r) /\ \A q \in Replicas \ {r} : On(q)' = On(q)
    <2>1. i \in On(r) /\ \A q \in Replicas \ {r} : i \notin On(q)
      BY <1>1, <1>4 DEF On
    <2>2. \A q \in Replicas : i \notin On(q)'
      BY <1>3, <1>6 DEF On
    <2>3. \A q \in Replicas : \A j \in Tasks \ {i} : j \in On(q)' <=> j \in On(q)
      BY <1>6 DEF On
    <2>4. \A q \in Replicas : On(q) \subseteq Tasks /\ On(q)' \subseteq Tasks
      BY <1>6 DEF On
    <2> QED BY <1>4, <2>1, <2>2, <2>3, <2>4
  <1>8. Loads'
    <2> SUFFICES ASSUME NEW q \in Replicas PROVE inflight'[q] <= Cardinality(On(q)')
      BY DEF Loads
    <2>1. /\ inflight[q] \in Nat /\ inflight[q] <= Cardinality(On(q))
          /\ IsFiniteSet(On(q)) /\ Cardinality(On(q)) \in Nat
      BY OnFacts DEF Quiet, Loads, Shapes
    <2>2. CASE q = r
      <3>1. Cardinality(On(q)') = Cardinality(On(q)) - 1 /\ Cardinality(On(q)') \in Nat
        <4>1. IsFiniteSet(On(q)')
          BY <1>7, <2>1, <2>2, FS_Subset
        <4> QED BY <1>7, <2>1, <2>2, <4>1, FS_RemoveElement, FS_CardinalityType
      <3>2. inflight'[q] = IF inflight[q] = 0 THEN 0 ELSE inflight[q] - 1
        BY <1>5, <2>2 DEF Shapes
      <3> QED BY <2>1, <3>1, <3>2
    <2>3. CASE q # r
      <3>1. inflight'[q] = inflight[q] /\ On(q)' = On(q)
        BY <1>5, <1>7, <2>3 DEF Shapes
      <3> QED BY <2>1, <3>1
    <2> QED BY <2>2, <2>3
  <1>9. pc'[i] = "asking"
    BY <1>1, <1>2
  <1> QED BY <1>1, <1>3, <1>5, <1>8, <1>9, QuietMove

LEMMA QuietDelivered ==
    ASSUME PermitsOK, Shapes, Quiet, NEW i \in Tasks, Delivered(i)
    PROVE  Quiet'
  <1>1. /\ Moves(i, NoCall) /\ healthy' = healthy /\ inflight' = inflight
        /\ call[i].at \in {"replied", "failed"} /\ call[i] # NoCall
    BY NotCalled DEF Delivered, schedVars
  <1>2. convs' = convs /\ \A j \in Tasks \ {i} : pc'[j] = pc[j]
    BY DEF Delivered, Answered, Refused, Finish, PermitsOK
  <1>3. Tasks' = Tasks /\ call'[i] = NoCall /\ \A j \in Tasks \ {i} : call'[j] = call[j]
    BY <1>1, <1>2 DEF Moves, Shapes, Tasks
  <1>4. \A q \in Replicas : On(q)' = On(q)
    BY <1>1, <1>3, NotCalled DEF On
  <1>5. Loads'
    BY <1>1, <1>4 DEF Quiet, Loads
  <1> QED BY <1>1, <1>2, <1>5, QuietMove

LEMMA QuietNext ==
    ASSUME PermitsOK, Shapes, Calm, Calm', Quiet, [BenchNext]_benchVars
    PROVE  Quiet'
  <1>1. ASSUME UNCHANGED <<healthy, inflight, call, convs, pc>> PROVE Quiet'
    BY <1>1, QuietSame
  <1>2. ASSUME NEW i \in Tasks, GoesOn(i) PROVE Quiet'
    <2>0. call[i].at \in {"none", "sent", "prefilling", "replied"}
      BY NotCalled DEF Quiet, CallsFit, CallFits
    <2>1. CASE Accepted(i)
      BY <2>1, QuietPick
    <2>2. CASE TurnedAway(i)
      <3>1. /\ call[i] = NoCall /\ healthy' = healthy /\ inflight' = inflight /\ call' = call
            /\ convs' = convs /\ pc' = [pc EXCEPT ![i] = "done"]
        BY <2>2 DEF TurnedAway, routerVars, schedVars, Refused, Finish
      <3>2. \A j \in Tasks : call[j] # NoCall => pc'[j] = pc[j]
        BY <3>1 DEF PermitsOK
      <3> QED BY <3>1, <3>2, QuietSame
    <2>3. CASE Prefills(i)
      BY <2>3, QuietPrefill
    <2>4. CASE Served(i)
      BY <2>4, QuietServed
    <2>5. ~TimesOut(i) /\ ~FailsOver(i) /\ ~PicksAgain(i)
      BY <2>0 DEF TimesOut, FailsOver, PicksAgain
    <2>6. ~Breaks(i)
      BY <2>0, FaultIsTrouble DEF Breaks
    <2>7. CASE Delivered(i)
      BY <2>7, QuietDelivered
    <2> QED BY <1>2, <2>1, <2>2, <2>3, <2>4, <2>5, <2>6, <2>7 DEF GoesOn
  <1>3. ASSUME NEW i \in Tasks, TaskStarts(i) PROVE Quiet'
    <2>1. /\ healthy' = healthy /\ inflight' = inflight /\ call' = call /\ convs' = convs
          /\ pc[i] = "queued" /\ pc' = [pc EXCEPT ![i] = "asking"]
      BY <1>3 DEF TaskStarts, Acquire, routerVars, schedVars
    <2>2. \A j \in Tasks : call[j] # NoCall => pc'[j] = pc[j]
      BY <2>1 DEF Quiet, CallsFit, PermitsOK
    <2> QED BY <2>1, <2>2, QuietSame
  <1>4. ASSUME NEW i \in Tasks PROVE ~Hangs(i)
    BY FaultIsTrouble DEF Hangs
  <1>5. ASSUME NEW r \in Replicas PROVE ~Restarts(r)
    BY FaultIsTrouble DEF Restarts
  <1>6. ASSUME NEW r \in Replicas PROVE ~Probed(r)
    BY FaultIsTrouble DEF Probed, Quiet, AllUp
  <1>7. ~MetricsServerFails
    BY FaultIsTrouble DEF MetricsServerFails
  <1>8. CASE Starts \/ ShutdownSignal \/ Exits \/ Connects \/ MainJoins
    BY <1>1, <1>8 DEF Starts, ShutdownSignal, Exits, Connects, MainJoins, Join, routerVars,
                      schedVars, loadVars, taskVars
  <1>9. CASE UNCHANGED benchVars
    BY <1>1, <1>9 DEF benchVars, routerVars, schedVars, loadVars, taskVars
  <1> QED BY <1>2, <1>3, <1>4, <1>5, <1>6, <1>7, <1>8, <1>9 DEF BenchNext

LEMMA BenchInitOK == BenchInit => BenchOK
  <1> SUFFICES ASSUME BenchInit PROVE BenchOK
    OBVIOUS
  <1>1. /\ healthy = [r \in Replicas |-> TRUE] /\ inflight = [r \in Replicas |-> 0]
        /\ call = [i \in Tasks |-> NoCall]
    BY DEF BenchInit, SchedulerInit
  <1>2. PermitsOK
    BY PermitsInit
  <1>3. AllUp /\ CallsFit
    BY <1>1 DEF AllUp, CallsFit
  <1>4. Loads
    BY <1>1, <1>2, <1>3, OnFacts DEF Loads
  <1> QED BY <1>2, <1>3, <1>4, ShapesInit DEF BenchOK, Quiet

LEMMA BenchNextOK == BenchOK /\ [BenchNext]_benchVars => BenchOK'
  <1> SUFFICES ASSUME BenchOK, [BenchNext]_benchVars PROVE BenchOK'
    OBVIOUS
  <1>1. PermitsOK' /\ Shapes'
    BY PermitsNext, ShapesNext DEF BenchOK
  <1>2. ASSUME Calm' PROVE Quiet'
    <2>1. Calm
      BY <1>2, CalmBefore
    <2> QED BY <1>2, <2>1, QuietNext DEF BenchOK
  <1> QED BY <1>1, <1>2 DEF BenchOK

\* While no call, replica or probe has failed, and the caps together would do,
\* the router refuses no request it has accepted, told to shut down or not
\* (server.rs:149-176, main.rs:46-47).
THEOREM NoneRefusedWithoutCause == BenchSpec => []NoSpuriousRefusal
  <1>1. BenchOK => NoSpuriousRefusal
    <2>1. ASSUME BenchOK, Calm, NEW i \in Tasks PROVE call[i].at # "failed"
      BY <2>1, NotCalled DEF BenchOK, Quiet, CallsFit, CallFits
    <2> QED BY <2>1 DEF NoSpuriousRefusal, Calm
  <1> QED BY <1>1, BenchInitOK, BenchNextOK, PTL DEF BenchSpec
-----------------------------------------------------------------------------
\* What the load generator's state says of each task and of what main has joined.

Reply == [cached : Nat, total : Nat]

\* A task has an answer to each prompt it sent, but for the last one while it
\* waits, or if that is the one that failed.
TaskFits(i) ==
    /\ results[i] \in Seq(Reply)
    /\ \/ pc[i] = "queued" /\ turn[i] = 0 /\ Len(results[i]) = 0 /\ ~failed[i]
       \/ /\ pc[i] = "asking" /\ turn[i] \in 1..Len(convs[i])
          /\ Len(results[i]) = turn[i] - 1 /\ ~failed[i]
       \/ /\ pc[i] = "done" /\ turn[i] \in 1..Len(convs[i])
          /\ Len(results[i]) = IF failed[i] THEN turn[i] - 1 ELSE Len(convs[i])
          /\ ~failed[i] => turn[i] = Len(convs[i])

TasksFit ==
    /\ pc \in [Tasks -> {"queued", "asking", "done"}] /\ turn \in [Tasks -> Nat]
    /\ DOMAIN results = Tasks /\ failed \in [Tasks -> BOOLEAN]
    /\ \A i \in Tasks : TaskFits(i)

TurnsUpTo(n) == [i \in 1..n |-> turn[i]]

\* main has collected what the tasks it joined have, and those are done.
MainFits ==
    /\ joined \in 0..Len(convs)
    /\ \A i \in 1..joined : pc[i] = "done"
    /\ all \in Seq(Reply)
    /\ failures = Cardinality({i \in 1..joined : failed[i]})
    /\ Len(all) + failures = Sum(TurnsUpTo(joined))

LoadOK == convs \in Seq(Conversations) /\ TasksFit /\ MainFits

LEMMA ConvFacts ==
    ASSUME convs \in Seq(Conversations)
    PROVE  /\ Tasks = 1..Len(convs) /\ Len(convs) \in Nat /\ IsFiniteSet(Tasks)
           /\ \A i \in Tasks : convs[i] \in Seq(Texts) /\ Len(convs[i]) \in Nat \ {0}
  <1>1. Tasks = 1..Len(convs) /\ Len(convs) \in Nat
    BY DEF Tasks
  <1>2. ASSUME NEW i \in Tasks PROVE convs[i] \in Seq(Texts) /\ Len(convs[i]) \in Nat \ {0}
    <2>1. convs[i] \in Seq(Texts) /\ convs[i] # <<>>
      BY <1>1 DEF Conversations
    <2> QED BY <2>1
  <1> QED BY <1>1, <1>2, FS_Interval

LEMMA LoadInitOK == LoadInit => LoadOK
  <1> SUFFICES ASSUME LoadInit PROVE LoadOK
    OBVIOUS
  <1>1. convs \in Seq(Conversations)
    BY LoadFacts DEF LoadInit
  <1>2. TasksFit
    BY DEF LoadInit, TasksFit, TaskFits
  <1>3. MainFits
    <2>1. joined = 0 /\ all = <<>> /\ failures = 0
      BY DEF LoadInit
    <2>2. 1..joined = {} /\ {i \in 1..joined : failed[i]} = {}
      BY <2>1
    <2>3. Sum(TurnsUpTo(joined)) = 0
      BY <2>2, SumEmpty DEF TurnsUpTo
    <2> QED BY <1>1, <2>1, <2>2, <2>3, ConvFacts, FS_EmptySet DEF MainFits
  <1> QED BY <1>1, <1>2, <1>3 DEF LoadOK

\* A step of one task that is not done.
OthersStay(i) ==
    /\ pc' \in [Tasks -> {"queued", "asking", "done"}] /\ turn' \in [Tasks -> Nat]
    /\ DOMAIN results' = Tasks /\ failed' \in [Tasks -> BOOLEAN]
    /\ \A j \in Tasks \ {i} : /\ pc'[j] = pc[j] /\ turn'[j] = turn[j]
                             /\ results'[j] = results[j] /\ failed'[j] = failed[j]

LEMMA TaskStep ==
    ASSUME LoadOK, NEW i \in Tasks, pc[i] # "done", UNCHANGED <<convs, mainVars>>,
           OthersStay(i), TaskFits(i)'
    PROVE  LoadOK'
  <1>1. convs' = convs /\ Tasks' = Tasks /\ joined' = joined /\ all' = all /\ failures' = failures
    BY DEF mainVars, Tasks
  <1>2. TasksFit'
    <2>1. ASSUME NEW j \in Tasks \ {i} PROVE TaskFits(j)'
      BY <1>1 DEF LoadOK, TasksFit, TaskFits, OthersStay
    <2> QED BY <1>1, <2>1 DEF TasksFit, OthersStay
  <1>3. MainFits'
    <2>1. /\ joined \in 0..Len(convs) /\ Tasks = 1..Len(convs) /\ Len(convs) \in Nat
          /\ \A j \in 1..joined : pc[j] = "done"
      BY ConvFacts DEF LoadOK, MainFits
    <2>2. \A j \in 1..joined : j \in Tasks \ {i}
      BY <2>1
    <2>3. \A j \in 1..joined : pc'[j] = pc[j] /\ turn'[j] = turn[j] /\ failed'[j] = failed[j]
      BY <2>2 DEF OthersStay
    <2>4. {j \in 1..joined : failed[j]}' = {j \in 1..joined : failed[j]}
      BY <1>1, <2>3
    <2>5. TurnsUpTo(joined)' = TurnsUpTo(joined)
      BY <1>1, <2>3 DEF TurnsUpTo
    <2> QED BY <1>1, <2>1, <2>3, <2>4, <2>5 DEF LoadOK, MainFits
  <1> QED BY <1>1, <1>2, <1>3 DEF LoadOK

LEMMA LoadAcquire ==
    ASSUME LoadOK, NEW i \in Tasks, Acquire(i)
    PROVE  LoadOK'
  <1>1. /\ pc[i] = "queued" /\ pc' = [pc EXCEPT ![i] = "asking"] /\ turn' = [turn EXCEPT ![i] = 1]
        /\ convs' = convs /\ results' = results /\ failed' = failed /\ UNCHANGED mainVars
    BY DEF Acquire
  <1>2. OthersStay(i)
    BY <1>1 DEF LoadOK, TasksFit, OthersStay
  <1>3. TaskFits(i)'
    BY <1>1, ConvFacts DEF LoadOK, TasksFit, TaskFits
  <1> QED BY <1>1, <1>2, <1>3, TaskStep

LEMMA LoadAnswered ==
    ASSUME LoadOK, NEW i \in Tasks, NEW reply \in Reply, Answered(i, reply)
    PROVE  LoadOK'
  <1>1. /\ pc[i] = "asking" /\ results' = [results EXCEPT ![i] = Append(@, reply)]
        /\ convs' = convs /\ failed' = failed /\ UNCHANGED mainVars
    BY DEF Answered
  <1>2. /\ results[i] \in Seq(Reply) /\ turn[i] \in 1..Len(convs[i]) /\ Len(convs[i]) \in Nat
        /\ Len(results[i]) = turn[i] - 1 /\ ~failed[i]
    BY <1>1, ConvFacts DEF LoadOK, TasksFit, TaskFits
  <1>3. results'[i] \in Seq(Reply) /\ Len(results'[i]) = turn[i]
    BY <1>1, <1>2 DEF LoadOK, TasksFit
  <1>4. CASE turn[i] = Len(convs[i])
    <2>1. pc' = [pc EXCEPT ![i] = "done"] /\ turn' = turn
      BY <1>4 DEF Answered, Finish
    <2>2. OthersStay(i)
      BY <1>1, <2>1 DEF LoadOK, TasksFit, OthersStay
    <2>3. TaskFits(i)'
      BY <1>1, <1>2, <1>3, <1>4, <2>1 DEF LoadOK, TasksFit, TaskFits
    <2> QED BY <1>1, <2>2, <2>3, TaskStep
  <1>5. CASE turn[i] # Len(convs[i])
    <2>1. turn' = [turn EXCEPT ![i] = @ + 1] /\ pc' = pc
      BY <1>5 DEF Answered
    <2>2. OthersStay(i)
      BY <1>1, <2>1 DEF LoadOK, TasksFit, OthersStay
    <2>3. TaskFits(i)'
      BY <1>1, <1>2, <1>3, <1>5, <2>1 DEF LoadOK, TasksFit, TaskFits
    <2> QED BY <1>1, <2>2, <2>3, TaskStep
  <1> QED BY <1>4, <1>5

LEMMA LoadRefused ==
    ASSUME LoadOK, NEW i \in Tasks, Refused(i)
    PROVE  LoadOK'
  <1>1. /\ pc[i] = "asking" /\ failed' = [failed EXCEPT ![i] = TRUE]
        /\ pc' = [pc EXCEPT ![i] = "done"] /\ turn' = turn
        /\ convs' = convs /\ results' = results /\ UNCHANGED mainVars
    BY DEF Refused, Finish
  <1>2. OthersStay(i)
    BY <1>1 DEF LoadOK, TasksFit, OthersStay
  <1>3. TaskFits(i)'
    BY <1>1, ConvFacts DEF LoadOK, TasksFit, TaskFits
  <1> QED BY <1>1, <1>2, <1>3, TaskStep

\* main joins a task: what it adds to its results and to its count of failures
\* is what the task has sent.
LEMMA LoadJoin ==
    ASSUME LoadOK, Join
    PROVE  LoadOK'
  <1>1. /\ joined < Len(convs) /\ pc[joined + 1] = "done" /\ joined' = joined + 1
        /\ all' = all \o results[joined + 1]
        /\ failures' = failures + (IF failed[joined + 1] THEN 1 ELSE 0)
        /\ convs' = convs /\ pc' = pc /\ turn' = turn /\ results' = results /\ failed' = failed
    BY DEF Join, taskVars
  <1>2. PICK i \in Nat : i = joined + 1
    BY DEF LoadOK, MainFits
  <1>3. /\ joined \in Nat /\ i \in Tasks /\ i \notin 1..joined /\ 1..i = (1..joined) \cup {i}
        /\ Tasks = 1..Len(convs) /\ joined' \in 0..Len(convs)
    BY <1>1, <1>2, ConvFacts DEF LoadOK, MainFits
  <1>13. PICK more \in Nat : more = IF failed[i] THEN 1 ELSE 0
    OBVIOUS
  <1>14. failures' = failures + more
    BY <1>1, <1>2, <1>13
  <1>4. /\ results[i] \in Seq(Reply) /\ turn[i] \in Nat /\ Len(results[i]) \in Nat
        /\ Len(results[i]) + more = turn[i]
    BY <1>1, <1>2, <1>3, <1>13, ConvFacts DEF LoadOK, TasksFit, TaskFits
  <1>5. all' \in Seq(Reply) /\ Len(all') = Len(all) + Len(results[i]) /\ Len(all) \in Nat
    BY <1>1, <1>2, <1>4 DEF LoadOK, MainFits
  <1>6. /\ IsFiniteSet({j \in 1..joined : failed[j]}) /\ failures \in Nat
        /\ failures = Cardinality({j \in 1..joined : failed[j]})
    <2>1. IsFiniteSet(1..joined)
      BY <1>3, FS_Interval
    <2>2. {j \in 1..joined : failed[j]} \subseteq 1..joined
      OBVIOUS
    <2>3. failures = Cardinality({j \in 1..joined : failed[j]})
      BY DEF LoadOK, MainFits
    <2> QED BY <2>1, <2>2, <2>3, FS_Subset, FS_CardinalityType
  <1>7. failures' = Cardinality({j \in 1..i : failed[j]})
    <2> DEFINE F == {j \in 1..joined : failed[j]}
    <2>1. CASE failed[i]
      <3>1. {j \in 1..i : failed[j]} = F \cup {i} /\ i \notin F
        BY <1>3, <2>1
      <3> HIDE DEF F
      <3>2. Cardinality(F \cup {i}) = Cardinality(F) + 1
        BY <1>6, <3>1, FS_AddElement DEF F
      <3> QED BY <1>13, <1>14, <1>6, <2>1, <3>1, <3>2 DEF F
    <2>2. CASE ~failed[i]
      <3>1. {j \in 1..i : failed[j]} = F
        BY <1>3, <2>2
      <3> QED BY <1>13, <1>14, <1>6, <2>2, <3>1
    <2> QED BY <2>1, <2>2
  <1>8. Sum(TurnsUpTo(i)) = Sum(TurnsUpTo(joined)) + turn[i] /\ Sum(TurnsUpTo(joined)) \in Nat
    <2>1. \A j \in 1..i : turn[j] \in Nat
      BY <1>2, <1>3, ConvFacts DEF LoadOK, TasksFit, TaskFits
    <2> DEFINE f == TurnsUpTo(joined)
               g == TurnsUpTo(i)
    <2>5. PICK D : D = 1..joined
      OBVIOUS
    <2>2. /\ f \in [D -> Nat] /\ g \in [D \cup {i} -> Nat] /\ i \notin D
          /\ \A j \in D : g[j] = f[j]
          /\ g[i] = turn[i]
      BY <1>2, <1>3, <2>1, <2>5 DEF TurnsUpTo
    <2>3. IsFiniteSet(D)
      BY <1>3, <2>5, FS_Interval
    <2> HIDE DEF f, g
    <2>4. Sum(g) = Sum(f) + g[i] /\ Sum(f) \in Nat
      BY <2>2, <2>3, SumExtended
    <2> QED BY <2>2, <2>4 DEF f, g
  <1>9. Len(all) + failures = Sum(TurnsUpTo(joined))
    BY DEF LoadOK, MainFits
  <1>10. Len(all') + failures' = Sum(TurnsUpTo(i))
    BY <1>14, <1>4, <1>5, <1>6, <1>8, <1>9
  <1>11. MainFits'
    <2>1. TurnsUpTo(joined)' = TurnsUpTo(i)
      BY <1>1, <1>2 DEF TurnsUpTo
    <2>2. \A j \in 1..i : pc[j] = "done"
      BY <1>1, <1>2, <1>3 DEF LoadOK, MainFits
    <2> QED BY <1>1, <1>2, <1>3, <1>5, <1>7, <1>10, <2>1, <2>2 DEF MainFits
  <1>12. TasksFit'
    BY <1>1 DEF LoadOK, TasksFit, TaskFits, Tasks
  <1> QED BY <1>1, <1>11, <1>12 DEF LoadOK

LEMMA LoadSame == LoadOK /\ UNCHANGED loadVars => LoadOK'
  BY DEF LoadOK, TasksFit, TaskFits, MainFits, TurnsUpTo, Tasks, loadVars, taskVars, mainVars
-----------------------------------------------------------------------------
\* What the states of router and replicas are made of.

\* A request a replica has, or had.
Held == [at : {"sent", "prefilling", "hung", "lost", "markDown"}, attempt : {1, 2},
         replica : Replicas, matched : Nat, cached : Nat]

CallSet == {NoCall} \cup [at : {"picking", "failed"}] \cup [at : {"replied"}, cached : Nat] \cup Held

CallsTyped ==
    /\ DOMAIN call = Tasks
    /\ \A i \in Tasks : call[i] \in CallSet /\ (call[i] # NoCall => pc[i] = "asking")

SchedOK == SchedulerTypeOK /\ \A r \in Replicas : CacheInv(cache[r])

ReplicasOK ==
    /\ DOMAIN sim = Replicas
    /\ \A r \in Replicas : CacheInv(sim[r]) /\ NumBlocks(sim[r]) <= Capacity
    /\ counted \in [Replicas -> Reply]
    /\ \A r \in Replicas : counted[r].cached <= counted[r].total

ProcessOK ==
    /\ router \in {"starting", "serving", "draining", "exited"}
    /\ served \in [requests : Nat, matched : Nat, prompt : Nat]

BenchTyped == LoadOK /\ PermitsOK /\ CallsTyped /\ SchedOK /\ ReplicasOK /\ ProcessOK

LEMMA BenchTypedInit == BenchInit => BenchTyped
  <1> SUFFICES ASSUME BenchInit PROVE BenchTyped
    OBVIOUS
  <1>1. LoadOK /\ PermitsOK
    BY LoadInitOK, PermitsInit DEF BenchInit
  <1>2. CallsTyped
    BY DEF BenchInit, CallsTyped, CallSet
  <1>3. 0 \in Replicas
    BY SchedulerAssumption DEF Replicas
  <1>4. SchedOK
    BY <1>3, NewCacheInv DEF BenchInit, SchedulerInit, SchedOK, SchedulerTypeOK
  <1>5. ReplicasOK
    <2>1. NumBlocks(NewKvCache) = 0
      BY FS_EmptySet DEF NumBlocks, NewKvCache, NewCache
    <2>2. CacheInv(NewKvCache)
      BY NewCacheInv DEF NewKvCache
    <2> QED BY <2>1, <2>2, CapacityAssumption DEF BenchInit, ReplicasOK, NoBlocks, Reply
  <1>6. ProcessOK
    BY DEF BenchInit, ProcessOK, NothingServed
  <1> QED BY <1>1, <1>2, <1>4, <1>5, <1>6 DEF BenchTyped

\* The blocks of the prompt a task is asking about.
LEMMA PromptFacts ==
    ASSUME LoadOK, NEW i \in Tasks, pc[i] = "asking"
    PROVE  Prompt(i) \in Chains \cup {<<>>} /\ Len(Prompt(i)) \in Nat
  <1>1. turn[i] \in 1..Len(convs[i]) /\ convs[i] \in Seq(Texts)
    BY ConvFacts DEF LoadOK, TasksFit, TaskFits
  <1>2. convs[i][turn[i]] \in Texts
    BY <1>1
  <1>3. Prompt(i) \in Chains \cup {<<>>}
    BY <1>2, TextsHash DEF Prompt
  <1> QED BY <1>3, ChainFacts

\* How much of a prompt is found.
LEMMA LookupBounds ==
    ASSUME NEW c, NEW hashes \in Chains \cup {<<>>}
    PROVE  Lookup(c, hashes) \in Nat /\ Lookup(c, hashes) <= Len(hashes) /\ Len(hashes) \in Nat
  <1>1. DOMAIN hashes = 1..Len(hashes) /\ Len(hashes) \in Nat
    BY ChainFacts
  <1>2. IsFiniteSet(DOMAIN hashes) /\ Cardinality(DOMAIN hashes) = Len(hashes)
    BY <1>1, FS_Interval
  <1>3. Leading(c, hashes) \subseteq DOMAIN hashes
    BY DEF Leading
  <1> QED BY <1>1, <1>2, <1>3, FS_Subset, FS_CardinalityType DEF Lookup

LEMMA LoadNext == BenchTyped /\ [BenchNext]_benchVars => LoadOK'
  <1> SUFFICES ASSUME BenchTyped, [BenchNext]_benchVars PROVE LoadOK'
    OBVIOUS
  <1>1. ASSUME UNCHANGED loadVars PROVE LoadOK'
    BY <1>1, LoadSame DEF BenchTyped
  <1>2. ASSUME NEW i \in Tasks, TaskStarts(i) PROVE LoadOK'
    BY <1>2, LoadAcquire DEF BenchTyped, TaskStarts
  <1>3. CASE MainJoins
    BY <1>3, LoadJoin DEF BenchTyped, MainJoins
  <1>4. ASSUME NEW i \in Tasks, GoesOn(i) PROVE LoadOK'
    <2>1. CASE Accepted(i)
      BY <1>1, <2>1 DEF Accepted, PickFor
    <2>2. CASE TurnedAway(i)
      BY <2>2, LoadRefused DEF BenchTyped, TurnedAway
    <2>3. CASE Prefills(i)
      BY <1>1, <2>3 DEF Prefills
    <2>4. CASE Served(i)
      BY <1>1, <2>4 DEF Served
    <2>5. CASE TimesOut(i)
      BY <1>1, <2>5 DEF TimesOut
    <2>6. CASE Breaks(i)
      BY <1>1, <2>6 DEF Breaks
    <2>7. CASE FailsOver(i)
      BY <1>1, <2>7 DEF FailsOver
    <2>8. CASE PicksAgain(i)
      BY <1>1, <2>8 DEF PicksAgain, PickFor
    <2>9. CASE Delivered(i)
      <3>1. CASE Refused(i)
        BY <3>1, LoadRefused DEF BenchTyped
      <3>2. CASE ~Refused(i)
        <4> DEFINE reply == [cached |-> call[i].cached, total |-> Len(Prompt(i))]
        <4>1. call[i].at = "replied" /\ Answered(i, reply)
          BY <2>9, <3>2 DEF Delivered
        <4>2. call[i].cached \in Nat
          BY <4>1 DEF BenchTyped, CallsTyped, CallSet, NoCall, Held
        <4>3. reply \in Reply
          BY <4>1, <4>2, PromptFacts DEF BenchTyped, Reply, Answered
        <4> HIDE DEF reply
        <4> QED BY <4>1, <4>3, LoadAnswered DEF BenchTyped
      <3> QED BY <3>1, <3>2
    <2> QED BY <1>4, <2>1, <2>2, <2>3, <2>4, <2>5, <2>6, <2>7, <2>8, <2>9 DEF GoesOn
  <1>5. ASSUME NEW i \in Tasks, Hangs(i) PROVE LoadOK'
    BY <1>1, <1>5 DEF Hangs
  <1>6. ASSUME NEW r \in Replicas, Probed(r) \/ Restarts(r) PROVE LoadOK'
    BY <1>1, <1>6 DEF Probed, Restarts
  <1>7. CASE Starts \/ ShutdownSignal \/ Exits \/ MetricsServerFails \/ Connects
    BY <1>1, <1>7 DEF Starts, ShutdownSignal, Exits, MetricsServerFails, Connects
  <1>8. CASE UNCHANGED benchVars
    BY <1>1, <1>8 DEF benchVars
  <1> QED BY <1>2, <1>3, <1>4, <1>5, <1>6, <1>7, <1>8 DEF BenchNext
-----------------------------------------------------------------------------
\* The scheduler's methods, as the handlers and the prober call them.

LEMMA PickTyped ==
    ASSUME SchedOK, NEW hashes \in Chains \cup {<<>>}, NEW r \in Choice(hashes), Pick(hashes, r)
    PROVE  SchedOK' /\ MatchedBlocks(r, hashes) \in Nat /\ r \in Replicas
  <1>1. r \in Replicas
    BY ChosenIsReplica
  <1>2. healthy' = healthy /\ inflight' = [inflight EXCEPT ![r] = @ + 1]
    BY DEF Pick
  <1>3. DOMAIN cache' = Replicas /\ \A q \in Replicas : CacheInv(cache'[q])
    <2>1. CASE Policy = "RoundRobin"
      BY <2>1 DEF Pick, SchedOK, SchedulerTypeOK
    <2>2. CASE Policy # "RoundRobin"
      <3>1. cache' = [cache EXCEPT ![r] = EvictTo(Insert(cache[r], hashes), BlockBudget)]
        BY <2>2 DEF Pick
      <3>2. CacheInv(EvictTo(Insert(cache[r], hashes), BlockBudget))
        BY <1>1, InsertFacts, EvictPreserves, SchedulerAssumption DEF SchedOK
      <3> QED BY <1>1, <3>1, <3>2 DEF SchedOK, SchedulerTypeOK
    <2> QED BY <2>1, <2>2
  <1>4. rrNext' \in Replicas
    <2>1. (r + 1) % NumReplicas \in Replicas
      BY <1>1, SchedulerAssumption DEF Replicas
    <2> QED BY <2>1 DEF Pick, SchedOK, SchedulerTypeOK
  <1>5. MatchedBlocks(r, hashes) \in Nat
    BY LookupBounds DEF MatchedBlocks
  <1> QED BY <1>1, <1>2, <1>3, <1>4, <1>5 DEF SchedOK, SchedulerTypeOK

LEMMA MethodTyped ==
    ASSUME SchedOK, NEW r, Complete(r) \/ MarkUnhealthy(r) \/ MarkHealthy(r)
    PROVE  SchedOK'
  <1>1. CASE Complete(r)
    <2>1. /\ healthy' = healthy /\ cache' = cache /\ rrNext' = rrNext
          /\ inflight' = [inflight EXCEPT ![r] = IF @ = 0 THEN 0 ELSE @ - 1]
      BY <1>1 DEF Complete
    <2>2. \A q \in Replicas : inflight'[q] \in Nat
      BY <2>1 DEF SchedOK, SchedulerTypeOK
    <2> QED BY <2>1, <2>2 DEF SchedOK, SchedulerTypeOK
  <1>2. CASE MarkUnhealthy(r)
    <2>1. /\ healthy' = [healthy EXCEPT ![r] = FALSE] /\ inflight' = [inflight EXCEPT ![r] = 0]
          /\ cache' = [cache EXCEPT ![r] = NewCache] /\ rrNext' = rrNext
      BY <1>2 DEF MarkUnhealthy
    <2>2. healthy' \in [Replicas -> BOOLEAN]
      BY <2>1 DEF SchedOK, SchedulerTypeOK
    <2>3. inflight' \in [Replicas -> Nat]
      BY <2>1 DEF SchedOK, SchedulerTypeOK
    <2>4. DOMAIN cache' = Replicas /\ \A q \in Replicas : CacheInv(cache'[q])
      BY <2>1, NewCacheInv DEF SchedOK, SchedulerTypeOK
    <2> QED BY <2>1, <2>2, <2>3, <2>4 DEF SchedOK, SchedulerTypeOK
  <1>3. CASE MarkHealthy(r)
    BY <1>3 DEF MarkHealthy, SchedOK, SchedulerTypeOK
  <1> QED BY <1>1, <1>2, <1>3

\* What a request's handler is moved to.
LEMMA CallMoves ==
    ASSUME CallsTyped, NEW i \in Tasks, NEW what, Moves(i, what), what \in CallSet,
           convs' = convs, pc' = pc, pc[i] = "asking"
    PROVE  CallsTyped'
  <1>1. call'[i] = what /\ \A j \in Tasks \ {i} : call'[j] = call[j]
    BY DEF Moves, CallsTyped
  <1> QED BY <1>1 DEF CallsTyped, Moves, Tasks

LEMMA CallsSame ==
    ASSUME CallsTyped, call' = call, convs' = convs,
           \A j \in Tasks : call[j] # NoCall => pc'[j] = pc[j]
    PROVE  CallsTyped'
  BY DEF CallsTyped, Tasks

\* A request that a replica has is moved on with what is known of it.
LEMMA HeldMoves ==
    ASSUME CallsTyped, NEW i \in Tasks, call[i].at \in {"sent", "prefilling", "hung", "lost", "markDown"}
    PROVE  /\ call[i] \in Held /\ pc[i] = "asking" /\ call[i].replica \in Replicas
           /\ \A at \in {"sent", "prefilling", "hung", "lost", "markDown"} :
                  [call[i] EXCEPT !.at = at] \in Held
           /\ \A cached \in Nat : [call[i] EXCEPT !.at = "prefilling", !.cached = cached] \in Held
  <1>1. call[i] \in Held
    BY DEF CallsTyped, CallSet, NoCall
  <1>2. pc[i] = "asking"
    BY NotCalled DEF CallsTyped
  <1> QED BY <1>1, <1>2 DEF Held
-----------------------------------------------------------------------------
\* A replica looks a prompt up: what it holds and what it has counted.
LEMMA PrefillTyped ==
    ASSUME BenchTyped, NEW i \in Tasks, Prefills(i)
    PROVE  /\ ReplicasOK'
           /\ [call[i] EXCEPT !.at = "prefilling",
                              !.cached = CachedBlocks(sim[call[i].replica], Prompt(i))] \in Held
           /\ counted' = [counted EXCEPT ![call[i].replica] =
                  [cached |-> counted[call[i].replica].cached
                                 + CachedBlocks(sim[call[i].replica], Prompt(i)),
                   total |-> counted[call[i].replica].total + Len(Prompt(i))]]
  <1>1. /\ call[i].at = "sent" /\ call[i] \in Held /\ pc[i] = "asking" /\ call[i].replica \in Replicas
        /\ \A cached \in Nat : [call[i] EXCEPT !.at = "prefilling", !.cached = cached] \in Held
    BY HeldMoves DEF Prefills, BenchTyped
  <1>2. PICK r \in Replicas : r = call[i].replica
    BY <1>1
  <1>3. PICK hashes \in Chains \cup {<<>>} : hashes = Prompt(i) /\ Len(hashes) \in Nat
    BY <1>1, PromptFacts DEF BenchTyped
  <1>4. PICK n \in Nat : n = CachedBlocks(sim[r], hashes) /\ n <= Len(hashes)
    BY LookupBounds DEF CachedBlocks
  <1>5. /\ sim' = [sim EXCEPT ![r] = EvictTo(Insert(sim[r], hashes), Capacity)]
        /\ counted' = [counted EXCEPT ![r].cached = @ + n, ![r].total = @ + Len(hashes)]
    BY <1>2, <1>3, <1>4 DEF Prefills, EvictOverCapacity
  <1>6. /\ DOMAIN sim = Replicas /\ CacheInv(sim[r])
        /\ counted \in [Replicas -> Reply] /\ counted[r].cached <= counted[r].total
    BY DEF BenchTyped, ReplicasOK
  <1>7. CacheInv(EvictTo(Insert(sim[r], hashes), Capacity))
        /\ NumBlocks(EvictTo(Insert(sim[r], hashes), Capacity)) <= Capacity
    <2>1. CacheInv(Insert(sim[r], hashes)) /\ Capacity \in Nat
      BY <1>6, InsertFacts, CapacityAssumption
    <2>2. NumBlocks(Insert(sim[r], hashes)) \in Nat
      BY <2>1, MapFinite
    <2> QED BY <2>1, <2>2, EvictPreserves, EvictKeeps
  <1>8. PICK old \in Reply : old = counted[r] /\ old.cached <= old.total
    BY <1>6
  <1> DEFINE new == [cached |-> old.cached + n, total |-> old.total + Len(hashes)]
  <1>9. new \in Reply /\ new.cached <= new.total
    BY <1>3, <1>4, <1>8 DEF Reply
  <1>10. counted' = [counted EXCEPT ![r] = new]
    <2> DEFINE more == [[old EXCEPT !.cached = @ + n] EXCEPT !.total = @ + Len(hashes)]
    <2>1. more \in Reply /\ more.cached = old.cached + n /\ more.total = old.total + Len(hashes)
      <3> DEFINE half == [old EXCEPT !.cached = @ + n]
      <3>1. half \in Reply /\ half.cached = old.cached + n /\ half.total = old.total
        BY <1>8 DEF Reply
      <3>2. more = [half EXCEPT !.total = @ + Len(hashes)]
        OBVIOUS
      <3> HIDE DEF half, more
      <3> QED BY <1>3, <3>1, <3>2 DEF Reply
    <2>2. counted' = [counted EXCEPT ![r] = [[counted[r] EXCEPT !.cached = @ + n]
                                                EXCEPT !.total = @ + Len(hashes)]]
      BY <1>5, <1>6
    <2>3. counted' = [counted EXCEPT ![r] = more]
      BY <1>8, <2>2
    <2> HIDE DEF more
    <2>4. more = new
      BY <2>1 DEF Reply
    <2> QED BY <2>3, <2>4
  <1> HIDE DEF new
  <1>11. counted' \in [Replicas -> Reply] /\ \A q \in Replicas : counted'[q].cached <= counted'[q].total
    BY <1>6, <1>9, <1>10 DEF BenchTyped, ReplicasOK
  <1>12. DOMAIN sim' = Replicas /\ \A q \in Replicas : CacheInv(sim'[q]) /\ NumBlocks(sim'[q]) <= Capacity
    BY <1>5, <1>6, <1>7 DEF BenchTyped, ReplicasOK
  <1>13. counted' = [counted EXCEPT ![r] = [cached |-> counted[r].cached + CachedBlocks(sim[r], Prompt(i)),
                                            total |-> counted[r].total + Len(Prompt(i))]]
    BY <1>3, <1>4, <1>8, <1>10 DEF new
  <1> QED BY <1>1, <1>2, <1>3, <1>4, <1>11, <1>12, <1>13 DEF ReplicasOK

LEMMA RestartTyped ==
    ASSUME BenchTyped, NEW r \in Replicas, Restarts(r)
    PROVE  ReplicasOK' /\ CallsTyped'
  <1>1. /\ sim' = [sim EXCEPT ![r] = NewKvCache] /\ counted' = [counted EXCEPT ![r] = NoBlocks]
        /\ call' = [i \in Tasks |-> IF Calling(i) /\ call[i].replica = r
                                    THEN [call[i] EXCEPT !.at = "lost"] ELSE call[i]]
        /\ convs' = convs /\ pc' = pc
    BY DEF Restarts, loadVars, taskVars
  <1>2. CacheInv(NewKvCache) /\ NumBlocks(NewKvCache) <= Capacity
    <2>1. NumBlocks(NewKvCache) = 0
      BY FS_EmptySet DEF NumBlocks, NewKvCache, NewCache
    <2> QED BY <2>1, NewCacheInv, CapacityAssumption DEF NewKvCache
  <1>3. NoBlocks \in Reply /\ NoBlocks.cached <= NoBlocks.total
    BY DEF NoBlocks, Reply
  <1>4. ReplicasOK'
    BY <1>1, <1>2, <1>3 DEF BenchTyped, ReplicasOK
  <1>5. ASSUME NEW i \in Tasks PROVE call'[i] \in CallSet /\ (call'[i] # NoCall => pc'[i] = "asking")
    <2>1. CASE Calling(i) /\ call[i].replica = r
      <3>1. call[i].at \in {"sent", "prefilling", "hung", "lost"}
        BY <2>1 DEF Calling
      <3>2. pc[i] = "asking" /\ [call[i] EXCEPT !.at = "lost"] \in Held
        BY <3>1, HeldMoves DEF BenchTyped
      <3> QED BY <1>1, <2>1, <3>2 DEF CallSet
    <2>2. CASE ~(Calling(i) /\ call[i].replica = r)
      BY <1>1, <2>2 DEF BenchTyped, CallsTyped
    <2> QED BY <2>1, <2>2
  <1> QED BY <1>1, <1>4, <1>5 DEF CallsTyped, Tasks
-----------------------------------------------------------------------------
LEMMA SchedSame == SchedOK /\ UNCHANGED schedVars => SchedOK'
  BY DEF SchedOK, SchedulerTypeOK, schedVars

LEMMA ReplicasSame == ReplicasOK /\ UNCHANGED replicaVars => ReplicasOK'
  BY DEF ReplicasOK, replicaVars

\* What one task's request does to the handlers, the scheduler and the replicas.
LEMMA RequestTyped ==
    ASSUME BenchTyped, NEW i \in Tasks, GoesOn(i)
    PROVE  CallsTyped' /\ SchedOK' /\ ReplicasOK' /\ ProcessOK'
  <1>0. CallsTyped /\ SchedOK /\ ReplicasOK /\ ProcessOK /\ LoadOK /\ PermitsOK
    BY DEF BenchTyped
  <1>1. ASSUME NEW attempt \in {1, 2}, pc[i] = "asking", PickFor(i, attempt)
        PROVE  CallsTyped' /\ SchedOK' /\ ReplicasOK' /\ ProcessOK'
    <2>1. /\ UNCHANGED replicaVars /\ convs' = convs /\ pc' = pc
          /\ router' = router /\ served' = served
      BY <1>1 DEF PickFor, loadVars, taskVars
    <2>2. PICK hashes \in Chains \cup {<<>>} : hashes = Prompt(i)
      BY <1>0, <1>1, PromptFacts
    <2>3. CASE PickFails /\ Moves(i, [at |-> "failed"])
      <3>1. [at |-> "failed"] \in CallSet
        BY DEF CallSet
      <3>2. CallsTyped'
        BY <1>0, <1>1, <2>1, <2>3, <3>1, CallMoves
      <3>3. SchedOK'
        BY <1>0, <2>3, SchedSame DEF PickFails
      <3> QED BY <1>0, <2>1, <3>2, <3>3, ReplicasSame DEF ProcessOK
    <2>4. CASE ~(PickFails /\ Moves(i, [at |-> "failed"]))
      <3> DEFINE what(r) == [at |-> "sent", attempt |-> attempt, replica |-> r,
                             matched |-> MatchedBlocks(r, hashes), cached |-> 0]
      <3>1. PICK r \in Choice(hashes) : Pick(hashes, r) /\ Moves(i, what(r))
        BY <1>1, <2>2, <2>4 DEF PickFor
      <3>2. SchedOK' /\ MatchedBlocks(r, hashes) \in Nat /\ r \in Replicas
        BY <1>0, <3>1, PickTyped
      <3>3. what(r) \in CallSet
        BY <1>1, <3>2 DEF CallSet, Held
      <3> HIDE DEF what
      <3>4. CallsTyped'
        BY <1>0, <1>1, <2>1, <3>1, <3>3, CallMoves
      <3> QED BY <1>0, <2>1, <3>2, <3>4, ReplicasSame DEF ProcessOK
    <2> QED BY <2>3, <2>4
  <1>2. CASE Accepted(i)
    BY <1>1, <1>2 DEF Accepted
  <1>3. CASE TurnedAway(i)
    <2>1. /\ call[i] = NoCall /\ call' = call /\ convs' = convs /\ pc' = [pc EXCEPT ![i] = "done"]
          /\ UNCHANGED schedVars /\ UNCHANGED replicaVars /\ router' = router /\ served' = served
      BY <1>3 DEF TurnedAway, Refused, Finish, routerVars
    <2>2. \A j \in Tasks : call[j] # NoCall => pc'[j] = pc[j]
      BY <1>0, <2>1 DEF PermitsOK
    <2> QED BY <1>0, <2>1, <2>2, CallsSame, SchedSame, ReplicasSame DEF ProcessOK
  <1>4. CASE Prefills(i)
    <2> DEFINE what == [call[i] EXCEPT !.at = "prefilling",
                               !.cached = CachedBlocks(sim[call[i].replica], Prompt(i))]
    <2>1. ReplicasOK' /\ what \in Held
      BY <1>4, PrefillTyped
    <2>2. /\ Moves(i, what) /\ UNCHANGED schedVars /\ convs' = convs /\ pc' = pc
          /\ router' = router /\ served' = served /\ call[i].at = "sent"
      BY <1>4 DEF Prefills, loadVars, taskVars
    <2> HIDE DEF what
    <2>3. pc[i] = "asking"
      BY <1>0, <2>2, HeldMoves
    <2>4. what \in CallSet
      BY <2>1 DEF CallSet
    <2>5. CallsTyped'
      BY <1>0, <2>2, <2>3, <2>4, CallMoves
    <2> QED BY <1>0, <2>1, <2>2, <2>5, SchedSame DEF ProcessOK
  <1>5. CASE Served(i)
    <2>1. /\ call[i].at = "prefilling" /\ Complete(call[i].replica) /\ router' = router
          /\ served' = [requests |-> served.requests + 1,
                        matched |-> served.matched + call[i].matched,
                        prompt |-> served.prompt + Len(Prompt(i))]
          /\ Moves(i, [at |-> "replied", cached |-> call[i].cached])
          /\ UNCHANGED replicaVars /\ convs' = convs /\ pc' = pc
      BY <1>5 DEF Served, loadVars, taskVars
    <2>2. call[i] \in Held /\ pc[i] = "asking"
      BY <1>0, <2>1, HeldMoves
    <2>3. Len(Prompt(i)) \in Nat
      BY <1>0, <2>2, PromptFacts
    <2>4. ProcessOK'
      BY <1>0, <2>1, <2>2, <2>3 DEF ProcessOK, Held
    <2>5. [at |-> "replied", cached |-> call[i].cached] \in CallSet
      BY <2>2 DEF CallSet, Held
    <2>6. CallsTyped'
      BY <1>0, <2>1, <2>2, <2>5, CallMoves
    <2> QED BY <1>0, <2>1, <2>4, <2>6, MethodTyped, ReplicasSame
  <1>6. CASE TimesOut(i)
    <2> DEFINE retried == [call[i] EXCEPT !.at = "markDown"]
    <2>1. /\ call[i].at = "hung" /\ Complete(call[i].replica)
          /\ Moves(i, [at |-> "failed"]) \/ Moves(i, retried)
          /\ UNCHANGED replicaVars /\ convs' = convs /\ pc' = pc
          /\ router' = router /\ served' = served
      BY <1>6 DEF TimesOut, loadVars, taskVars
    <2>2. pc[i] = "asking" /\ [at |-> "failed"] \in CallSet /\ retried \in CallSet
      BY <1>0, <2>1, HeldMoves DEF CallSet
    <2> HIDE DEF retried
    <2>3. CallsTyped'
      BY <1>0, <2>1, <2>2, CallMoves
    <2> QED BY <1>0, <2>1, <2>3, MethodTyped, ReplicasSame DEF ProcessOK
  <1>7. CASE Breaks(i)
    <2> DEFINE what == [call[i] EXCEPT !.at = "markDown"]
    <2>1. /\ call[i].at \in {"sent", "prefilling", "hung", "lost"}
          /\ Complete(call[i].replica) /\ Moves(i, what)
          /\ UNCHANGED replicaVars /\ convs' = convs /\ pc' = pc
          /\ router' = router /\ served' = served
      BY <1>7 DEF Breaks, Calling, loadVars, taskVars
    <2>2. pc[i] = "asking" /\ what \in CallSet
      BY <1>0, <2>1, HeldMoves DEF CallSet
    <2> HIDE DEF what
    <2>3. CallsTyped'
      BY <1>0, <2>1, <2>2, CallMoves
    <2> QED BY <1>0, <2>1, <2>3, MethodTyped, ReplicasSame DEF ProcessOK
  <1>8. CASE FailsOver(i)
    <2> DEFINE what == [at |-> IF call[i].attempt = 1 THEN "picking" ELSE "failed"]
    <2>1. /\ call[i].at = "markDown" /\ MarkUnhealthy(call[i].replica) /\ Moves(i, what)
          /\ UNCHANGED replicaVars /\ convs' = convs /\ pc' = pc
          /\ router' = router /\ served' = served
      BY <1>8 DEF FailsOver, loadVars, taskVars
    <2>2. pc[i] = "asking" /\ what \in CallSet
      BY <1>0, <2>1, HeldMoves DEF CallSet
    <2> HIDE DEF what
    <2>3. CallsTyped'
      BY <1>0, <2>1, <2>2, CallMoves
    <2> QED BY <1>0, <2>1, <2>3, MethodTyped, ReplicasSame DEF ProcessOK
  <1>9. CASE PicksAgain(i)
    <2>1. call[i].at = "picking" /\ PickFor(i, 2)
      BY <1>9 DEF PicksAgain
    <2>2. pc[i] = "asking"
      BY <1>0, <2>1, NotCalled DEF CallsTyped
    <2> QED BY <1>1, <2>1, <2>2
  <1>10. CASE Delivered(i)
    <2>1. /\ Moves(i, NoCall) /\ UNCHANGED schedVars /\ UNCHANGED replicaVars
          /\ router' = router /\ served' = served /\ convs' = convs
      BY <1>10 DEF Delivered, Answered, Refused
    <2>2. \A j \in Tasks \ {i} : pc'[j] = pc[j]
      BY <1>0, <1>10 DEF Delivered, Answered, Refused, Finish, PermitsOK
    <2>3. CallsTyped'
      <3>1. DOMAIN call' = Tasks /\ call'[i] = NoCall /\ \A j \in Tasks \ {i} : call'[j] = call[j]
        BY <1>0, <2>1 DEF Moves, CallsTyped
      <3> QED BY <1>0, <2>1, <2>2, <3>1 DEF CallsTyped, CallSet, Tasks
    <2> QED BY <1>0, <2>1, <2>3, SchedSame, ReplicasSame DEF ProcessOK
  <1> QED BY <1>2, <1>3, <1>4, <1>5, <1>6, <1>7, <1>8, <1>9, <1>10 DEF GoesOn

LEMMA BenchTypedNext == BenchTyped /\ [BenchNext]_benchVars => BenchTyped'
  <1> SUFFICES ASSUME BenchTyped, [BenchNext]_benchVars PROVE BenchTyped'
    OBVIOUS
  <1>0. /\ CallsTyped /\ SchedOK /\ ReplicasOK /\ ProcessOK /\ LoadOK /\ PermitsOK
        /\ LoadOK' /\ PermitsOK'
    BY LoadNext, PermitsNext DEF BenchTyped
  <1> DEFINE Rest == CallsTyped' /\ SchedOK' /\ ReplicasOK' /\ ProcessOK'
  <1>1. ASSUME NEW i \in Tasks, GoesOn(i) PROVE Rest
    BY <1>1, RequestTyped
  <1>2. ASSUME NEW i \in Tasks, TaskStarts(i) PROVE Rest
    <2>1. /\ pc[i] = "queued" /\ pc' = [pc EXCEPT ![i] = "asking"] /\ call' = call /\ convs' = convs
          /\ UNCHANGED schedVars /\ UNCHANGED replicaVars /\ router' = router /\ served' = served
      BY <1>2 DEF TaskStarts, Acquire, routerVars
    <2>2. \A j \in Tasks : call[j] # NoCall => pc'[j] = pc[j]
      BY <1>0, <2>1 DEF PermitsOK, CallsTyped
    <2> QED BY <1>0, <2>1, <2>2, CallsSame, SchedSame, ReplicasSame DEF ProcessOK
  <1>3. ASSUME NEW i \in Tasks, Hangs(i) PROVE Rest
    <2> DEFINE what == [call[i] EXCEPT !.at = "hung"]
    <2>1. /\ call[i].at \in {"sent", "prefilling"} /\ Moves(i, what)
          /\ UNCHANGED schedVars /\ UNCHANGED replicaVars /\ convs' = convs /\ pc' = pc
          /\ router' = router /\ served' = served
      BY <1>3 DEF Hangs, loadVars, taskVars
    <2>2. pc[i] = "asking" /\ what \in CallSet
      BY <1>0, <2>1, HeldMoves DEF CallSet
    <2> HIDE DEF what
    <2>3. CallsTyped'
      BY <1>0, <2>1, <2>2, CallMoves
    <2> QED BY <1>0, <2>1, <2>3, SchedSame, ReplicasSame DEF ProcessOK
  <1>4. ASSUME NEW r \in Replicas, Probed(r) PROVE Rest
    <2>1. /\ MarkUnhealthy(r) \/ MarkHealthy(r)
          /\ call' = call /\ convs' = convs /\ pc' = pc
          /\ UNCHANGED replicaVars /\ router' = router /\ served' = served
      BY <1>4 DEF Probed, loadVars, taskVars
    <2> QED BY <1>0, <2>1, CallsSame, MethodTyped, ReplicasSame DEF ProcessOK
  <1>5. ASSUME NEW r \in Replicas, Restarts(r) PROVE Rest
    <2>1. UNCHANGED schedVars /\ router' = router /\ served' = served
      BY <1>5 DEF Restarts
    <2> QED BY <1>0, <1>5, <2>1, RestartTyped, SchedSame DEF ProcessOK
  <1>6. ASSUME MetricsServerFails PROVE Rest
    <2>1. /\ router' = "exited" /\ served' = served /\ call' = [i \in Tasks |-> NoCall]
          /\ UNCHANGED schedVars /\ UNCHANGED replicaVars /\ convs' = convs /\ pc' = pc
      BY <1>6 DEF MetricsServerFails, loadVars, taskVars
    <2>2. CallsTyped'
      BY <2>1 DEF CallsTyped, CallSet, Tasks
    <2>3. ProcessOK'
      BY <1>0, <2>1 DEF ProcessOK
    <2>4. SchedOK' /\ ReplicasOK'
      BY <1>0, <2>1, SchedSame, ReplicasSame
    <2> QED BY <2>2, <2>3, <2>4
  <1>7. ASSUME Starts \/ ShutdownSignal \/ Exits \/ Connects \/ MainJoins \/ UNCHANGED benchVars
        PROVE  Rest
    <2>1. /\ call' = call /\ convs' = convs /\ pc' = pc /\ served' = served
          /\ UNCHANGED schedVars /\ UNCHANGED replicaVars
      BY <1>7 DEF Starts, ShutdownSignal, Exits, Connects, MainJoins, Join, routerVars, loadVars,
                  taskVars, benchVars
    <2>2. router' \in {router, "serving", "draining", "exited"}
      BY <1>7 DEF Starts, ShutdownSignal, Exits, Connects, MainJoins, routerVars, benchVars
    <2>3. ProcessOK'
      BY <1>0, <2>1, <2>2 DEF ProcessOK
    <2>4. SchedOK' /\ ReplicasOK'
      BY <1>0, <2>1, SchedSame, ReplicasSame
    <2>5. CallsTyped'
      BY <1>0, <2>1, CallsSame
    <2> QED BY <2>3, <2>4, <2>5
  <1> HIDE DEF Rest
  <1>8. Rest
    BY <1>1, <1>2, <1>3, <1>4, <1>5, <1>6, <1>7 DEF BenchNext
  <1> QED BY <1>0, <1>8 DEF BenchTyped, Rest

LEMMA BenchTypedEver == BenchSpec => []BenchTyped
  <1> QED BY BenchTypedInit, BenchTypedNext, PTL DEF BenchSpec
-----------------------------------------------------------------------------
LEMMA FailedCount ==
    ASSUME LoadOK, NEW n \in Nat
    PROVE  /\ IsFiniteSet({i \in 1..n : failed[i]})
           /\ Cardinality({i \in 1..n : failed[i]}) \in Nat
           /\ Cardinality({i \in 1..n : failed[i]}) <= n
  <1>1. IsFiniteSet(1..n) /\ Cardinality(1..n) = n
    BY FS_Interval
  <1>2. {i \in 1..n : failed[i]} \subseteq 1..n
    OBVIOUS
  <1> QED BY <1>1, <1>2, FS_Subset, FS_CardinalityType

\* The types of the three programs' state: tasks, results and permits, the
\* handlers' calls, the scheduler's fields, the replicas' caches within their
\* capacity and their counters (main.rs:79-125, scheduler.rs:40-60, cache.rs:20-45,
\* service.rs:100-125).
THEOREM BenchTypeCorrect == BenchSpec => []BenchTypeOK
  <1>1. BenchTyped => BenchTypeOK
    <2> SUFFICES ASSUME BenchTyped PROVE BenchTypeOK
      OBVIOUS
    <2>0. LoadOK /\ PermitsOK /\ CallsTyped /\ SchedOK /\ ReplicasOK /\ ProcessOK
      BY DEF BenchTyped
    <2>1. LoadTypeOK
      <3>1. /\ Tasks = 1..Len(convs) /\ Len(convs) \in Nat
            /\ \A i \in Tasks : Len(convs[i]) \in Nat \ {0}
        BY <2>0, ConvFacts DEF LoadOK
      <3>2. /\ DOMAIN pc = Tasks /\ failed \in [Tasks -> BOOLEAN] /\ \A i \in Tasks : TaskFits(i)
            /\ joined \in 0..Len(convs) /\ failures = Cardinality({i \in 1..joined : failed[i]})
        BY <2>0 DEF LoadOK, TasksFit, MainFits
      <3>4. pc \in [Tasks -> {"queued", "asking", "done"}]
        BY <2>0 DEF LoadOK, TasksFit
      <3>5. \A i \in Tasks : turn[i] \in 0..Len(convs[i]) /\ Len(results[i]) <= turn[i]
        BY <3>1, <3>2 DEF TaskFits
      <3>6. permits \in 0..Concurrency
        BY <2>0, FS_CardinalityType, LoadgenAssumption DEF PermitsOK
      <3>7. failures \in 0..joined
        BY <2>0, <3>1, <3>2, FailedCount
      <3> QED BY <3>2, <3>4, <3>5, <3>6, <3>7 DEF LoadTypeOK
    <2>2. ASSUME NEW i \in Tasks
          PROVE  /\ call[i].at \in {"none", "sent", "prefilling", "hung", "lost", "markDown",
                                    "picking", "replied", "failed"}
                 /\ call[i] # NoCall => pc[i] = "asking"
      BY <2>0 DEF CallsTyped, CallSet, Held, NoCall
    <2> QED BY <2>0, <2>1, <2>2 DEF BenchTypeOK, SchedOK, ReplicasOK, ProcessOK
  <1> QED BY <1>1, BenchTypedEver, PTL

\* The report leaves nothing out and counts nothing twice: every prompt that was
\* sent is either answered, and among the results main has joined, or the one
\* that ended its conversation (main.rs:30-33, 104-107, 118-125).
THEOREM ReportIsWhole == BenchSpec => []ReportAccounts
  <1>1. BenchTyped => ReportAccounts
    <2> SUFFICES ASSUME BenchTyped, Reported PROVE
            /\ failures = Cardinality({i \in Tasks : failed[i]})
            /\ Report.requests + failures = Sum(turn)
            /\ \A i \in Tasks : Len(results[i]) = IF failed[i] THEN turn[i] - 1 ELSE Len(convs[i])
      BY DEF ReportAccounts
    <2>1. LoadOK /\ joined = Len(convs) /\ Tasks = 1..joined /\ joined \in Nat
      BY ConvFacts DEF BenchTyped, LoadOK, Reported
    <2>2. /\ DOMAIN turn = Tasks
          /\ failures = Cardinality({i \in 1..joined : failed[i]})
          /\ Len(all) + failures = Sum(TurnsUpTo(joined))
          /\ \A i \in Tasks : pc[i] = "done" /\ TaskFits(i)
      BY <2>1 DEF LoadOK, TasksFit, MainFits
    <2>3. turn = [i \in Tasks |-> turn[i]]
      BY <2>1 DEF LoadOK, TasksFit
    <2>4. TurnsUpTo(joined) = turn
      BY <2>1, <2>3 DEF TurnsUpTo
    <2>5. Report.requests = Len(all)
      BY DEF Report
    <2>6. \A i \in Tasks : Len(results[i]) = IF failed[i] THEN turn[i] - 1 ELSE Len(convs[i])
      BY <2>2 DEF TaskFits
    <2> QED BY <2>1, <2>2, <2>4, <2>5, <2>6
  <1> QED BY <1>1, BenchTypedEver, PTL
-----------------------------------------------------------------------------
\* The books: what each program has counted, of requests and of blocks.

Kinds == {"requests", "cached", "total"}

\* What a reply counts for.
Amount(kind, reply) ==
    IF kind = "requests" THEN 1 ELSE IF kind = "cached" THEN reply.cached ELSE reply.total

Count(kind, replies) ==
    IF kind = "requests" THEN Len(replies)
    ELSE Sum([k \in DOMAIN replies |-> Amount(kind, replies[k])])

LEMMA AmountNat == \A kind, reply : reply \in Reply => Amount(kind, reply) \in Nat
  BY DEF Amount, Reply

\* The same with the larger domain named, and the domains of sequences.
LEMMA SumWith ==
    ASSUME NEW D, IsFiniteSet(D), NEW f \in [D -> Nat], NEW E, NEW x, x \notin D, E = D \cup {x},
           NEW g \in [E -> Nat], \A y \in D : g[y] = f[y]
    PROVE  Sum(g) = Sum(f) + g[x] /\ Sum(f) \in Nat /\ Sum(g) \in Nat
  BY SumExtended

LEMMA SumOne == ASSUME NEW x, NEW g \in [{x} -> Nat] PROVE Sum(g) = g[x]
  <1>1. PICK none, f : none = {} /\ f = [y \in none |-> 0]
    OBVIOUS
  <1>2. PICK single : single = none \cup {x}
    OBVIOUS
  <1>3. /\ IsFiniteSet(none) /\ f \in [none -> Nat] /\ x \notin none /\ g \in [single -> Nat]
        /\ \A y \in none : g[y] = f[y]
    BY <1>1, <1>2, FS_EmptySet
  <1>4. Sum(g) = Sum(f) + g[x]
    BY <1>2, <1>3, SumWith
  <1>5. Sum(f) = 0
    BY <1>1, SumEmpty
  <1>6. g[x] \in Nat
    OBVIOUS
  <1> QED BY <1>4, <1>5, <1>6

LEMMA UpToNext ==
    ASSUME NEW n \in Nat, n # 0
    PROVE  /\ n \notin 1..(n - 1) /\ n \in 1..n /\ 1..n = (1..(n - 1)) \cup {n}
           /\ IsFiniteSet(1..(n - 1)) /\ IsFiniteSet(1..n)
  <1>1. IsFiniteSet(1..(n - 1)) /\ IsFiniteSet(1..n)
    BY FS_Interval
  <1> QED BY <1>1

LEMMA SumLast ==
    ASSUME NEW n \in Nat, n # 0, NEW g \in [1..n -> Nat]
    PROVE  /\ Sum(g) = Sum([k \in 1..(n - 1) |-> g[k]]) + g[n]
           /\ Sum([k \in 1..(n - 1) |-> g[k]]) \in Nat /\ g[n] \in Nat
  <1>1. (1..n) \ {n} = 1..(n - 1) /\ n \in 1..n /\ IsFiniteSet(1..n) /\ IsFiniteSet(1..(n - 1))
    BY UpToNext
  <1>2. PICK E, G, x : E = 1..(n - 1) /\ G = 1..n /\ x = n
    OBVIOUS
  <1>3. G \ {x} = E /\ x \in G /\ IsFiniteSet(G) /\ g \in [G -> Nat]
    BY <1>1, <1>2
  <1>4. Sum(g) = g[x] + Sum([k \in G \ {x} |-> g[k]])
    BY <1>3, SumTake
  <1>5. PICK f : f = [k \in E |-> g[k]]
    OBVIOUS
  <1>6. f \in [E -> Nat] /\ g[x] \in Nat /\ IsFiniteSet(E)
    BY <1>1, <1>2, <1>3, <1>5
  <1>7. Sum(f) \in Nat
    BY <1>6, SumNat
  <1>8. Sum(g) = g[x] + Sum(f)
    BY <1>3, <1>4, <1>5
  <1> QED BY <1>2, <1>5, <1>6, <1>7, <1>8

\* A sum in two parts.
LEMMA SumConcat ==
    ASSUME NEW m \in Nat, NEW f \in [1..m -> Nat]
    PROVE  \A n \in Nat : \A g \in [1..n -> Nat], h \in [1..(m + n) -> Nat] :
               (\A k \in 1..m : h[k] = f[k]) /\ (\A k \in 1..n : h[m + k] = g[k])
                   => Sum(h) = Sum(f) + Sum(g)
  <1> DEFINE Parts(n, g, h) == (\A k \in 1..m : h[k] = f[k]) /\ (\A k \in 1..n : h[m + k] = g[k])
             Fine(n) == \A g \in [1..n -> Nat], h \in [1..(m + n) -> Nat] :
                            Parts(n, g, h) => Sum(h) = Sum(f) + Sum(g)
             Bad == {n \in Nat : ~Fine(n)}
  <1> SUFFICES ASSUME Bad # {} PROVE FALSE
    OBVIOUS
  <1>1. PICK n \in Bad : \A j \in Bad : n <= j
    <2>1. Bad \in SUBSET Nat
      OBVIOUS
    <2> HIDE DEF Bad
    <2> QED BY <2>1, LeastNat
  <1>2. n \in Nat /\ ~Fine(n)
    BY <1>1
  <1>3. PICK g \in [1..n -> Nat], h \in [1..(m + n) -> Nat] :
            Parts(n, g, h) /\ Sum(h) # Sum(f) + Sum(g)
    BY <1>2
  <1>4. Sum(f) \in Nat
    <2>1. PICK D : D = 1..m
      OBVIOUS
    <2>2. IsFiniteSet(D)
      BY <2>1, FS_Interval
    <2>3. f \in [D -> Nat]
      BY <2>1
    <2> QED BY <2>2, <2>3, SumNat
  <1>5. n # 0
    <2> SUFFICES ASSUME n = 0 PROVE FALSE
      OBVIOUS
    <2>1. 1..n = {} /\ m + n = m
      OBVIOUS
    <2>2. DOMAIN g = {} /\ h = f
      BY <1>3, <2>1
    <2>3. Sum(g) = 0
      BY <2>2, SumEmpty
    <2> QED BY <1>3, <1>4, <2>2, <2>3
  <1>6. n - 1 \in Nat /\ Fine(n - 1)
    <2>1. n - 1 \in Nat /\ ~(n <= n - 1)
      BY <1>2, <1>5
    <2>2. n - 1 \notin Bad
      <3> HIDE DEF Bad
      <3> QED BY <1>1, <2>1
    <2> QED BY <2>1, <2>2
  \* Without the last summand.
  <1>7. PICK most \in Nat : most = m + n
    BY <1>2
  <1>8. most # 0 /\ most - 1 = m + (n - 1) /\ h \in [1..most -> Nat]
    <2>1. most # 0 /\ most - 1 = m + (n - 1)
      BY <1>2, <1>5, <1>7
    <2>2. 1..most = 1..(m + n)
      BY <1>7
    <2> QED BY <1>3, <2>1, <2>2
  <1>9. PICK h1, g1 : h1 = [k \in 1..(most - 1) |-> h[k]] /\ g1 = [k \in 1..(n - 1) |-> g[k]]
    OBVIOUS
  <1>10. Sum(h1) = Sum(f) + Sum(g1)
    <2>1. g1 \in [1..(n - 1) -> Nat] /\ h1 \in [1..(m + (n - 1)) -> Nat]
      <3>1. \A k \in 1..(n - 1) : k \in 1..n
        BY <1>2
      <3>2. \A k \in 1..(most - 1) : k \in 1..most
        BY <1>7
      <3>3. g1 \in [1..(n - 1) -> Nat]
        BY <1>3, <1>9, <3>1
      <3>4. h1 \in [1..(most - 1) -> Nat]
        BY <1>8, <1>9, <3>2
      <3> QED BY <1>8, <3>3, <3>4
    <2>2. \A k \in 1..m : h1[k] = f[k]
      <3> SUFFICES ASSUME NEW k \in 1..m PROVE h1[k] = f[k]
        OBVIOUS
      <3>1. k \in 1..(most - 1)
        BY <1>6, <1>8
      <3> QED BY <1>3, <1>9, <3>1
    <2>3. \A k \in 1..(n - 1) : h1[m + k] = g1[k]
      <3> SUFFICES ASSUME NEW k \in 1..(n - 1) PROVE h1[m + k] = g1[k]
        OBVIOUS
      <3>1. m + k \in 1..(most - 1) /\ k \in 1..n
        BY <1>2, <1>6, <1>8
      <3> QED BY <1>3, <1>9, <3>1
    <2> QED BY <1>6, <2>1, <2>2, <2>3
  <1>11. h[most] = g[n]
    BY <1>2, <1>3, <1>5, <1>7
  <1>12. Sum(h) # Sum(f) + Sum(g)
    BY <1>3
  <1> HIDE DEF Bad, Fine, Parts
  <1>13. Sum(h) = Sum(h1) + h[most] /\ Sum(h1) \in Nat
    BY <1>8, <1>9, SumLast
  <1>14. Sum(g) = Sum(g1) + g[n] /\ Sum(g1) \in Nat /\ g[n] \in Nat
    BY <1>2, <1>5, <1>9, SumLast
  <1> QED BY <1>4, <1>10, <1>11, <1>12, <1>13, <1>14

LEMMA CountNat ==
    ASSUME NEW kind, NEW s \in Seq(Reply)
    PROVE  Count(kind, s) \in Nat
  <1>1. Len(s) \in Nat /\ DOMAIN s = 1..Len(s)
    OBVIOUS
  <1>2. [k \in DOMAIN s |-> Amount(kind, s[k])] \in [DOMAIN s -> Nat]
    BY AmountNat
  <1>3. IsFiniteSet(DOMAIN s)
    BY <1>1, FS_Interval
  <1> QED BY <1>1, <1>2, <1>3, SumNat DEF Count

LEMMA CountNone == \A kind : Count(kind, <<>>) = 0
  BY SumEmpty DEF Count

LEMMA CountConcat ==
    ASSUME NEW kind, NEW s \in Seq(Reply), NEW t \in Seq(Reply)
    PROVE  Count(kind, s \o t) = Count(kind, s) + Count(kind, t)
  <1> DEFINE u == s \o t
             A(r) == [k \in DOMAIN r |-> Amount(kind, r[k])]
  <1>1. /\ u \in Seq(Reply) /\ Len(u) = Len(s) + Len(t) /\ Len(s) \in Nat /\ Len(t) \in Nat
        /\ DOMAIN s = 1..Len(s) /\ DOMAIN t = 1..Len(t) /\ DOMAIN u = 1..(Len(s) + Len(t))
        /\ \A k \in 1..Len(s) : u[k] = s[k]
        /\ \A k \in 1..Len(t) : u[Len(s) + k] = t[k]
    OBVIOUS
  <1> HIDE DEF u
  <1>2. /\ A(s) \in [1..Len(s) -> Nat] /\ A(t) \in [1..Len(t) -> Nat]
        /\ A(u) \in [1..(Len(s) + Len(t)) -> Nat]
    BY <1>1, AmountNat
  <1>3. \A k \in 1..Len(s) : A(u)[k] = A(s)[k]
    BY <1>1
  <1>4. \A k \in 1..Len(t) : A(u)[Len(s) + k] = A(t)[k]
    BY <1>1
  <1> HIDE DEF A
  <1>5. Sum(A(u)) = Sum(A(s)) + Sum(A(t))
    BY <1>1, <1>2, <1>3, <1>4, SumConcat
  <1> QED BY <1>1, <1>5 DEF Count, A, u

LEMMA CountOne ==
    ASSUME NEW kind, NEW reply \in Reply
    PROVE  Count(kind, <<reply>>) = Amount(kind, reply)
  <1>1. PICK g : g = [k \in DOMAIN <<reply>> |-> Amount(kind, <<reply>>[k])]
    OBVIOUS
  <1>2. g \in [{1} -> Nat] /\ g[1] = Amount(kind, reply)
    BY <1>1, AmountNat
  <1>3. Sum(g) = Amount(kind, reply)
    BY <1>2, SumOne
  <1>4. kind = "requests" => Amount(kind, reply) = 1 /\ Len(<<reply>>) = 1
    BY DEF Amount
  <1> QED BY <1>1, <1>3, <1>4 DEF Count

LEMMA CountAppend ==
    ASSUME NEW kind, NEW s \in Seq(Reply), NEW reply \in Reply
    PROVE  Count(kind, Append(s, reply)) = Count(kind, s) + Amount(kind, reply)
  <1>1. Append(s, reply) = s \o <<reply>> /\ <<reply>> \in Seq(Reply)
    OBVIOUS
  <1>2. Count(kind, <<reply>>) = Amount(kind, reply)
    BY CountOne
  <1> QED BY <1>1, <1>2, CountConcat
-----------------------------------------------------------------------------
\* What a task's requests come to: those that were answered, and the one whose
\* handler has come to one of the stages.
InHand(i) == [cached |-> call[i].cached, total |-> Len(Prompt(i))]

Pending(stages, kind, i) == IF call[i].at \in stages THEN Amount(kind, InHand(i)) ELSE 0

Entry(stages, kind, i) == Count(kind, results[i]) + Pending(stages, kind, i)

Ledger(stages, kind) == Sum([i \in Tasks |-> Entry(stages, kind, i)])

\* The replica has counted the request; the router has.
Took == {"prefilling", "replied"}
Done == {"replied"}

\* What the replicas have counted.
Counted(kind) == Sum([r \in Replicas |-> Amount(kind, counted[r])])

LEMMA InHandFacts ==
    ASSUME BenchTyped, NEW i \in Tasks, call[i].at \in Took
    PROVE  InHand(i) \in Reply /\ pc[i] = "asking"
  <1>1. call[i].cached \in Nat
    BY DEF Took, BenchTyped, CallsTyped, CallSet, Held, NoCall
  <1>2. pc[i] = "asking"
    BY NotCalled DEF Took, BenchTyped, CallsTyped
  <1>3. Len(Prompt(i)) \in Nat
    BY <1>2, PromptFacts DEF BenchTyped
  <1> QED BY <1>1, <1>2, <1>3 DEF InHand, Reply

EntriesNat ==
    \A kind \in Kinds, stages \in {Took, Done} : \A i \in Tasks :
        /\ Entry(stages, kind, i) \in Nat /\ Pending(stages, kind, i) \in Nat
        /\ Count(kind, results[i]) \in Nat

LEMMA EntryNat == BenchTyped => EntriesNat
  <1> SUFFICES ASSUME BenchTyped, NEW kind \in Kinds, NEW stages \in {Took, Done}, NEW i \in Tasks
               PROVE  /\ Entry(stages, kind, i) \in Nat /\ Pending(stages, kind, i) \in Nat
                      /\ Count(kind, results[i]) \in Nat
    BY DEF EntriesNat
  <1>1. Count(kind, results[i]) \in Nat
    BY CountNat DEF BenchTyped, LoadOK, TasksFit, TaskFits
  <1>2. stages \subseteq Took
    BY DEF Took, Done
  <1>3. Pending(stages, kind, i) \in Nat
    BY <1>2, InHandFacts, AmountNat DEF Pending
  <1> QED BY <1>1, <1>3 DEF Entry

LEMMA EntryNatNext == BenchTyped' => EntriesNat'
  <1> QED BY EntryNat, PTL

LEMMA LedgerNat ==
    ASSUME BenchTyped, NEW kind \in Kinds, NEW stages \in {Took, Done}
    PROVE  Ledger(stages, kind) \in Nat
  <1>1. IsFiniteSet(Tasks)
    BY ConvFacts DEF BenchTyped, LoadOK
  <1>2. [i \in Tasks |-> Entry(stages, kind, i)] \in [Tasks -> Nat]
    BY EntryNat DEF EntriesNat
  <1> QED BY <1>1, <1>2, SumNat DEF Ledger

\* The entries before a step and after it, as functions.
LEMMA LedgerEntries ==
    ASSUME BenchTyped, BenchTyped', convs' = convs, NEW kind \in Kinds, NEW stages \in {Took, Done}
    PROVE  \E f, g \in [Tasks -> Nat] :
               /\ IsFiniteSet(Tasks)
               /\ Ledger(stages, kind) = Sum(f) /\ Ledger(stages, kind)' = Sum(g)
               /\ \A i \in Tasks : f[i] = Entry(stages, kind, i) /\ g[i] = Entry(stages, kind, i)'
  <1>1. IsFiniteSet(Tasks) /\ Tasks' = Tasks
    BY ConvFacts DEF BenchTyped, LoadOK, Tasks
  <1>2. PICK f, g : /\ f = [i \in Tasks |-> Entry(stages, kind, i)]
                    /\ g = [i \in Tasks |-> Entry(stages, kind, i)']
    OBVIOUS
  <1>3. \A i \in Tasks : Entry(stages, kind, i) \in Nat
    BY EntryNat DEF EntriesNat
  <1>4. \A i \in Tasks : Entry(stages, kind, i)' \in Nat
    BY <1>1, EntryNatNext DEF EntriesNat
  <1>5. f \in [Tasks -> Nat] /\ g \in [Tasks -> Nat]
    BY <1>2, <1>3, <1>4
  <1>6. Ledger(stages, kind) = Sum(f) /\ Ledger(stages, kind)' = Sum(g)
    BY <1>1, <1>2 DEF Ledger
  <1> QED BY <1>1, <1>2, <1>5, <1>6

\* A step in which no task's requests come to more.
LEMMA LedgerFalls ==
    ASSUME BenchTyped, BenchTyped', convs' = convs, NEW kind \in Kinds, NEW stages \in {Took, Done},
           \A i \in Tasks : Entry(stages, kind, i)' <= Entry(stages, kind, i)
    PROVE  Ledger(stages, kind)' <= Ledger(stages, kind)
  <1>1. PICK f, g \in [Tasks -> Nat] :
               /\ IsFiniteSet(Tasks)
               /\ Ledger(stages, kind) = Sum(f) /\ Ledger(stages, kind)' = Sum(g)
               /\ \A i \in Tasks : f[i] = Entry(stages, kind, i) /\ g[i] = Entry(stages, kind, i)'
    BY LedgerEntries
  <1> QED BY <1>1, SumMonotone

\* A step in which they come to the same.
LEMMA LedgerSame ==
    ASSUME BenchTyped, BenchTyped', convs' = convs, NEW kind \in Kinds, NEW stages \in {Took, Done},
           \A i \in Tasks : Entry(stages, kind, i)' = Entry(stages, kind, i)
    PROVE  Ledger(stages, kind)' = Ledger(stages, kind)
  <1>1. PICK f, g \in [Tasks -> Nat] :
               /\ IsFiniteSet(Tasks)
               /\ Ledger(stages, kind) = Sum(f) /\ Ledger(stages, kind)' = Sum(g)
               /\ \A i \in Tasks : f[i] = Entry(stages, kind, i) /\ g[i] = Entry(stages, kind, i)'
    BY LedgerEntries
  <1>2. f = g
    BY <1>1
  <1> QED BY <1>1, <1>2

\* A step in which one task's come to more.
LEMMA LedgerRises ==
    ASSUME BenchTyped, BenchTyped', convs' = convs, NEW kind \in Kinds, NEW stages \in {Took, Done},
           NEW i \in Tasks, NEW n \in Nat,
           Entry(stages, kind, i)' = Entry(stages, kind, i) + n,
           \A j \in Tasks \ {i} : Entry(stages, kind, j)' = Entry(stages, kind, j)
    PROVE  Ledger(stages, kind)' = Ledger(stages, kind) + n
  <1>1. PICK f, g \in [Tasks -> Nat] :
               /\ IsFiniteSet(Tasks)
               /\ Ledger(stages, kind) = Sum(f) /\ Ledger(stages, kind)' = Sum(g)
               /\ \A j \in Tasks : f[j] = Entry(stages, kind, j) /\ g[j] = Entry(stages, kind, j)'
    BY LedgerEntries
  <1>2. Sum(g) + f[i] = Sum(f) + g[i] /\ Sum(f) \in Nat /\ Sum(g) \in Nat
    BY <1>1, SumChanged
  <1>3. f[i] \in Nat /\ g[i] = f[i] + n
    BY <1>1
  <1> QED BY <1>1, <1>2, <1>3
-----------------------------------------------------------------------------
\* How the books stand to each other at any time.

Joined(kind) == Sum([i \in 1..joined |-> Count(kind, results[i])])

\* main has collected the answers of the tasks it joined.
Collected == \A kind \in Kinds : Count(kind, all) = Joined(kind)

\* No call was lost: a handler that has come to a stage comes to its end.
NoneLost == trouble \subseteq {"signal", "probe"}

RouterCounts ==
    served.requests = Ledger(Done, "requests") /\ served.prompt = Ledger(Done, "total")

ReplicasCount == \A kind \in {"cached", "total"} : Counted(kind) = Ledger(Took, kind)

\* Nothing is reported that no replica counted.
NothingInvented == \A kind \in {"cached", "total"} : Ledger(Took, kind) <= Counted(kind)

BooksKept ==
    /\ Collected
    /\ NoneLost => RouterCounts /\ ReplicasCount
    /\ "restart" \notin trouble => NothingInvented

Same(stages) == \A kind \in Kinds : \A i \in Tasks : Entry(stages, kind, i)' = Entry(stages, kind, i)

LEMMA EntrySame ==
    ASSUME NEW stages, NEW kind, NEW i, results'[i] = results[i], convs' = convs,
           \/ call'[i] = call[i] /\ turn'[i] = turn[i]
           \/ call[i].at \notin stages /\ call'[i].at \notin stages
    PROVE  Entry(stages, kind, i)' = Entry(stages, kind, i)
  BY DEF Entry, Pending, InHand, Prompt

\* A handler that leaves the stages for another end than a reply.
LEMMA EntryFalls ==
    ASSUME BenchTyped, NEW stages \in {Took, Done}, NEW kind \in Kinds, NEW i \in Tasks,
           results'[i] = results[i], convs' = convs,
           call'[i].at \notin stages
    PROVE  Entry(stages, kind, i)' <= Entry(stages, kind, i)
  <1>1. Entry(stages, kind, i)' = Count(kind, results[i]) + 0
    BY DEF Entry, Pending
  <1>2. /\ Entry(stages, kind, i) = Count(kind, results[i]) + Pending(stages, kind, i)
        /\ Pending(stages, kind, i) \in Nat /\ Count(kind, results[i]) \in Nat
    BY EntryNat DEF Entry, EntriesNat
  <1> QED BY <1>1, <1>2

LEMMA CountedNat ==
    ASSUME ReplicasOK, NEW kind \in Kinds
    PROVE  Counted(kind) \in Nat
  <1>1. IsFiniteSet(Replicas)
    BY SchedulerAssumption, FS_Interval DEF Replicas
  <1>2. [r \in Replicas |-> Amount(kind, counted[r])] \in [Replicas -> Nat]
    BY AmountNat DEF ReplicasOK
  <1> QED BY <1>1, <1>2, SumNat DEF Counted

\* Steps after which all the books stand as before.
LEMMA BooksSame ==
    ASSUME BenchTyped, BenchTyped', convs' = convs, BooksKept, Collected', Same(Took), Same(Done),
           trouble \subseteq trouble', served' = served, counted' = counted
    PROVE  BooksKept'
  <1>1. \A kind \in Kinds, stages \in {Took, Done} : Ledger(stages, kind)' = Ledger(stages, kind)
    BY LedgerSame DEF Same
  <1>2. \A kind : Counted(kind)' = Counted(kind)
    BY DEF Counted
  <1>3. Ledger(Done, "requests")' = Ledger(Done, "requests") /\ Ledger(Done, "total")' = Ledger(Done, "total")
    BY <1>1 DEF Kinds
  <1>4. \A kind \in {"cached", "total"} : Ledger(Took, kind)' = Ledger(Took, kind)
    BY <1>1 DEF Kinds
  <1> QED BY <1>2, <1>3, <1>4 DEF BooksKept, NoneLost, RouterCounts, ReplicasCount, NothingInvented

\* Steps that lose calls.
LEMMA BooksFall ==
    ASSUME BenchTyped, BenchTyped', convs' = convs, BooksKept, Collected', results' = results,
           \A i \in Tasks : \/ call'[i] = call[i] /\ turn'[i] = turn[i]
                            \/ call'[i].at \notin Took,
           trouble \subseteq trouble', ~NoneLost', counted' = counted
    PROVE  BooksKept'
  <1>1. ASSUME NEW kind \in {"cached", "total"} PROVE Ledger(Took, kind)' <= Ledger(Took, kind)
    <2>1. kind \in Kinds
      BY DEF Kinds
    <2>2. ASSUME NEW i \in Tasks PROVE Entry(Took, kind, i)' <= Entry(Took, kind, i)
      <3>1. Entry(Took, kind, i) \in Nat
        BY <2>1, EntryNat DEF EntriesNat
      <3>2. CASE call'[i] = call[i] /\ turn'[i] = turn[i]
        BY <3>1, <3>2, EntrySame
      <3>3. CASE call'[i].at \notin Took
        BY <2>1, <3>3, EntryFalls
      <3> QED BY <3>2, <3>3
    <2> QED BY <2>1, <2>2, LedgerFalls
  <1>2. \A kind : Counted(kind)' = Counted(kind)
    BY DEF Counted
  <1>3. ASSUME "restart" \notin trouble' PROVE NothingInvented'
    <2>1. NothingInvented
      BY <1>3 DEF BooksKept
    <2>2. ASSUME NEW kind \in {"cached", "total"} PROVE Ledger(Took, kind)' <= Counted(kind)'
      <3>1. kind \in Kinds
        BY DEF Kinds
      <3>2. /\ Ledger(Took, kind) \in Nat /\ Counted(kind) \in Nat /\ Ledger(Took, kind)' \in Nat
        <4>1. Ledger(Took, kind)' \in Nat
          <5>1. PICK f, g \in [Tasks -> Nat] :
                     IsFiniteSet(Tasks) /\ Ledger(Took, kind)' = Sum(g)
            BY <3>1, LedgerEntries
          <5> QED BY <5>1, SumNat
        <4> QED BY <3>1, <4>1, LedgerNat, CountedNat DEF BenchTyped
      <3>3. Ledger(Took, kind) <= Counted(kind)
        BY <2>1 DEF NothingInvented
      <3> QED BY <1>1, <1>2, <3>2, <3>3
    <2> QED BY <2>2 DEF NothingInvented
  <1> QED BY <1>3 DEF BooksKept
-----------------------------------------------------------------------------
\* A task that main has joined answers no more.
LEMMA CollectedSame ==
    ASSUME BenchTyped, Collected, UNCHANGED <<convs, mainVars>>,
           \A i \in Tasks : pc[i] = "done" => results'[i] = results[i]
    PROVE  Collected'
  <1>1. joined' = joined /\ all' = all
    BY DEF mainVars
  <1>2. \A i \in 1..joined : results'[i] = results[i]
    BY ConvFacts DEF BenchTyped, LoadOK, MainFits
  <1>3. ASSUME NEW kind PROVE Joined(kind)' = Joined(kind)
    BY <1>1, <1>2 DEF Joined
  <1> QED BY <1>1, <1>3 DEF Collected

LEMMA CollectedJoin ==
    ASSUME BenchTyped, Collected, Join
    PROVE  Collected'
  <1>1. /\ joined < Len(convs) /\ joined' = joined + 1 /\ all' = all \o results[joined + 1]
        /\ results' = results
    BY DEF Join, taskVars
  <1>2. PICK n \in Nat : n = joined + 1
    BY DEF BenchTyped, LoadOK, MainFits
  <1>3. n # 0 /\ n - 1 = joined /\ joined' = n /\ n \in Tasks /\ \A i \in 1..n : i \in Tasks
    BY <1>1, <1>2, ConvFacts DEF BenchTyped, LoadOK, MainFits
  <1>4. \A i \in Tasks : results[i] \in Seq(Reply)
    BY DEF BenchTyped, LoadOK, TasksFit, TaskFits
  <1>5. all \in Seq(Reply) /\ all' = all \o results[n]
    BY <1>1, <1>2 DEF BenchTyped, LoadOK, MainFits
  <1>6. ASSUME NEW kind \in Kinds PROVE Count(kind, all') = Joined(kind)'
    <2>1. PICK g : g = [i \in 1..n |-> Count(kind, results[i])]
      OBVIOUS
    <2>2. g \in [1..n -> Nat] /\ g[n] = Count(kind, results[n])
      BY <1>3, <1>4, <2>1, CountNat
    <2>3. [k \in 1..(n - 1) |-> g[k]] = [i \in 1..joined |-> Count(kind, results[i])]
      BY <1>3, <2>1
    <2>4. Sum(g) = Sum([k \in 1..(n - 1) |-> g[k]]) + g[n]
      BY <1>3, <2>2, SumLast
    <2>5. Joined(kind)' = Sum(g)
      BY <1>1, <1>3, <2>1 DEF Joined
    <2>6. Joined(kind) = Sum([k \in 1..(n - 1) |-> g[k]])
      BY <2>3 DEF Joined
    <2>7. Count(kind, all') = Count(kind, all) + Count(kind, results[n])
      BY <1>3, <1>4, <1>5, CountConcat
    <2>8. Count(kind, all) = Joined(kind)
      BY DEF Collected
    <2> QED BY <2>2, <2>4, <2>5, <2>6, <2>7, <2>8
  <1> QED BY <1>6 DEF Collected

\* The replica counts what it is about to answer with.
LEMMA CountedRises ==
    ASSUME BenchTyped, NEW i \in Tasks, Prefills(i), NEW kind \in {"cached", "total"}
    PROVE  /\ InHand(i)' \in Reply /\ call'[i].at = "prefilling" /\ call[i].at = "sent"
           /\ \A j \in Tasks \ {i} : call'[j] = call[j]
           /\ Counted(kind)' = Counted(kind) + Amount(kind, InHand(i)')
  <1> DEFINE r == call[i].replica
             n == CachedBlocks(sim[r], Prompt(i))
             m == Len(Prompt(i))
             what == [call[i] EXCEPT !.at = "prefilling", !.cached = n]
  <1>1. /\ call[i].at = "sent" /\ call[i] \in Held /\ pc[i] = "asking" /\ r \in Replicas
    BY HeldMoves DEF Prefills, BenchTyped
  <1>2. n \in Nat /\ m \in Nat
    BY <1>1, PromptFacts, LookupBounds DEF BenchTyped, CachedBlocks
  <1>3. /\ counted' = [counted EXCEPT ![r].cached = @ + n, ![r].total = @ + m]
        /\ Moves(i, what) /\ convs' = convs /\ turn' = turn
    BY DEF Prefills, loadVars, taskVars
  <1>4. what.at = "prefilling" /\ what.cached = n
    BY <1>1 DEF Held
  <1> HIDE DEF r, n, m, what
  <1>5. call'[i] = what /\ \A j \in Tasks \ {i} : call'[j] = call[j]
    BY <1>3 DEF Moves, BenchTyped, CallsTyped
  <1>6. InHand(i)' = [cached |-> n, total |-> m]
    BY <1>3, <1>4, <1>5 DEF InHand, Prompt, m
  <1>7. InHand(i)' \in Reply
    BY <1>2, <1>6 DEF Reply
  <1>8. counted \in [Replicas -> Reply] /\ counted[r] \in Reply
    BY <1>1 DEF BenchTyped, ReplicasOK
  <1>9. counted'[r] = [cached |-> counted[r].cached + n, total |-> counted[r].total + m]
        /\ \A q \in Replicas \ {r} : counted'[q] = counted[q]
    <2>1. counted' = [counted EXCEPT ![r] = [cached |-> counted[r].cached + n, total |-> counted[r].total + m]]
      BY PrefillTyped DEF r, n, m
    <2> QED BY <1>1, <1>8, <2>1
  <1>10. \A q \in Replicas : counted'[q] \in Reply
    <2>1. ReplicasOK'
      BY PrefillTyped
    <2> QED BY <2>1 DEF ReplicasOK
  <1>11. /\ Amount(kind, InHand(i)') \in Nat
         /\ Amount(kind, counted'[r]) = Amount(kind, counted[r]) + Amount(kind, InHand(i)')
    <2>1. CASE kind = "cached"
      BY <1>2, <1>6, <1>9, <2>1 DEF Amount
    <2>2. CASE kind = "total"
      BY <1>2, <1>6, <1>9, <2>2 DEF Amount
    <2> QED BY <2>1, <2>2
  <1>12. PICK f, g : /\ f = [q \in Replicas |-> Amount(kind, counted[q])]
                     /\ g = [q \in Replicas |-> Amount(kind, counted'[q])]
    OBVIOUS
  <1>13. f \in [Replicas -> Nat] /\ g \in [Replicas -> Nat] /\ IsFiniteSet(Replicas)
    <2>1. IsFiniteSet(Replicas)
      BY SchedulerAssumption, FS_Interval DEF Replicas
    <2>2. \A q \in Replicas : counted[q] \in Reply
      BY <1>8
    <2> QED BY <1>10, <1>12, <2>1, <2>2, AmountNat
  <1>14. \A q \in Replicas \ {r} : g[q] = f[q]
    BY <1>9, <1>12
  <1>15. Sum(g) + f[r] = Sum(f) + g[r] /\ Sum(f) \in Nat /\ Sum(g) \in Nat
    BY <1>1, <1>13, <1>14, SumChanged
  <1>16. Sum(g) = Counted(kind)' /\ Sum(f) = Counted(kind) /\ f[r] \in Nat
    BY <1>1, <1>12, <1>13 DEF Counted
  <1>17. g[r] = f[r] + Amount(kind, InHand(i)')
    BY <1>1, <1>11, <1>12
  <1>18. Counted(kind)' = Counted(kind) + Amount(kind, InHand(i)')
    <2>1. PICK was, is, one, more \in Nat : /\ was = Sum(f) /\ is = Sum(g) /\ one = f[r]
                                           /\ more = Amount(kind, InHand(i)')
      BY <1>11, <1>15, <1>16
    <2>2. is + one = was + (one + more)
      BY <1>15, <1>17, <2>1
    <2>3. is = was + more
      BY <2>2
    <2> QED BY <1>16, <2>1, <2>3
  <1> QED BY <1>1, <1>4, <1>5, <1>7, <1>18
-----------------------------------------------------------------------------
LEMMA BooksPrefills ==
    ASSUME BenchTyped, BenchTyped', BooksKept, Collected', NEW i \in Tasks, Prefills(i)
    PROVE  BooksKept'
  <1>1. /\ convs' = convs /\ turn' = turn /\ results' = results /\ served' = served
        /\ trouble' = trouble
    BY DEF Prefills, loadVars, taskVars, worldVars
  <1>2. /\ call'[i].at = "prefilling" /\ call[i].at = "sent"
        /\ \A j \in Tasks \ {i} : call'[j] = call[j]
    BY CountedRises
  <1>3. ASSUME NEW kind \in Kinds, NEW stages \in {Took, Done}, NEW j \in Tasks \ {i}
        PROVE  Entry(stages, kind, j)' = Entry(stages, kind, j)
    BY <1>1, <1>2, <1>3, EntrySame
  <1>4. ASSUME NEW kind \in Kinds PROVE Ledger(Done, kind)' = Ledger(Done, kind)
    <2>1. Entry(Done, kind, i)' = Entry(Done, kind, i)
      BY <1>1, <1>2, EntrySame DEF Done
    <2>2. \A j \in Tasks : Entry(Done, kind, j)' = Entry(Done, kind, j)
      BY <1>3, <2>1
    <2> QED BY <1>1, <2>2, LedgerSame
  <1>5. ASSUME NEW kind \in {"cached", "total"}
        PROVE  \E n \in Nat : /\ Ledger(Took, kind)' = Ledger(Took, kind) + n
                              /\ Counted(kind)' = Counted(kind) + n
                              /\ Ledger(Took, kind) \in Nat /\ Counted(kind) \in Nat
    <2>0. kind \in Kinds
      BY DEF Kinds
    <2>1. PICK n : n = Amount(kind, InHand(i)')
      OBVIOUS
    <2>2. n \in Nat /\ Counted(kind)' = Counted(kind) + n
      BY <2>1, CountedRises, AmountNat
    <2>3. Pending(Took, kind, i) = 0 /\ Pending(Took, kind, i)' = n
      BY <1>2, <2>1 DEF Pending, Took, Amount
    <2>4. Entry(Took, kind, i) = Count(kind, results[i]) + 0
          /\ Entry(Took, kind, i)' = Count(kind, results[i]) + n
          /\ Count(kind, results[i]) \in Nat
      BY <1>1, <2>0, <2>3, EntryNat DEF Entry, EntriesNat
    <2>5. Entry(Took, kind, i)' = Entry(Took, kind, i) + n
      BY <2>2, <2>4
    <2>6. \A j \in Tasks \ {i} : Entry(Took, kind, j)' = Entry(Took, kind, j)
      BY <1>3, <2>0
    <2>7. Ledger(Took, kind)' = Ledger(Took, kind) + n
      BY <1>1, <2>0, <2>2, <2>5, <2>6, LedgerRises
    <2>8. Ledger(Took, kind) \in Nat /\ Counted(kind) \in Nat
      BY <2>0, LedgerNat, CountedNat DEF BenchTyped
    <2> QED BY <2>2, <2>7, <2>8
  <1>6. NoneLost' => RouterCounts'
    BY <1>1, <1>4 DEF BooksKept, NoneLost, RouterCounts, Kinds
  <1>7. NoneLost' => ReplicasCount'
    <2> SUFFICES ASSUME NoneLost', NEW kind \in {"cached", "total"}
                 PROVE  Counted(kind)' = Ledger(Took, kind)'
      BY DEF ReplicasCount
    <2>1. Counted(kind) = Ledger(Took, kind)
      BY <1>1 DEF BooksKept, NoneLost, ReplicasCount
    <2> QED BY <1>5, <2>1
  <1>8. "restart" \notin trouble' => NothingInvented'
    <2> SUFFICES ASSUME "restart" \notin trouble', NEW kind \in {"cached", "total"}
                 PROVE  Ledger(Took, kind)' <= Counted(kind)'
      BY DEF NothingInvented
    <2>1. Ledger(Took, kind) <= Counted(kind)
      BY <1>1 DEF BooksKept, NothingInvented
    <2> QED BY <1>5, <2>1
  <1> QED BY <1>6, <1>7, <1>8 DEF BooksKept

\* The router counts what it hands on.
LEMMA BooksServed ==
    ASSUME BenchTyped, BenchTyped', BooksKept, Collected', NEW i \in Tasks, Served(i)
    PROVE  BooksKept'
  <1>1. /\ convs' = convs /\ turn' = turn /\ results' = results /\ counted' = counted
        /\ trouble' = trouble
        /\ call[i].at = "prefilling" /\ Moves(i, [at |-> "replied", cached |-> call[i].cached])
        /\ served' = [requests |-> served.requests + 1,
                      matched |-> served.matched + call[i].matched,
                      prompt |-> served.prompt + Len(Prompt(i))]
    BY DEF Served, loadVars, taskVars, worldVars, replicaVars
  <1>2. /\ call'[i].at = "replied" /\ call'[i].cached = call[i].cached
        /\ \A j \in Tasks \ {i} : call'[j] = call[j]
    BY <1>1 DEF Moves, BenchTyped, CallsTyped
  <1>3. ASSUME NEW kind \in Kinds, NEW stages \in {Took, Done}, NEW j \in Tasks \ {i}
        PROVE  Entry(stages, kind, j)' = Entry(stages, kind, j)
    BY <1>1, <1>2, <1>3, EntrySame
  <1>4. InHand(i)' = InHand(i) /\ InHand(i) \in Reply
    BY <1>1, <1>2, InHandFacts DEF InHand, Prompt, Took
  <1>5. ASSUME NEW kind \in Kinds PROVE Ledger(Took, kind)' = Ledger(Took, kind)
    <2>1. Pending(Took, kind, i)' = Pending(Took, kind, i)
      BY <1>1, <1>2, <1>4 DEF Pending, Took
    <2>2. Entry(Took, kind, i)' = Entry(Took, kind, i)
      BY <1>1, <2>1 DEF Entry
    <2>3. \A j \in Tasks : Entry(Took, kind, j)' = Entry(Took, kind, j)
      BY <1>3, <2>2
    <2> QED BY <1>1, <2>3, LedgerSame
  <1>6. ASSUME NEW kind \in Kinds
        PROVE  Ledger(Done, kind)' = Ledger(Done, kind) + Amount(kind, InHand(i))
    <2>1. PICK n : n = Amount(kind, InHand(i))
      OBVIOUS
    <2>2. n \in Nat
      BY <1>4, <2>1, AmountNat
    <2>3. Pending(Done, kind, i) = 0 /\ Pending(Done, kind, i)' = n
      BY <1>1, <1>2, <1>4, <2>1 DEF Pending, Done, Amount
    <2>4. Entry(Done, kind, i) = Count(kind, results[i]) + 0
          /\ Entry(Done, kind, i)' = Count(kind, results[i]) + n
          /\ Count(kind, results[i]) \in Nat
      BY <1>1, <2>3, EntryNat DEF Entry, EntriesNat
    <2>5. Entry(Done, kind, i)' = Entry(Done, kind, i) + n
      BY <2>2, <2>4
    <2>6. \A j \in Tasks \ {i} : Entry(Done, kind, j)' = Entry(Done, kind, j)
      BY <1>3
    <2>7. Ledger(Done, kind)' = Ledger(Done, kind) + n
      BY <1>1, <2>2, <2>5, <2>6, LedgerRises
    <2> QED BY <2>1, <2>7
  <1>7. Counted("cached")' = Counted("cached") /\ Counted("total")' = Counted("total")
    BY <1>1 DEF Counted
  <1>8. NoneLost' => RouterCounts'
    <2> SUFFICES ASSUME NoneLost' PROVE RouterCounts'
      OBVIOUS
    <2>1. served.requests = Ledger(Done, "requests") /\ served.prompt = Ledger(Done, "total")
      BY <1>1 DEF BooksKept, NoneLost, RouterCounts
    <2>2. Amount("requests", InHand(i)) = 1 /\ Amount("total", InHand(i)) = Len(Prompt(i))
      BY DEF Amount, InHand
    <2>3. /\ Ledger(Done, "requests")' = Ledger(Done, "requests") + 1
          /\ Ledger(Done, "total")' = Ledger(Done, "total") + Len(Prompt(i))
      BY <1>6, <2>2 DEF Kinds
    <2>4. served'.requests = served.requests + 1 /\ served'.prompt = served.prompt + Len(Prompt(i))
      BY <1>1
    <2> QED BY <2>1, <2>3, <2>4 DEF RouterCounts
  <1>9. NoneLost' => ReplicasCount'
    BY <1>1, <1>5, <1>7 DEF BooksKept, NoneLost, ReplicasCount, Kinds
  <1>10. "restart" \notin trouble' => NothingInvented'
    BY <1>1, <1>5, <1>7 DEF BooksKept, NothingInvented, Kinds
  <1> QED BY <1>8, <1>9, <1>10 DEF BooksKept
-----------------------------------------------------------------------------
\* The load generator takes what was pending.
LEMMA BooksDelivered ==
    ASSUME BenchTyped, BenchTyped', BooksKept, Collected', NEW i \in Tasks, Delivered(i)
    PROVE  BooksKept'
  <1>1. /\ convs' = convs /\ served' = served /\ counted' = counted /\ trouble' = trouble
        /\ Moves(i, NoCall)
    BY DEF Delivered, Answered, Refused, worldVars, replicaVars
  <1>2. call'[i] = NoCall /\ \A j \in Tasks \ {i} : call'[j] = call[j]
    BY <1>1 DEF Moves, BenchTyped, CallsTyped
  <1>3. \A j \in Tasks \ {i} : turn'[j] = turn[j] /\ results'[j] = results[j]
    BY DEF Delivered, Answered, Refused, Finish, BenchTyped, LoadOK, TasksFit
  <1>4. ASSUME NEW kind \in Kinds, NEW stages \in {Took, Done}, NEW j \in Tasks \ {i}
        PROVE  Entry(stages, kind, j)' = Entry(stages, kind, j)
    BY <1>1, <1>2, <1>3, <1>4, EntrySame
  <1>5. ASSUME NEW kind \in Kinds, NEW stages \in {Took, Done}
        PROVE  Entry(stages, kind, i)' = Entry(stages, kind, i)
    <2>1. "none" \notin stages /\ "replied" \in stages /\ "failed" \notin stages
      BY DEF Took, Done
    <2>2. Pending(stages, kind, i)' = 0
      BY <1>2, <2>1, NotCalled DEF Pending
    <2>3. CASE call[i].at = "failed"
      <3>1. results' = results
        BY <2>3 DEF Delivered, Refused
      <3> QED BY <1>1, <1>2, <2>1, <2>3, <3>1, NotCalled, EntrySame
    <2>4. CASE call[i].at # "failed"
      <3>1. call[i].at = "replied" /\ Answered(i, InHand(i))
        BY <2>4 DEF Delivered, InHand
      <3>2. InHand(i) \in Reply
        BY <3>1, InHandFacts DEF Took
      <3>3. results[i] \in Seq(Reply) /\ results'[i] = Append(results[i], InHand(i))
        BY <3>1 DEF Answered, BenchTyped, LoadOK, TasksFit, TaskFits
      <3>4. Count(kind, results'[i]) = Count(kind, results[i]) + Amount(kind, InHand(i))
        BY <3>2, <3>3, CountAppend
      <3>5. Pending(stages, kind, i) = Amount(kind, InHand(i))
        BY <2>1, <3>1 DEF Pending
      <3>6. Count(kind, results[i]) \in Nat /\ Amount(kind, InHand(i)) \in Nat
        BY <3>2, <3>3, CountNat, AmountNat
      <3> QED BY <2>2, <3>4, <3>5, <3>6 DEF Entry
    <2> QED BY <2>3, <2>4
  <1>6. Same(Took) /\ Same(Done)
    BY <1>4, <1>5 DEF Same
  <1> QED BY <1>1, <1>6, BooksSame

\* A replica restarts: it forgets what it counted.
LEMMA BooksRestart ==
    ASSUME BooksKept, Collected', NEW r \in Replicas, Restarts(r)
    PROVE  BooksKept'
  <1>1. "restart" \in trouble'
    BY DEF Restarts, Fault
  <1> QED BY <1>1 DEF BooksKept, NoneLost

\* Steps of a handler that leave every stage as it was.
LEMMA BooksAside ==
    ASSUME BenchTyped, BenchTyped', BooksKept, Collected', trouble \subseteq trouble',
           UNCHANGED loadVars, served' = served, counted' = counted,
           \A j \in Tasks : \/ call'[j] = call[j]
                            \/ call[j].at \notin Took /\ call'[j].at \notin Took
    PROVE  BooksKept'
  <1>1. convs' = convs /\ turn' = turn /\ results' = results
    BY DEF loadVars, taskVars
  <1>2. ASSUME NEW j \in Tasks, NEW stages \in {Took, Done}, NEW kind \in Kinds
        PROVE  Entry(stages, kind, j)' = Entry(stages, kind, j)
    <2>1. stages \subseteq Took
      BY DEF Took, Done
    <2> QED BY <1>1, <2>1, EntrySame
  <1>3. Same(Took) /\ Same(Done)
    BY <1>2 DEF Same
  <1> QED BY <1>1, <1>3, BooksSame

LEMMA CollectedNext ==
    ASSUME BenchTyped, BooksKept, [BenchNext]_benchVars
    PROVE  Collected'
  <1>0. Collected
    BY DEF BooksKept
  <1>1. ASSUME UNCHANGED loadVars PROVE Collected'
    BY <1>0, <1>1, CollectedSame DEF loadVars, taskVars
  <1>2. ASSUME NEW i \in Tasks, TaskStarts(i) PROVE Collected'
    BY <1>0, <1>2, CollectedSame DEF TaskStarts, Acquire
  <1>3. CASE MainJoins
    BY <1>0, <1>3, CollectedJoin DEF MainJoins
  <1>4. ASSUME NEW i \in Tasks, GoesOn(i) PROVE Collected'
    <2>1. CASE TurnedAway(i)
      BY <1>0, <2>1, CollectedSame DEF TurnedAway, Refused
    <2>2. CASE Delivered(i)
      <3>1. /\ UNCHANGED <<convs, mainVars>> /\ pc[i] = "asking"
            /\ \A j \in Tasks \ {i} : results'[j] = results[j]
        BY <2>2 DEF Delivered, Answered, Refused, BenchTyped, LoadOK, TasksFit
      <3> QED BY <1>0, <3>1, CollectedSame
    <2>3. CASE ~TurnedAway(i) /\ ~Delivered(i)
      BY <1>1, <1>4, <2>3 DEF GoesOn, Accepted, PickFor, Prefills, Served, TimesOut, Breaks,
                              FailsOver, PicksAgain
    <2> QED BY <2>1, <2>2, <2>3
  <1>5. ASSUME NEW i \in Tasks, Hangs(i) PROVE Collected'
    BY <1>1, <1>5 DEF Hangs
  <1>6. ASSUME NEW r \in Replicas, Probed(r) \/ Restarts(r) PROVE Collected'
    BY <1>1, <1>6 DEF Probed, Restarts
  <1>7. CASE Starts \/ ShutdownSignal \/ Exits \/ MetricsServerFails \/ Connects
    BY <1>1, <1>7 DEF Starts, ShutdownSignal, Exits, MetricsServerFails, Connects
  <1>8. CASE UNCHANGED benchVars
    BY <1>1, <1>8 DEF benchVars
  <1> QED BY <1>2, <1>3, <1>4, <1>5, <1>6, <1>7, <1>8 DEF BenchNext
-----------------------------------------------------------------------------
\* One task's request, step by step.
LEMMA BooksGoOn ==
    ASSUME BenchTyped, BenchTyped', BooksKept, Collected', trouble \subseteq trouble',
           NEW i \in Tasks, GoesOn(i)
    PROVE  BooksKept'
  <1>1. ASSUME NEW to, Moves(i, to)
        PROVE  call'[i] = to /\ \A j \in Tasks \ {i} : call'[j] = call[j]
    BY <1>1 DEF Moves, BenchTyped, CallsTyped
  <1>2. ASSUME NEW to, Moves(i, to), call[i].at \notin Took, to.at \notin Took,
               UNCHANGED <<loadVars, replicaVars, served>>
        PROVE  BooksKept'
    <2>1. counted' = counted
      BY <1>2 DEF replicaVars
    <2>2. UNCHANGED loadVars /\ served' = served
      BY <1>2
    <2>3. \A j \in Tasks : \/ call'[j] = call[j]
                           \/ call[j].at \notin Took /\ call'[j].at \notin Took
      BY <1>1, <1>2
    <2> QED BY <2>1, <2>2, <2>3, BooksAside
  <1>3. ASSUME NEW attempt, PickFor(i, attempt), call[i].at \notin Took PROVE BooksKept'
    <2>1. UNCHANGED <<loadVars, replicaVars, served>>
      BY <1>3 DEF PickFor
    <2>2. \E to : Moves(i, to) /\ to.at \notin Took
      <3>1. CASE PickFails /\ Moves(i, [at |-> "failed"])
        BY <3>1 DEF Took
      <3>2. CASE ~(PickFails /\ Moves(i, [at |-> "failed"]))
        <4>1. PICK r \in Choice(Prompt(i)) :
                  Moves(i, [at |-> "sent", attempt |-> attempt, replica |-> r,
                            matched |-> MatchedBlocks(r, Prompt(i)), cached |-> 0])
          BY <1>3, <3>2 DEF PickFor
        <4> DEFINE to == [at |-> "sent", attempt |-> attempt, replica |-> r,
                          matched |-> MatchedBlocks(r, Prompt(i)), cached |-> 0]
        <4>2. to.at = "sent" /\ Moves(i, to)
          BY <4>1
        <4> HIDE DEF to
        <4> QED BY <4>2 DEF Took
      <3> QED BY <3>1, <3>2
    <2> QED BY <1>2, <1>3, <2>1, <2>2
  <1>4. CASE Accepted(i)
    BY <1>3, <1>4, NotCalled DEF Accepted, Took
  <1>5. CASE TurnedAway(i)
    <2>1. /\ call' = call /\ served' = served /\ counted' = counted /\ convs' = convs
          /\ turn' = turn /\ results' = results
      BY <1>5 DEF TurnedAway, Refused, Finish, routerVars, replicaVars
    <2>2. Same(Took) /\ Same(Done)
      BY <2>1, EntrySame DEF Same
    <2> QED BY <2>1, <2>2, BooksSame
  <1>6. CASE Prefills(i) \/ Served(i) \/ Delivered(i)
    BY <1>6, BooksPrefills, BooksServed, BooksDelivered
  <1>7. CASE TimesOut(i)
    <2> DEFINE retried == [call[i] EXCEPT !.at = "markDown"]
    <2>1. /\ call[i].at = "hung"
          /\ Moves(i, [at |-> "failed"]) \/ Moves(i, retried)
          /\ UNCHANGED <<loadVars, replicaVars, served>>
      BY <1>7 DEF TimesOut
    <2>2. retried.at = "markDown"
      <3>1. call[i] \in Held
        BY <2>1, HeldMoves DEF BenchTyped
      <3> QED BY <3>1 DEF Held
    <2>3. /\ call[i].at \notin Took
          /\ [at |-> "failed"].at \notin Took /\ retried.at \notin Took
      BY <2>1, <2>2 DEF Took
    <2> HIDE DEF retried
    <2> QED BY <1>2, <2>1, <2>3
  <1>8. CASE Breaks(i)
    <2> DEFINE to == [call[i] EXCEPT !.at = "markDown"]
    <2>1. /\ call[i].at \in {"sent", "prefilling", "hung", "lost"} /\ Moves(i, to)
          /\ UNCHANGED <<loadVars, replicaVars, served>>
      BY <1>8 DEF Breaks, Calling
    <2>2. to.at = "markDown"
      <3>1. call[i] \in Held
        BY <2>1, HeldMoves DEF BenchTyped
      <3> QED BY <3>1 DEF Held
    <2> HIDE DEF to
    <2>3. CASE call[i].at = "lost"
      BY <1>2, <2>1, <2>2, <2>3 DEF Took
    <2>4. CASE call[i].at # "lost"
      <3>1. ~NoneLost'
        BY <1>8, <2>4 DEF Breaks, Fault, NoneLost
      <3>2. /\ convs' = convs /\ results' = results /\ turn' = turn /\ counted' = counted
        BY <2>1 DEF loadVars, taskVars, replicaVars
      <3>3. \A j \in Tasks : \/ call'[j] = call[j] /\ turn'[j] = turn[j]
                             \/ call'[j].at \notin Took
        BY <1>1, <2>1, <2>2, <3>2 DEF Took
      <3> QED BY <3>1, <3>2, <3>3, BooksFall
    <2> QED BY <2>3, <2>4
  <1>9. CASE FailsOver(i)
    <2> DEFINE to == [at |-> IF call[i].attempt = 1 THEN "picking" ELSE "failed"]
    <2>1. /\ call[i].at = "markDown" /\ Moves(i, to) /\ UNCHANGED <<loadVars, replicaVars, served>>
      BY <1>9 DEF FailsOver
    <2>2. to.at \in {"picking", "failed"}
      OBVIOUS
    <2> HIDE DEF to
    <2> QED BY <1>2, <2>1, <2>2 DEF Took
  <1>10. CASE PicksAgain(i)
    BY <1>3, <1>10 DEF PicksAgain, Took
  <1> QED BY <1>4, <1>5, <1>6, <1>7, <1>8, <1>9, <1>10 DEF GoesOn

LEMMA BooksInit == BenchInit => BooksKept
  <1> SUFFICES ASSUME BenchInit PROVE BooksKept
    OBVIOUS
  <1>1. BenchTyped
    BY BenchTypedInit
  <1>2. IsFiniteSet(Tasks) /\ IsFiniteSet(Replicas)
    BY <1>1, ConvFacts, SchedulerAssumption, FS_Interval DEF BenchTyped, LoadOK, Replicas
  <1>3. ASSUME NEW kind \in Kinds, NEW stages \in {Took, Done} PROVE Ledger(stages, kind) = 0
    <2>1. ASSUME NEW i \in Tasks PROVE Entry(stages, kind, i) = 0
      <3>1. call[i].at = "none" /\ results[i] = <<>>
        BY NotCalled DEF BenchInit, LoadInit
      <3>2. Pending(stages, kind, i) = 0
        BY <3>1 DEF Pending, Took, Done
      <3> QED BY <3>1, <3>2, CountNone DEF Entry
    <2>2. PICK f : f = [i \in Tasks |-> Entry(stages, kind, i)]
      OBVIOUS
    <2>3. f \in [Tasks -> Nat] /\ \A i \in Tasks : f[i] = 0
      BY <2>1, <2>2
    <2> QED BY <1>2, <2>2, <2>3, SumZero DEF Ledger
  <1>4. ASSUME NEW kind \in {"cached", "total"} PROVE Counted(kind) = 0
    <2>1. PICK f : f = [r \in Replicas |-> Amount(kind, counted[r])]
      OBVIOUS
    <2>2. f \in [Replicas -> Nat] /\ \A r \in Replicas : f[r] = 0
      BY <2>1 DEF BenchInit, NoBlocks, Amount
    <2> QED BY <1>2, <2>1, <2>2, SumZero DEF Counted
  <1>5. Collected
    <2>1. joined = 0 /\ all = <<>> /\ 1..0 = {}
      BY DEF BenchInit, LoadInit
    <2>2. ASSUME NEW kind PROVE Joined(kind) = 0
      BY <2>1, SumEmpty DEF Joined
    <2> QED BY <2>1, <2>2, CountNone DEF Collected
  <1>6. served.requests = 0 /\ served.prompt = 0
    BY DEF BenchInit, NothingServed
  <1>7. RouterCounts
    BY <1>3, <1>6 DEF RouterCounts, Kinds
  <1>8. ReplicasCount /\ NothingInvented
    BY <1>3, <1>4 DEF ReplicasCount, NothingInvented, Kinds
  <1> QED BY <1>5, <1>7, <1>8 DEF BooksKept
-----------------------------------------------------------------------------
LEMMA BooksNext == BenchTyped /\ BenchTyped' /\ BooksKept /\ [BenchNext]_benchVars => BooksKept'
  <1> SUFFICES ASSUME BenchTyped, BenchTyped', BooksKept, [BenchNext]_benchVars PROVE BooksKept'
    OBVIOUS
  <1>0. Collected' /\ trouble \subseteq trouble'
    BY CollectedNext, TroubleGrows
  <1>1. ASSUME NEW i \in Tasks, GoesOn(i) PROVE BooksKept'
    BY <1>0, <1>1, BooksGoOn
  <1>2. ASSUME NEW i \in Tasks, TaskStarts(i) PROVE BooksKept'
    <2>1. /\ pc[i] = "queued" /\ turn' = [turn EXCEPT ![i] = 1]
          /\ convs' = convs /\ results' = results
          /\ call' = call /\ served' = served /\ counted' = counted
      BY <1>2 DEF TaskStarts, Acquire, routerVars, replicaVars
    <2>2. call[i].at = "none"
      BY <2>1, NotCalled DEF BenchTyped, CallsTyped
    <2>3. \A j \in Tasks \ {i} : turn'[j] = turn[j]
      BY <2>1 DEF BenchTyped, LoadOK, TasksFit
    <2>4. ASSUME NEW kind \in Kinds, NEW stages \in {Took, Done}, NEW j \in Tasks
          PROVE  Entry(stages, kind, j)' = Entry(stages, kind, j)
      <3>1. "none" \notin stages
        BY DEF Took, Done
      <3> QED BY <2>1, <2>2, <2>3, <3>1, EntrySame
    <2>5. Same(Took) /\ Same(Done)
      BY <2>4 DEF Same
    <2> QED BY <1>0, <2>1, <2>5, BooksSame
  <1>3. ASSUME NEW i \in Tasks, Hangs(i) PROVE BooksKept'
    <2>1. /\ ~NoneLost' /\ call[i].at \in {"sent", "prefilling"}
          /\ Moves(i, [call[i] EXCEPT !.at = "hung"])
          /\ convs' = convs /\ results' = results /\ turn' = turn /\ counted' = counted
      BY <1>3 DEF Hangs, Fault, NoneLost, loadVars, taskVars, replicaVars
    <2>2. call[i] \in Held
      BY <2>1, HeldMoves DEF BenchTyped
    <2>3. call'[i].at = "hung" /\ \A j \in Tasks \ {i} : call'[j] = call[j]
      BY <2>1, <2>2 DEF Held, Moves, BenchTyped, CallsTyped
    <2>4. \A j \in Tasks : \/ call'[j] = call[j] /\ turn'[j] = turn[j]
                           \/ call'[j].at \notin Took
      BY <2>1, <2>3 DEF Took
    <2> QED BY <1>0, <2>1, <2>4, BooksFall
  <1>4. ASSUME NEW r \in Replicas, Probed(r) PROVE BooksKept'
    BY <1>0, <1>4, BooksAside DEF Probed, replicaVars
  <1>5. ASSUME NEW r \in Replicas, Restarts(r) PROVE BooksKept'
    BY <1>0, <1>5, BooksRestart
  <1>6. CASE MetricsServerFails
    <2>1. /\ ~NoneLost' /\ call' = [i \in Tasks |-> NoCall]
          /\ convs' = convs /\ results' = results /\ counted' = counted
      BY <1>6 DEF MetricsServerFails, Fault, NoneLost, loadVars, taskVars, replicaVars
    <2>2. \A j \in Tasks : call'[j].at \notin Took
      BY <2>1, NotCalled DEF Took
    <2> QED BY <1>0, <2>1, <2>2, BooksFall
  <1>7. CASE MainJoins
    <2>1. /\ convs' = convs /\ turn' = turn /\ results' = results
          /\ call' = call /\ served' = served /\ counted' = counted
      BY <1>7 DEF MainJoins, Join, taskVars, routerVars, replicaVars
    <2>2. Same(Took) /\ Same(Done)
      BY <2>1, EntrySame DEF Same
    <2> QED BY <1>0, <2>1, <2>2, BooksSame
  <1>8. CASE Starts \/ ShutdownSignal \/ Exits \/ Connects \/ UNCHANGED benchVars
    <2>1. UNCHANGED loadVars /\ served' = served /\ counted' = counted /\ call' = call
      BY <1>8 DEF Starts, ShutdownSignal, Exits, Connects, routerVars, replicaVars, benchVars
    <2> QED BY <1>0, <2>1, BooksAside
  <1> QED BY <1>1, <1>2, <1>3, <1>4, <1>5, <1>6, <1>7, <1>8 DEF BenchNext

\* At the end every request is answered or given up: nothing is pending.
LEMMA BooksClosed ==
    ASSUME BenchTyped, BooksKept, Reported, NEW kind \in Kinds, NEW stages \in {Took, Done}
    PROVE  Ledger(stages, kind) = Count(kind, all)
  <1>1. Tasks = 1..joined /\ \A i \in Tasks : pc[i] = "done"
    BY ConvFacts DEF BenchTyped, LoadOK, MainFits, Reported
  <1>2. ASSUME NEW i \in Tasks PROVE Entry(stages, kind, i) = Count(kind, results[i])
    <2>1. call[i].at = "none"
      BY <1>1, NotCalled DEF BenchTyped, CallsTyped
    <2>2. Pending(stages, kind, i) = 0
      BY <2>1 DEF Pending, Took, Done
    <2>3. Count(kind, results[i]) \in Nat
      BY EntryNat DEF EntriesNat
    <2> QED BY <2>2, <2>3 DEF Entry
  <1>3. [i \in Tasks |-> Entry(stages, kind, i)] = [i \in 1..joined |-> Count(kind, results[i])]
    BY <1>1, <1>2
  <1> QED BY <1>3 DEF Ledger, Joined, BooksKept, Collected

\* When the benchmark reports, the books of the three programs agree: with no
\* call lost, requests and blocks are the same in the report, in the router's
\* counters and in the replicas' together; and whatever fails, short of a restart
\* that clears a replica's counters, the report claims no block that no replica
\* counted (service.rs:122-123, server.rs:112-124, main.rs:131-139).
THEOREM BooksAgreeEver == BenchSpec => []BooksAgree
  <1>1. BenchTyped /\ BooksKept => BooksAgree
    <2> SUFFICES ASSUME BenchTyped, BooksKept, Reported PROVE
                    /\ NoneLost =>
                        /\ served.requests = Report.requests
                        /\ served.prompt = Report.total
                        /\ AllCounted = [cached |-> Report.cached, total |-> Report.total]
                    /\ "restart" \notin trouble =>
                        Report.cached <= AllCounted.cached /\ Report.total <= AllCounted.total
      BY DEF BooksAgree, NoneLost
    <2>1. /\ Report.requests = Count("requests", all)
          /\ Report.cached = Count("cached", all) /\ Report.total = Count("total", all)
      BY DEF Report, Count, Amount
    <2>2. AllCounted = [cached |-> Counted("cached"), total |-> Counted("total")]
      BY DEF AllCounted, Counted, Amount
    <2>3. /\ Ledger(Done, "requests") = Report.requests /\ Ledger(Done, "total") = Report.total
          /\ Ledger(Took, "cached") = Report.cached /\ Ledger(Took, "total") = Report.total
      BY <2>1, BooksClosed DEF Kinds
    <2> HIDE DEF Report, AllCounted
    <2>4. ASSUME NoneLost
          PROVE  /\ served.requests = Report.requests /\ served.prompt = Report.total
                 /\ Counted("cached") = Report.cached /\ Counted("total") = Report.total
      BY <2>3, <2>4 DEF BooksKept, RouterCounts, ReplicasCount
    <2>5. ASSUME "restart" \notin trouble
          PROVE  Report.cached <= Counted("cached") /\ Report.total <= Counted("total")
      BY <2>3, <2>5 DEF BooksKept, NothingInvented
    <2> QED BY <2>2, <2>4, <2>5
  <1>2. BenchSpec => [](BenchTyped /\ BooksKept)
    BY BenchTypedInit, BenchTypedNext, BooksInit, BooksNext, PTL DEF BenchSpec
  <1> QED BY <1>1, <1>2, PTL
-----------------------------------------------------------------------------
\* What a prompt adds to a cache with room for every block.

BlocksOf(hashes) == {hashes[k] : k \in DOMAIN hashes}

\* A cache fed with a prompt, by the router or by a replica.
Fed(c, hashes, budget) == EvictTo(Insert(c, hashes), budget)

LEMMA NothingEvicted ==
    ASSUME NEW c, CacheInv(c), NEW budget \in Nat, Cardinality(Blocks) <= budget
    PROVE  DOMAIN EvictTo(c, budget).map = DOMAIN c.map
  <1>1. NumBlocks(c) <= budget /\ NumBlocks(c) \in Nat
    <2>1. DOMAIN c.map \subseteq Blocks
      BY DEF CacheInv, CacheTypeOK
    <2>2. Cardinality(DOMAIN c.map) <= Cardinality(Blocks)
      BY <2>1, BlocksAssumption, FS_Subset
    <2>3. Cardinality(DOMAIN c.map) \in Nat /\ Cardinality(Blocks) \in Nat
      BY MapFinite, BlocksAssumption, FS_CardinalityType DEF NumBlocks
    <2> QED BY <2>2, <2>3 DEF NumBlocks
  <1>2. Popped(c, budget) = {}
    <2> SUFFICES ASSUME NEW e \in c.heap,
                        Cardinality({f \in c.heap : IsLive(c, f) /\ PopsBefore(f, e)})
                            < NumBlocks(c) - budget
                 PROVE  FALSE
      BY DEF Popped
    <2> DEFINE ahead == {f \in c.heap : IsLive(c, f) /\ PopsBefore(f, e)}
    <2>1. IsFiniteSet(c.heap) /\ ahead \subseteq c.heap
      BY DEF CacheInv, CacheTypeOK
    <2>2. Cardinality(ahead) \in Nat
      BY <2>1, FS_Subset, FS_CardinalityType
    <2> QED BY <1>1, <2>2
  <1> QED BY <1>2 DEF EvictTo, Restrict

\* The blocks it adds are those past its leading present ones: a block is
\* present only with all before it.
LEMMA MissingBlocks ==
    ASSUME NEW c, CacheInv(c), NEW hashes \in Chains \cup {<<>>}
    PROVE  Cardinality(DOMAIN c.map \cup BlocksOf(hashes)) + Lookup(c, hashes)
               = NumBlocks(c) + Len(hashes)
  <1> DEFINE D == DOMAIN c.map
             N == BlocksOf(hashes) \ D
             P == DOMAIN hashes \ Leading(c, hashes)
             at == [k \in P |-> hashes[k]]
  <1>1. IsFiniteSet(D) /\ NumBlocks(c) = Cardinality(D) /\ NumBlocks(c) \in Nat
    BY MapFinite DEF NumBlocks
  <1>2. /\ DOMAIN hashes = 1..Len(hashes) /\ Len(hashes) \in Nat
        /\ IsFiniteSet(DOMAIN hashes) /\ Cardinality(DOMAIN hashes) = Len(hashes)
    BY ChainFacts, FS_Interval
  <1>3. Leading(c, hashes) \subseteq DOMAIN hashes
    BY DEF Leading
  <1>4. IsFiniteSet(P) /\ Cardinality(P) = Len(hashes) - Lookup(c, hashes) /\ Lookup(c, hashes) \in Nat
    <2>1. DOMAIN hashes \cap Leading(c, hashes) = Leading(c, hashes)
      BY <1>3
    <2>2. IsFiniteSet(Leading(c, hashes))
      BY <1>2, <1>3, FS_Subset
    <2>3. IsFiniteSet(P) /\ Cardinality(P) = Cardinality(DOMAIN hashes) - Cardinality(DOMAIN hashes \cap Leading(c, hashes))
      BY <1>2, FS_Difference
    <2> QED BY <1>2, <2>1, <2>2, <2>3, FS_CardinalityType DEF Lookup
  <1>5. ASSUME NEW k \in DOMAIN hashes PROVE k \in P <=> hashes[k] \notin D
    <2>1. hashes \in Chains
      BY ChainsAssumption
    <2>2. k \in 1..k
      BY <1>2
    <2>3. CASE hashes[k] \in D
      <3>1. \A j \in 1..k : hashes[j] \in D
        BY <2>1, <2>3 DEF CacheInv, PrefixClosed
      <3> QED BY <2>3, <3>1 DEF Leading
    <2>4. CASE hashes[k] \notin D
      BY <2>2, <2>4 DEF Leading
    <2> QED BY <2>3, <2>4
  <1>6. at \in Surjection(P, N)
    <2>1. \A k \in P : at[k] \in N
      BY <1>5 DEF BlocksOf
    <2>2. \A b \in N : \E k \in P : at[k] = b
      BY <1>5 DEF BlocksOf
    <2> QED BY <2>1, <2>2 DEF Surjection
  <1>7. at \in Injection(P, N)
    <2>1. \A j, k \in P : at[j] = at[k] => j = k
      BY PromptsAgree
    <2> QED BY <1>6, <2>1 DEF Injection, IsInjective, Surjection
  <1> HIDE DEF P, at
  <1>8. IsFiniteSet(N) /\ Cardinality(N) = Cardinality(P)
    BY <1>4, <1>6, <1>7, FS_Surjection
  <1>9. Cardinality(D \cup N) = Cardinality(D) + Cardinality(N)
    <2>1. D \cap N = {}
      OBVIOUS
    <2> HIDE DEF N, D
    <2>2. Cardinality(D \cup N) = Cardinality(D) + Cardinality(N) - Cardinality({})
      BY <1>1, <1>8, <2>1, FS_Union
    <2>3. Cardinality(D) \in Nat /\ Cardinality(N) \in Nat
      BY <1>1, <1>8, FS_CardinalityType
    <2> QED BY <2>2, <2>3, FS_EmptySet
  <1>10. D \cup N = DOMAIN c.map \cup BlocksOf(hashes)
    OBVIOUS
  <1>11. Cardinality(DOMAIN c.map \cup BlocksOf(hashes)) = Cardinality(D) + Cardinality(P)
    BY <1>8, <1>9, <1>10
  <1> HIDE DEF D, N
  <1> QED BY <1>1, <1>2, <1>4, <1>11

LEMMA FedFacts ==
    ASSUME NEW c, CacheInv(c), NEW hashes \in Chains \cup {<<>>},
           NEW budget \in Nat, Cardinality(Blocks) <= budget
    PROVE  /\ DOMAIN Fed(c, hashes, budget).map = DOMAIN c.map \cup BlocksOf(hashes)
           /\ NumBlocks(Fed(c, hashes, budget)) + Lookup(c, hashes) = NumBlocks(c) + Len(hashes)
           /\ NumBlocks(Fed(c, hashes, budget)) \in Nat /\ NumBlocks(c) \in Nat
           /\ Lookup(c, hashes) \in Nat /\ Len(hashes) \in Nat /\ Lookup(c, hashes) <= Len(hashes)
  <1>1. /\ CacheInv(Insert(c, hashes))
        /\ DOMAIN Insert(c, hashes).map = DOMAIN c.map \cup BlocksOf(hashes)
    BY InsertFacts DEF BlocksOf
  <1>2. DOMAIN Fed(c, hashes, budget).map = DOMAIN Insert(c, hashes).map
    BY <1>1, NothingEvicted DEF Fed
  <1>3. CacheInv(Fed(c, hashes, budget))
    BY <1>1, EvictPreserves DEF Fed
  <1>4. NumBlocks(Fed(c, hashes, budget)) = Cardinality(DOMAIN c.map \cup BlocksOf(hashes))
    BY <1>1, <1>2 DEF NumBlocks
  <1>5. NumBlocks(Fed(c, hashes, budget)) \in Nat /\ NumBlocks(c) \in Nat
    BY <1>3, MapFinite
  <1> QED BY <1>1, <1>2, <1>4, <1>5, MissingBlocks, LookupBounds
-----------------------------------------------------------------------------
\* While nothing fails and every cache has room for every block.

RoomForAll ==
    Policy = "CacheAware" /\ Cardinality(Blocks) <= BlockBudget /\ Cardinality(Blocks) <= Capacity

Open == {"sent", "prefilling"}

\* A request is on its way, and predicted to find no more than it has.
OnTheWay ==
    \A i \in Tasks :
        /\ call[i].at \in {"none", "sent", "prefilling", "replied", "failed"}
        /\ call[i].at \in Open => call[i].matched <= Len(Prompt(i))

\* The blocks on their way to a replica.
Coming(r) ==
    {b \in Blocks : \E i \in Tasks : /\ call[i].at = "sent" /\ call[i].replica = r
                                     /\ b \in BlocksOf(Prompt(i))}

\* The router's picture of a replica is what the replica will have.
PicturesAhead == \A r \in Replicas : DOMAIN cache[r].map = DOMAIN sim[r].map \cup Coming(r)

Pictured == Sum([r \in Replicas |-> NumBlocks(cache[r])])
Cached == Sum([r \in Replicas |-> NumBlocks(sim[r])])

\* The blocks of an open request that were predicted to be missing.
Missing(i) == IF call[i].at \in Open THEN Len(Prompt(i)) - call[i].matched ELSE 0
MissingNow == Sum([i \in Tasks |-> Missing(i)])

\* Every block in a picture was predicted to be missing once, every block in a
\* cache was missing once.
ForeseenAndFound ==
    /\ OnTheWay /\ PicturesAhead
    /\ Pictured + served.matched = served.prompt + MissingNow
    /\ Cached + Counted("cached") = Counted("total")

LEMMA MissingNat == BenchTyped /\ OnTheWay => \A i \in Tasks : Missing(i) \in Nat
  <1> SUFFICES ASSUME BenchTyped, OnTheWay, NEW i \in Tasks, call[i].at \in Open
               PROVE  Len(Prompt(i)) - call[i].matched \in Nat
    BY DEF Missing
  <1>1. call[i] \in Held /\ pc[i] = "asking"
    BY HeldMoves DEF Open, BenchTyped
  <1>2. call[i].matched \in Nat /\ Len(Prompt(i)) \in Nat
    BY <1>1, PromptFacts DEF Held, BenchTyped
  <1> QED BY <1>2 DEF OnTheWay

LEMMA MissingNatNext == BenchTyped' /\ OnTheWay' => (\A i \in Tasks : Missing(i) \in Nat)'
  <1> QED BY MissingNat, PTL

\* One task's request changes what is missing.
LEMMA MissingChanges ==
    ASSUME BenchTyped, BenchTyped', OnTheWay, OnTheWay', convs' = convs, NEW i \in Tasks,
           \A j \in Tasks \ {i} : Missing(j)' = Missing(j)
    PROVE  /\ MissingNow' + Missing(i) = MissingNow + Missing(i)'
           /\ MissingNow \in Nat /\ MissingNow' \in Nat /\ Missing(i) \in Nat /\ Missing(i)' \in Nat
  <1>1. IsFiniteSet(Tasks) /\ Tasks' = Tasks
    BY ConvFacts DEF BenchTyped, LoadOK, Tasks
  <1>2. PICK f, g : f = [j \in Tasks |-> Missing(j)] /\ g = [j \in Tasks |-> Missing(j)']
    OBVIOUS
  <1>3. \A j \in Tasks : Missing(j) \in Nat /\ Missing(j)' \in Nat
    BY <1>1, MissingNat, MissingNatNext
  <1>4. f \in [Tasks -> Nat] /\ g \in [Tasks -> Nat]
    BY <1>2, <1>3
  <1>5. Sum(g) + f[i] = Sum(f) + g[i] /\ Sum(f) \in Nat /\ Sum(g) \in Nat
    BY <1>1, <1>2, <1>4, SumChanged
  <1>6. MissingNow = Sum(f) /\ MissingNow' = Sum(g)
    BY <1>1, <1>2 DEF MissingNow
  <1> QED BY <1>2, <1>3, <1>5, <1>6

LEMMA MissingSame ==
    ASSUME convs' = convs, \A j \in Tasks : Missing(j)' = Missing(j)
    PROVE  MissingNow' = MissingNow
  BY DEF MissingNow, Tasks

\* One picture changes.
LEMMA PicturedChanges ==
    ASSUME SchedOK, SchedOK', NEW r \in Replicas, \A q \in Replicas \ {r} : cache'[q] = cache[q]
    PROVE  /\ Pictured' + NumBlocks(cache[r]) = Pictured + NumBlocks(cache'[r])
           /\ Pictured \in Nat /\ Pictured' \in Nat
  <1>1. IsFiniteSet(Replicas)
    BY SchedulerAssumption, FS_Interval DEF Replicas
  <1>2. PICK f, g : /\ f = [q \in Replicas |-> NumBlocks(cache[q])]
                    /\ g = [q \in Replicas |-> NumBlocks(cache'[q])]
    OBVIOUS
  <1>3. \A q \in Replicas : NumBlocks(cache[q]) \in Nat /\ NumBlocks(cache'[q]) \in Nat
    BY MapFinite DEF SchedOK
  <1>4. f \in [Replicas -> Nat] /\ g \in [Replicas -> Nat] /\ \A q \in Replicas \ {r} : g[q] = f[q]
    BY <1>2, <1>3
  <1>5. Sum(g) + f[r] = Sum(f) + g[r] /\ Sum(f) \in Nat /\ Sum(g) \in Nat
    BY <1>1, <1>4, SumChanged
  <1>6. Pictured = Sum(f) /\ Pictured' = Sum(g)
    BY <1>2 DEF Pictured, NumBlocks
  <1> QED BY <1>2, <1>5, <1>6

\* One replica's cache changes.
LEMMA CachedChanges ==
    ASSUME ReplicasOK, ReplicasOK', NEW r \in Replicas, \A q \in Replicas \ {r} : sim'[q] = sim[q]
    PROVE  /\ Cached' + NumBlocks(sim[r]) = Cached + NumBlocks(sim'[r])
           /\ Cached \in Nat /\ Cached' \in Nat
  <1>1. IsFiniteSet(Replicas)
    BY SchedulerAssumption, FS_Interval DEF Replicas
  <1>2. PICK f, g : /\ f = [q \in Replicas |-> NumBlocks(sim[q])]
                    /\ g = [q \in Replicas |-> NumBlocks(sim'[q])]
    OBVIOUS
  <1>3. \A q \in Replicas : NumBlocks(sim[q]) \in Nat /\ NumBlocks(sim'[q]) \in Nat
    BY MapFinite DEF ReplicasOK
  <1>4. f \in [Replicas -> Nat] /\ g \in [Replicas -> Nat] /\ \A q \in Replicas \ {r} : g[q] = f[q]
    BY <1>2, <1>3
  <1>5. Sum(g) + f[r] = Sum(f) + g[r] /\ Sum(f) \in Nat /\ Sum(g) \in Nat
    BY <1>1, <1>4, SumChanged
  <1>6. Cached = Sum(f) /\ Cached' = Sum(g)
    BY <1>2 DEF Cached, NumBlocks
  <1> QED BY <1>2, <1>5, <1>6
-----------------------------------------------------------------------------
\* Steps that leave the open requests, the caches and the counters as they were.
LEMMA ForeseenSame ==
    ASSUME ForeseenAndFound, convs' = convs, cache' = cache, sim' = sim, counted' = counted,
           served' = served,
           \A i \in Tasks : \/ call'[i] = call[i] /\ turn'[i] = turn[i]
                            \/ call[i].at \notin Open /\ call'[i].at \in {"none", "replied", "failed"}
    PROVE  ForeseenAndFound'
  <1>0. Tasks' = Tasks
    BY DEF Tasks
  <1>1. ASSUME NEW i \in Tasks
        PROVE  /\ Missing(i)' = Missing(i)
               /\ call'[i].at \in {"none", "sent", "prefilling", "replied", "failed"}
               /\ call'[i].at \in Open => call'[i].matched <= Len(Prompt(i)')
    <2>1. CASE call'[i] = call[i] /\ turn'[i] = turn[i]
      BY <2>1 DEF Missing, Prompt, ForeseenAndFound, OnTheWay
    <2>2. CASE call[i].at \notin Open /\ call'[i].at \in {"none", "replied", "failed"}
      BY <2>2 DEF Missing, Open
    <2> QED BY <2>1, <2>2
  <1>2. OnTheWay'
    BY <1>0, <1>1 DEF OnTheWay
  <1>3. ASSUME NEW r PROVE Coming(r)' = Coming(r)
    <2>1. ASSUME NEW i \in Tasks
          PROVE  /\ (call'[i].at = "sent") <=> (call[i].at = "sent")
                 /\ call[i].at = "sent" => call'[i] = call[i] /\ Prompt(i)' = Prompt(i)
      BY DEF Open, Prompt
    <2> QED BY <1>0, <2>1 DEF Coming
  <1>4. MissingNow' = MissingNow
    BY <1>1, MissingSame
  <1>5. PicturesAhead'
    BY <1>3 DEF PicturesAhead, ForeseenAndFound
  <1>6. Pictured' = Pictured /\ Cached' = Cached
    BY DEF Pictured, Cached
  <1>7. Counted("cached")' = Counted("cached") /\ Counted("total")' = Counted("total")
    BY DEF Counted
  <1> QED BY <1>2, <1>4, <1>5, <1>6, <1>7 DEF ForeseenAndFound

\* The router picks a replica: its picture gets the blocks that are missing.
LEMMA ForeseenPick ==
    ASSUME BenchTyped, BenchTyped', RoomForAll, ForeseenAndFound,
           NEW i \in Tasks, NEW hashes \in Chains \cup {<<>>}, hashes = Prompt(i),
           call[i].at \notin Open, NEW r \in Choice(hashes), Pick(hashes, r), NEW attempt,
           Moves(i, [at |-> "sent", attempt |-> attempt, replica |-> r,
                     matched |-> MatchedBlocks(r, hashes), cached |-> 0]),
           UNCHANGED <<loadVars, replicaVars, served>>
    PROVE  ForeseenAndFound'
  <1> DEFINE to == [at |-> "sent", attempt |-> attempt, replica |-> r,
                    matched |-> MatchedBlocks(r, hashes), cached |-> 0]
  <1>1. /\ convs' = convs /\ turn' = turn /\ sim' = sim /\ counted' = counted /\ served' = served
        /\ Tasks' = Tasks
    BY DEF loadVars, taskVars, replicaVars, Tasks
  <1>2. r \in Replicas /\ MatchedBlocks(r, hashes) = Lookup(cache[r], hashes)
    BY ChosenIsReplica DEF MatchedBlocks, RoomForAll
  <1>3. /\ call'[i] = to /\ \A j \in Tasks \ {i} : call'[j] = call[j]
    BY DEF Moves, BenchTyped, CallsTyped
  <1>4. to.at = "sent" /\ to.replica = r /\ to.matched = Lookup(cache[r], hashes)
    BY <1>2
  <1> HIDE DEF to
  <1>5. CacheInv(cache[r]) /\ DOMAIN cache = Replicas
    BY <1>2 DEF BenchTyped, SchedOK, SchedulerTypeOK
  <1>6. cache' = [cache EXCEPT ![r] = Fed(cache[r], hashes, BlockBudget)]
    BY DEF Pick, RoomForAll, Fed
  <1>7. cache'[r] = Fed(cache[r], hashes, BlockBudget) /\ \A q \in Replicas \ {r} : cache'[q] = cache[q]
    BY <1>2, <1>5, <1>6
  <1>8. /\ DOMAIN cache'[r].map = DOMAIN cache[r].map \cup BlocksOf(hashes)
        /\ NumBlocks(cache'[r]) + Lookup(cache[r], hashes) = NumBlocks(cache[r]) + Len(hashes)
        /\ NumBlocks(cache'[r]) \in Nat /\ NumBlocks(cache[r]) \in Nat
        /\ Lookup(cache[r], hashes) \in Nat /\ Len(hashes) \in Nat
        /\ Lookup(cache[r], hashes) <= Len(hashes)
    BY <1>5, <1>7, FedFacts, SchedulerAssumption DEF RoomForAll
  <1>9. \A j \in Tasks : Prompt(j)' = Prompt(j)
    BY <1>1 DEF Prompt
  <1>10. OnTheWay'
    <2>1. call'[i].at = "sent" /\ call'[i].matched <= Len(Prompt(i)')
      BY <1>3, <1>4, <1>8, <1>9
    <2> QED BY <1>1, <1>3, <1>9, <2>1 DEF OnTheWay, ForeseenAndFound
  <1>11. Missing(i) = 0 /\ Missing(i)' = Len(hashes) - Lookup(cache[r], hashes)
    BY <1>3, <1>4, <1>9 DEF Missing, Open
  <1>12. \A j \in Tasks \ {i} : Missing(j)' = Missing(j)
    BY <1>3, <1>9 DEF Missing
  <1>13. /\ MissingNow' = MissingNow + (Len(hashes) - Lookup(cache[r], hashes))
         /\ MissingNow \in Nat
    BY <1>1, <1>8, <1>10, <1>11, <1>12, MissingChanges DEF ForeseenAndFound
  <1>14. /\ Pictured' + NumBlocks(cache[r]) = Pictured + NumBlocks(cache'[r])
         /\ Pictured \in Nat /\ Pictured' \in Nat
    BY <1>2, <1>7, PicturedChanges DEF BenchTyped
  <1>15. BlocksOf(hashes) \subseteq Blocks
    BY ChainFacts DEF BlocksOf
  <1>16. Coming(r)' = Coming(r) \cup BlocksOf(hashes)
    <2>1. ASSUME NEW b \in Blocks PROVE b \in Coming(r)' <=> b \in Coming(r) \cup BlocksOf(hashes)
      <3>1. ASSUME NEW j \in Tasks, call'[j].at = "sent", call'[j].replica = r, b \in BlocksOf(Prompt(j)')
            PROVE  b \in Coming(r) \cup BlocksOf(hashes)
        BY <1>3, <1>9, <3>1 DEF Coming
      <3>2. ASSUME b \in BlocksOf(hashes) PROVE b \in Coming(r)'
        BY <1>1, <1>3, <1>4, <1>9, <3>2 DEF Coming
      <3>3. ASSUME NEW j \in Tasks, call[j].at = "sent", call[j].replica = r, b \in BlocksOf(Prompt(j))
            PROVE  b \in Coming(r)'
        <4>1. j # i
          BY <3>3 DEF Open
        <4> QED BY <1>1, <1>3, <1>9, <3>3, <4>1 DEF Coming
      <3>4. b \in Coming(r)' => b \in Coming(r) \cup BlocksOf(hashes)
        BY <1>1, <3>1 DEF Coming
      <3>5. b \in Coming(r) => b \in Coming(r)'
        BY <3>3 DEF Coming
      <3> QED BY <3>2, <3>4, <3>5
    <2>2. Coming(r)' \subseteq Blocks /\ Coming(r) \subseteq Blocks
      BY DEF Coming
    <2> QED BY <1>15, <2>1, <2>2
  <1>17. ASSUME NEW q \in Replicas, q # r PROVE Coming(q)' = Coming(q)
    <2>1. ASSUME NEW j \in Tasks
          PROVE  (call'[j].at = "sent" /\ call'[j].replica = q) <=> (call[j].at = "sent" /\ call[j].replica = q)
      BY <1>3, <1>4, <1>17 DEF Open
    <2> QED BY <1>1, <1>9, <2>1 DEF Coming
  <1>18. PicturesAhead'
    <2>1. ASSUME NEW q \in Replicas PROVE DOMAIN cache'[q].map = DOMAIN sim'[q].map \cup Coming(q)'
      <3>1. DOMAIN cache[q].map = DOMAIN sim[q].map \cup Coming(q)
        BY DEF PicturesAhead, ForeseenAndFound
      <3>2. CASE q = r
        BY <1>1, <1>8, <1>16, <3>1, <3>2
      <3>3. CASE q # r
        BY <1>1, <1>7, <1>17, <3>1, <3>3
      <3> QED BY <3>2, <3>3
    <2> QED BY <2>1 DEF PicturesAhead
  <1>19. Cached' = Cached /\ Counted("cached")' = Counted("cached") /\ Counted("total")' = Counted("total")
    BY <1>1 DEF Cached, Counted
  <1>20. Pictured' + served'.matched = served'.prompt + MissingNow'
    <2>1. Pictured + served.matched = served.prompt + MissingNow
      BY DEF ForeseenAndFound
    <2>2. served.matched \in Nat /\ served.prompt \in Nat
      BY DEF BenchTyped, ProcessOK
    <2>3. served'.matched = served.matched /\ served'.prompt = served.prompt
      BY <1>1
    <2>4. PICK n, n1, found, m \in Nat :
              /\ n = NumBlocks(cache[r]) /\ n1 = NumBlocks(cache'[r])
              /\ found = Lookup(cache[r], hashes) /\ m = Len(hashes)
      BY <1>8
    <2>5. n1 + found = n + m
      BY <1>8, <2>4
    <2>6. Pictured' + n = Pictured + n1 /\ MissingNow' = MissingNow + (m - found)
      BY <1>13, <1>14, <2>4
    <2>7. PICK p, p1, k, k1, a, s \in Int :
              /\ p = Pictured /\ p1 = Pictured' /\ k = MissingNow /\ k1 = MissingNow'
              /\ a = served.matched /\ s = served.prompt
      BY <1>8, <1>13, <1>14, <2>2
    <2>8. p1 + n = p + n1 /\ k1 = k + (m - found) /\ p + a = s + k
      BY <2>1, <2>6, <2>7
    <2>9. p1 + a = s + k1
      BY <2>5, <2>8
    <2> QED BY <2>3, <2>7, <2>9
  <1> QED BY <1>10, <1>18, <1>19, <1>20 DEF ForeseenAndFound
-----------------------------------------------------------------------------
\* The request reaches its replica, whose cache catches up with the picture.
LEMMA ForeseenPrefills ==
    ASSUME BenchTyped, BenchTyped', RoomForAll, ForeseenAndFound, NEW i \in Tasks, Prefills(i)
    PROVE  ForeseenAndFound'
  <1>1. /\ convs' = convs /\ turn' = turn /\ cache' = cache /\ served' = served /\ Tasks' = Tasks
        /\ call[i].at = "sent" /\ call[i] \in Held /\ pc[i] = "asking"
    BY HeldMoves DEF Prefills, loadVars, taskVars, schedVars, BenchTyped, Tasks
  <1>2. PICK r \in Replicas : r = call[i].replica
    BY <1>1 DEF Held
  <1>3. PICK hashes \in Chains \cup {<<>>} : hashes = Prompt(i)
    BY <1>1, PromptFacts DEF BenchTyped
  <1>4. PICK found, m \in Nat : found = Lookup(sim[r], hashes) /\ m = Len(hashes)
    BY LookupBounds
  <1>5. CacheInv(sim[r]) /\ DOMAIN sim = Replicas
    BY DEF BenchTyped, ReplicasOK
  <1>6. /\ sim' = [sim EXCEPT ![r] = Fed(sim[r], hashes, Capacity)]
        /\ Moves(i, [call[i] EXCEPT !.at = "prefilling", !.cached = found])
    BY <1>2, <1>3, <1>4 DEF Prefills, EvictOverCapacity, CachedBlocks, Fed
  <1>7. sim'[r] = Fed(sim[r], hashes, Capacity) /\ \A q \in Replicas \ {r} : sim'[q] = sim[q]
    BY <1>5, <1>6
  <1>8. /\ DOMAIN sim'[r].map = DOMAIN sim[r].map \cup BlocksOf(hashes)
        /\ NumBlocks(sim'[r]) + found = NumBlocks(sim[r]) + m
        /\ NumBlocks(sim'[r]) \in Nat /\ NumBlocks(sim[r]) \in Nat
    BY <1>4, <1>5, <1>7, FedFacts, CapacityAssumption DEF RoomForAll
  <1>9. /\ call'[i].at = "prefilling" /\ call'[i].matched = call[i].matched
        /\ call'[i].replica = r /\ call'[i].cached = found
        /\ \A j \in Tasks \ {i} : call'[j] = call[j]
    <2>1. call'[i] = [call[i] EXCEPT !.at = "prefilling", !.cached = found]
          /\ \A j \in Tasks \ {i} : call'[j] = call[j]
      BY <1>6 DEF Moves, BenchTyped, CallsTyped
    <2> QED BY <1>1, <1>2, <2>1 DEF Held
  <1>10. \A j \in Tasks : Prompt(j)' = Prompt(j)
    BY <1>1 DEF Prompt
  <1>11. OnTheWay'
    <2>1. call[i].matched <= Len(Prompt(i))
      BY <1>1 DEF ForeseenAndFound, OnTheWay, Open
    <2> QED BY <1>1, <1>9, <1>10, <2>1 DEF OnTheWay, ForeseenAndFound
  <1>12. \A j \in Tasks : Missing(j)' = Missing(j)
    BY <1>1, <1>9, <1>10 DEF Missing, Open
  <1>13. MissingNow' = MissingNow /\ Pictured' = Pictured
    BY <1>1, <1>12, MissingSame DEF Pictured
  <1>14. BlocksOf(hashes) \subseteq Blocks
    BY ChainFacts DEF BlocksOf
  <1>15. Coming(r) = Coming(r)' \cup BlocksOf(hashes)
    <2>1. ASSUME NEW b \in Blocks PROVE b \in Coming(r) <=> b \in Coming(r)' \cup BlocksOf(hashes)
      <3>1. ASSUME NEW j \in Tasks, call[j].at = "sent", call[j].replica = r, b \in BlocksOf(Prompt(j))
            PROVE  b \in Coming(r)' \cup BlocksOf(hashes)
        <4>1. CASE j = i
          BY <1>3, <3>1, <4>1
        <4>2. CASE j # i
          BY <1>1, <1>9, <1>10, <3>1, <4>2 DEF Coming
        <4> QED BY <4>1, <4>2
      <3>2. ASSUME b \in BlocksOf(hashes) PROVE b \in Coming(r)
        BY <1>1, <1>2, <1>3, <3>2 DEF Coming
      <3>3. ASSUME NEW j \in Tasks, call'[j].at = "sent", call'[j].replica = r, b \in BlocksOf(Prompt(j)')
            PROVE  b \in Coming(r)
        <4>1. j # i
          BY <1>9, <3>3
        <4> QED BY <1>9, <1>10, <3>3, <4>1 DEF Coming
      <3>4. b \in Coming(r) => b \in Coming(r)' \cup BlocksOf(hashes)
        BY <3>1 DEF Coming
      <3>5. b \in Coming(r)' => b \in Coming(r)
        BY <1>1, <3>3 DEF Coming
      <3> QED BY <3>2, <3>4, <3>5
    <2>2. Coming(r)' \subseteq Blocks /\ Coming(r) \subseteq Blocks
      BY DEF Coming
    <2> QED BY <1>14, <2>1, <2>2
  <1>16. ASSUME NEW q \in Replicas, q # r PROVE Coming(q)' = Coming(q)
    <2>1. ASSUME NEW j \in Tasks
          PROVE  (call'[j].at = "sent" /\ call'[j].replica = q) <=> (call[j].at = "sent" /\ call[j].replica = q)
      BY <1>2, <1>9, <1>16
    <2> QED BY <1>1, <1>10, <2>1 DEF Coming
  <1>17. PicturesAhead'
    <2>1. ASSUME NEW q \in Replicas PROVE DOMAIN cache'[q].map = DOMAIN sim'[q].map \cup Coming(q)'
      <3>1. DOMAIN cache[q].map = DOMAIN sim[q].map \cup Coming(q)
        BY DEF PicturesAhead, ForeseenAndFound
      <3>2. CASE q = r
        BY <1>1, <1>8, <1>15, <3>1, <3>2
      <3>3. CASE q # r
        BY <1>1, <1>7, <1>16, <3>1, <3>3
      <3> QED BY <3>2, <3>3
    <2> QED BY <2>1 DEF PicturesAhead
  <1>18. Cached' + NumBlocks(sim[r]) = Cached + NumBlocks(sim'[r]) /\ Cached \in Nat /\ Cached' \in Nat
    BY <1>7, CachedChanges DEF BenchTyped
  <1>19. /\ Counted("cached")' = Counted("cached") + found /\ Counted("total")' = Counted("total") + m
         /\ Counted("cached") \in Nat /\ Counted("total") \in Nat
    <2>1. InHand(i)' = [cached |-> found, total |-> m]
      BY <1>3, <1>4, <1>9, <1>10 DEF InHand
    <2>2. /\ Counted("cached")' = Counted("cached") + Amount("cached", InHand(i)')
          /\ Counted("total")' = Counted("total") + Amount("total", InHand(i)')
      BY CountedRises
    <2>3. Amount("cached", InHand(i)') = found /\ Amount("total", InHand(i)') = m
      BY <2>1 DEF Amount
    <2>4. Counted("cached") \in Nat /\ Counted("total") \in Nat
      BY CountedNat DEF BenchTyped, Kinds
    <2> QED BY <2>2, <2>3, <2>4
  <1>20. Cached' + Counted("cached")' = Counted("total")'
    <2>1. Cached + Counted("cached") = Counted("total")
      BY DEF ForeseenAndFound
    <2>2. PICK n, n1, c, c1, a, t \in Nat :
              /\ n = NumBlocks(sim[r]) /\ n1 = NumBlocks(sim'[r]) /\ c = Cached /\ c1 = Cached'
              /\ a = Counted("cached") /\ t = Counted("total")
      BY <1>8, <1>18, <1>19
    <2>3. n1 + found = n + m /\ c1 + n = c + n1 /\ c + a = t
      BY <1>8, <1>18, <2>1, <2>2
    <2>4. c1 + (a + found) = t + m
      BY <2>3
    <2> QED BY <1>19, <2>2, <2>4
  <1> QED BY <1>1, <1>11, <1>13, <1>17, <1>20 DEF ForeseenAndFound

\* The router's counters take over what the request foresaw.
LEMMA ForeseenServed ==
    ASSUME BenchTyped, BenchTyped', ForeseenAndFound, NEW i \in Tasks, Served(i)
    PROVE  ForeseenAndFound'
  <1>1. /\ convs' = convs /\ turn' = turn /\ cache' = cache /\ sim' = sim /\ counted' = counted
        /\ Tasks' = Tasks
        /\ call[i].at = "prefilling" /\ Moves(i, [at |-> "replied", cached |-> call[i].cached])
        /\ served' = [requests |-> served.requests + 1,
                      matched |-> served.matched + call[i].matched,
                      prompt |-> served.prompt + Len(Prompt(i))]
    BY DEF Served, Complete, loadVars, taskVars, replicaVars, Tasks
  <1>2. call'[i].at = "replied" /\ \A j \in Tasks \ {i} : call'[j] = call[j]
    BY <1>1 DEF Moves, BenchTyped, CallsTyped
  <1>3. \A j \in Tasks : Prompt(j)' = Prompt(j)
    BY <1>1 DEF Prompt
  <1>4. OnTheWay'
    <2>1. call'[i].at \notin Open
      BY <1>2 DEF Open
    <2> QED BY <1>1, <1>2, <1>3, <2>1 DEF OnTheWay, ForeseenAndFound
  <1>5. Missing(i) = Len(Prompt(i)) - call[i].matched /\ Missing(i)' = 0
        /\ \A j \in Tasks \ {i} : Missing(j)' = Missing(j)
    BY <1>1, <1>2, <1>3 DEF Missing, Open
  <1>6. /\ call[i].matched \in Nat /\ Len(Prompt(i)) \in Nat
        /\ served.matched \in Nat /\ served.prompt \in Nat
    <2>1. call[i] \in Held /\ pc[i] = "asking"
      BY <1>1, HeldMoves DEF BenchTyped
    <2> QED BY <2>1, PromptFacts DEF Held, BenchTyped, ProcessOK
  <1>7. MissingNow' + (Len(Prompt(i)) - call[i].matched) = MissingNow
        /\ MissingNow \in Nat /\ MissingNow' \in Nat
    <2>1. /\ MissingNow' + Missing(i) = MissingNow + Missing(i)'
          /\ MissingNow \in Nat /\ MissingNow' \in Nat
      BY <1>1, <1>4, <1>5, MissingChanges DEF ForeseenAndFound
    <2>2. PICK k, k1 \in Nat : k = MissingNow /\ k1 = MissingNow'
      BY <2>1
    <2> QED BY <1>5, <1>6, <2>1, <2>2
  <1>8. ASSUME NEW r PROVE Coming(r)' = Coming(r)
    <2>1. ASSUME NEW j \in Tasks
          PROVE  (call'[j].at = "sent" /\ call'[j].replica = r) <=> (call[j].at = "sent" /\ call[j].replica = r)
      BY <1>1, <1>2
    <2> QED BY <1>1, <1>3, <2>1 DEF Coming
  <1>9. PicturesAhead'
    BY <1>1, <1>8 DEF PicturesAhead, ForeseenAndFound
  <1>10. /\ Pictured' = Pictured /\ Cached' = Cached
         /\ Counted("cached")' = Counted("cached") /\ Counted("total")' = Counted("total")
    BY <1>1 DEF Pictured, Cached, Counted
  <1>11. Pictured + served'.matched = served'.prompt + MissingNow'
    <2>1. Pictured + served.matched = served.prompt + MissingNow
      BY DEF ForeseenAndFound
    <2>2. /\ served'.matched = served.matched + call[i].matched
          /\ served'.prompt = served.prompt + Len(Prompt(i))
      BY <1>1
    <2>3. Pictured \in Nat
      <3>1. 0 \in Replicas
        BY SchedulerAssumption DEF Replicas
      <3>2. SchedOK /\ SchedOK' /\ \A q \in Replicas \ {0} : cache'[q] = cache[q]
        BY <1>1 DEF BenchTyped
      <3> QED BY <3>1, <3>2, PicturedChanges
    <2>4. PICK p, k, k1, a, s, b, m \in Nat :
              /\ p = Pictured /\ k = MissingNow /\ k1 = MissingNow'
              /\ a = served.matched /\ s = served.prompt
              /\ b = call[i].matched /\ m = Len(Prompt(i))
      BY <1>6, <1>7, <2>3
    <2>5. k1 + (m - b) = k /\ p + a = s + k
      BY <1>7, <2>1, <2>4
    <2>6. p + (a + b) = (s + m) + k1
      BY <2>5
    <2> QED BY <2>2, <2>4, <2>6
  <1> QED BY <1>4, <1>9, <1>10, <1>11 DEF ForeseenAndFound
-----------------------------------------------------------------------------
LEMMA ForeseenInit == BenchInit => ForeseenAndFound
  <1> SUFFICES ASSUME BenchInit PROVE ForeseenAndFound
    OBVIOUS
  <1>1. BenchTyped /\ (\A i \in Tasks : call[i].at = "none")
    BY BenchTypedInit, NotCalled DEF BenchInit
  <1>2. IsFiniteSet(Tasks) /\ IsFiniteSet(Replicas)
    BY <1>1, ConvFacts, SchedulerAssumption, FS_Interval DEF BenchTyped, LoadOK, Replicas
  <1>3. OnTheWay
    BY <1>1 DEF OnTheWay, Open
  <1>4. ASSUME NEW r \in Replicas
        PROVE  /\ DOMAIN cache[r].map = {} /\ DOMAIN sim[r].map = {} /\ Coming(r) = {}
               /\ NumBlocks(cache[r]) = 0 /\ NumBlocks(sim[r]) = 0
    <2>1. cache[r] = NewCache /\ sim[r] = NewCache
      BY DEF BenchInit, SchedulerInit, NewKvCache
    <2>2. Coming(r) = {}
      BY <1>1 DEF Coming
    <2> QED BY <2>1, <2>2, FS_EmptySet DEF NewCache, NumBlocks
  <1>5. PicturesAhead
    BY <1>4 DEF PicturesAhead
  <1>6. Pictured = 0 /\ Cached = 0
    <2>1. PICK f, g : f = [r \in Replicas |-> NumBlocks(cache[r])] /\ g = [r \in Replicas |-> NumBlocks(sim[r])]
      OBVIOUS
    <2>2. /\ f \in [Replicas -> Nat] /\ g \in [Replicas -> Nat]
          /\ \A r \in Replicas : f[r] = 0 /\ g[r] = 0
      BY <1>4, <2>1
    <2>3. Sum(f) = 0 /\ Sum(g) = 0
      BY <1>2, <2>2, SumZero
    <2> QED BY <2>1, <2>3 DEF Pictured, Cached
  <1>7. MissingNow = 0
    <2>1. PICK f : f = [i \in Tasks |-> Missing(i)]
      OBVIOUS
    <2>2. f \in [Tasks -> Nat] /\ \A i \in Tasks : f[i] = 0
      BY <1>1, <2>1 DEF Missing, Open
    <2>3. Sum(f) = 0
      BY <1>2, <2>2, SumZero
    <2> QED BY <2>1, <2>3 DEF MissingNow
  <1>8. served.matched = 0 /\ served.prompt = 0
    BY DEF BenchInit, NothingServed
  <1>9. Counted("cached") = 0 /\ Counted("total") = 0
    <2>1. ASSUME NEW kind \in {"cached", "total"} PROVE Counted(kind) = 0
      <3>1. PICK f : f = [r \in Replicas |-> Amount(kind, counted[r])]
        OBVIOUS
      <3>2. f \in [Replicas -> Nat] /\ \A r \in Replicas : f[r] = 0
        BY <3>1 DEF BenchInit, NoBlocks, Amount
      <3>3. Sum(f) = 0
        BY <1>2, <3>2, SumZero
      <3> QED BY <3>1, <3>3 DEF Counted
    <2> QED BY <2>1
  <1> QED BY <1>3, <1>5, <1>6, <1>7, <1>8, <1>9 DEF ForeseenAndFound

\* One task's request, while nothing fails.
LEMMA ForeseenGoOn ==
    ASSUME BenchTyped, BenchTyped', RoomForAll, ForeseenAndFound, trouble' \subseteq {"signal"},
           NEW i \in Tasks, GoesOn(i)
    PROVE  ForeseenAndFound'
  <1>0. call[i].at \in {"none", "sent", "prefilling", "replied", "failed"}
    BY DEF ForeseenAndFound, OnTheWay
  <1>1. CASE Accepted(i)
    <2>1. /\ pc[i] = "asking" /\ call[i].at = "none" /\ PickFor(i, 1)
          /\ UNCHANGED <<loadVars, replicaVars, served>>
      BY <1>1, NotCalled DEF Accepted, PickFor
    <2>2. PICK hashes \in Chains \cup {<<>>} : hashes = Prompt(i)
      BY <2>1, PromptFacts DEF BenchTyped
    <2>3. CASE PickFails /\ Moves(i, [at |-> "failed"])
      <3>1. /\ convs' = convs /\ turn' = turn /\ cache' = cache /\ sim' = sim /\ counted' = counted
            /\ served' = served
        BY <2>1, <2>3 DEF PickFails, schedVars, loadVars, taskVars, replicaVars
      <3>2. call'[i].at = "failed" /\ \A j \in Tasks \ {i} : call'[j] = call[j]
        BY <2>3 DEF Moves, BenchTyped, CallsTyped
      <3> QED BY <2>1, <3>1, <3>2, ForeseenSame DEF Open
    <2>4. CASE ~(PickFails /\ Moves(i, [at |-> "failed"]))
      <3>1. PICK r \in Choice(hashes) :
                /\ Pick(hashes, r)
                /\ Moves(i, [at |-> "sent", attempt |-> 1, replica |-> r,
                             matched |-> MatchedBlocks(r, hashes), cached |-> 0])
        BY <2>1, <2>2, <2>4 DEF PickFor
      <3>2. call[i].at \notin Open
        BY <2>1 DEF Open
      <3> QED BY <2>1, <2>2, <3>1, <3>2, ForeseenPick
    <2> QED BY <2>3, <2>4
  <1>2. CASE TurnedAway(i)
    <2>1. /\ call' = call /\ cache' = cache /\ sim' = sim /\ counted' = counted /\ served' = served
          /\ convs' = convs /\ turn' = turn
      BY <1>2 DEF TurnedAway, Refused, Finish, routerVars, schedVars, replicaVars
    <2> QED BY <2>1, ForeseenSame
  <1>3. CASE Prefills(i)
    BY <1>3, ForeseenPrefills
  <1>4. CASE Served(i)
    BY <1>4, ForeseenServed
  <1>5. CASE TimesOut(i) \/ FailsOver(i) \/ PicksAgain(i)
    BY <1>0, <1>5 DEF TimesOut, FailsOver, PicksAgain
  <1>6. CASE Breaks(i)
    BY <1>0, <1>6 DEF Breaks, Fault
  <1>7. CASE Delivered(i)
    <2>1. /\ Moves(i, NoCall) /\ call[i].at \in {"replied", "failed"}
          /\ cache' = cache /\ sim' = sim /\ counted' = counted /\ served' = served /\ convs' = convs
      BY <1>7 DEF Delivered, Answered, Refused, schedVars, replicaVars
    <2>2. call'[i].at = "none" /\ \A j \in Tasks \ {i} : call'[j] = call[j]
      BY <2>1, NotCalled DEF Moves, BenchTyped, CallsTyped
    <2>3. \A j \in Tasks \ {i} : turn'[j] = turn[j]
      BY <1>7 DEF Delivered, Answered, Refused, Finish, BenchTyped, LoadOK, TasksFit
    <2> QED BY <2>1, <2>2, <2>3, ForeseenSame DEF Open
  <1> QED BY <1>1, <1>2, <1>3, <1>4, <1>5, <1>6, <1>7 DEF GoesOn

LEMMA ForeseenNext ==
    ASSUME BenchTyped, BenchTyped', RoomForAll, ForeseenAndFound, trouble' \subseteq {"signal"},
           [BenchNext]_benchVars
    PROVE  ForeseenAndFound'
  <1>1. ASSUME NEW i \in Tasks, GoesOn(i) PROVE ForeseenAndFound'
    BY <1>1, ForeseenGoOn
  <1>2. ASSUME NEW i \in Tasks, TaskStarts(i) PROVE ForeseenAndFound'
    <2>1. /\ pc[i] = "queued" /\ turn' = [turn EXCEPT ![i] = 1]
          /\ call' = call /\ cache' = cache /\ sim' = sim /\ counted' = counted /\ served' = served
          /\ convs' = convs
      BY <1>2 DEF TaskStarts, Acquire, routerVars, schedVars, replicaVars
    <2>2. call[i].at = "none"
      BY <2>1, NotCalled DEF BenchTyped, CallsTyped
    <2>3. \A j \in Tasks \ {i} : turn'[j] = turn[j]
      BY <2>1 DEF BenchTyped, LoadOK, TasksFit
    <2> QED BY <2>1, <2>2, <2>3, ForeseenSame DEF Open
  <1>3. ASSUME NEW i \in Tasks, Hangs(i) PROVE ForeseenAndFound'
    BY <1>3 DEF Hangs, Fault
  <1>4. ASSUME NEW r \in Replicas, Probed(r) PROVE ForeseenAndFound'
    <2>1. MarkHealthy(r) /\ UNCHANGED <<call, served, replicaVars, loadVars>>
      BY <1>4 DEF Probed, Fault
    <2>2. /\ call' = call /\ cache' = cache /\ sim' = sim /\ counted' = counted /\ served' = served
          /\ convs' = convs /\ turn' = turn
      BY <2>1 DEF MarkHealthy, replicaVars, loadVars, taskVars
    <2> QED BY <2>2, ForeseenSame
  <1>5. ASSUME NEW r \in Replicas, Restarts(r) PROVE ForeseenAndFound'
    BY <1>5 DEF Restarts, Fault
  <1>6. CASE MetricsServerFails
    BY <1>6 DEF MetricsServerFails, Fault
  <1>7. CASE Starts \/ ShutdownSignal \/ Exits \/ Connects \/ MainJoins \/ UNCHANGED benchVars
    <2>1. /\ call' = call /\ cache' = cache /\ sim' = sim /\ counted' = counted /\ served' = served
          /\ convs' = convs /\ turn' = turn
      BY <1>7 DEF Starts, ShutdownSignal, Exits, Connects, MainJoins, Join, routerVars, schedVars,
                  replicaVars, loadVars, taskVars, benchVars
    <2> QED BY <2>1, ForeseenSame
  <1> QED BY <1>1, <1>2, <1>3, <1>4, <1>5, <1>6, <1>7 DEF BenchNext

Sunny == trouble \subseteq {"signal"} /\ RoomForAll

LEMMA SunnyNext ==
    BenchTyped /\ BenchTyped' /\ (Sunny => ForeseenAndFound) /\ [BenchNext]_benchVars
        => (Sunny => ForeseenAndFound)'
  BY TroubleGrows, ForeseenNext DEF Sunny, RoomForAll

\* When the benchmark reports, what cache-aware routing predicted is what the
\* replicas found: with every cache large enough to evict nothing and nothing
\* failed, the blocks the router counted as matched are, in the sum, those the
\* replicas found cached, in whatever order concurrent requests reached them
\* (server.rs:119-123, service.rs:115-123).
THEOREM PredictionsComeTrue == BenchSpec => []PredictionsAddUp
  <1>1. BenchTyped /\ BooksAgree /\ (Sunny => ForeseenAndFound) => PredictionsAddUp
    <2> SUFFICES ASSUME BenchTyped, BooksAgree, ForeseenAndFound, Reported, Sunny
                 PROVE  served.matched = AllCounted.cached
      <3>1. Cardinality(Blocks) \in Nat /\ BlockBudget \in Nat /\ Capacity \in Nat
        BY BlocksAssumption, FS_CardinalityType, SchedulerAssumption, CapacityAssumption
      <3> QED BY <3>1 DEF PredictionsAddUp, Sunny, RoomForAll
    <2>1. \A i \in Tasks : call[i].at = "none"
      <3>1. Tasks = 1..joined /\ \A i \in Tasks : pc[i] = "done"
        BY ConvFacts DEF BenchTyped, LoadOK, MainFits, Reported
      <3> QED BY <3>1, NotCalled DEF BenchTyped, CallsTyped
    <2>2. Pictured = Cached
      <3>1. ASSUME NEW r \in Replicas PROVE NumBlocks(cache[r]) = NumBlocks(sim[r])
        <4>1. Coming(r) = {}
          BY <2>1 DEF Coming
        <4>2. DOMAIN cache[r].map = DOMAIN sim[r].map
          BY <4>1 DEF ForeseenAndFound, PicturesAhead
        <4> QED BY <4>2 DEF NumBlocks
      <3> QED BY <3>1 DEF Pictured, Cached
    <2>3. MissingNow = 0
      <3>1. IsFiniteSet(Tasks)
        BY ConvFacts DEF BenchTyped, LoadOK
      <3>2. PICK f : f = [i \in Tasks |-> Missing(i)]
        OBVIOUS
      <3>3. f \in [Tasks -> Nat] /\ \A i \in Tasks : f[i] = 0
        BY <2>1, <3>2 DEF Missing, Open
      <3>4. Sum(f) = 0
        BY <3>1, <3>3, SumZero
      <3> QED BY <3>2, <3>4 DEF MissingNow
    <2>4. served.prompt = AllCounted.total
      BY DEF BooksAgree, Sunny
    <2>5. AllCounted.cached = Counted("cached") /\ AllCounted.total = Counted("total")
      BY DEF AllCounted, Counted, Amount
    <2>6. Pictured + served.matched = served.prompt + 0 /\ Pictured + Counted("cached") = Counted("total")
      BY <2>2, <2>3 DEF ForeseenAndFound
    <2>7. Pictured \in Nat /\ served.matched \in Nat /\ Counted("cached") \in Nat /\ Counted("total") \in Nat
      <3>1. IsFiniteSet(Replicas)
        BY SchedulerAssumption, FS_Interval DEF Replicas
      <3>2. [r \in Replicas |-> NumBlocks(cache[r])] \in [Replicas -> Nat]
        BY MapFinite DEF BenchTyped, SchedOK
      <3>3. Pictured \in Nat
        BY <3>1, <3>2, SumNat DEF Pictured
      <3> QED BY <3>3, CountedNat DEF BenchTyped, ProcessOK, Kinds
    <2> HIDE DEF Pictured, AllCounted
    <2> QED BY <2>4, <2>5, <2>6, <2>7
  <1>2. BenchInit => (Sunny => ForeseenAndFound)
    BY ForeseenInit
  <1>3. BenchSpec => [](BenchTyped /\ (Sunny => ForeseenAndFound))
    BY <1>2, BenchTypedInit, BenchTypedNext, SunnyNext, PTL DEF BenchSpec
  <1> QED BY <1>1, <1>3, BooksAgreeEver, PTL
=============================================================================
