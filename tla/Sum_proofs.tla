----------------------------- MODULE Sum_proofs -----------------------------
(***************************************************************************)
(* Facts about journals of cash events and about sums over finite sets,    *)
(* for the proofs of the modules of this project.                          *)
(*                                                                         *)
(* SumFunctionOnSet recurs over subsets, and what it computes is known by  *)
(* induction only.  The induction here is the minimum of a well-founded    *)
(* relation (WFMin): of the sets on which a claim about sums fails, take   *)
(* one with no such proper subset.                                         *)
(***************************************************************************)
EXTENDS Journals, Functions, FiniteSetTheorems, WellFoundedInduction, TLAPS

-----------------------------------------------------------------------------
(* Journals. *)

\* The empty journal chains, and leaves nothing.
LEMMA EmptyJournal == Chained(<<>>) /\ LastBalance(<<>>) = 0
  BY DEF Chained, LastBalance

\* Appending an event whose balance adds its amount to the last balance keeps
\* a journal chained: what _append_cash_event has to write.
LEMMA AppendChains ==
  ASSUME NEW Event, NEW log \in Seq(Event), NEW e \in Event,
         Chained(log), e.balance = e.amount + LastBalance(log)
  PROVE  Chained(Append(log, e)) /\ LastBalance(Append(log, e)) = e.balance
<1> DEFINE longer == Append(log, e)
<1>1. longer \in Seq(Event) /\ Len(longer) = Len(log) + 1
  OBVIOUS
<1>2. longer[Len(log) + 1] = e /\ \A i \in 1..Len(log) : longer[i] = log[i]
  OBVIOUS
<1>3. LastBalance(longer) = e.balance
  BY <1>1, <1>2 DEF LastBalance
<1>4. ASSUME NEW i \in 1..Len(longer)
      PROVE  longer[i].balance =
                longer[i].amount + (IF i = 1 THEN 0 ELSE longer[i-1].balance)
  <2>1. CASE i = Len(log) + 1
    <3>1. LastBalance(log) = IF i = 1 THEN 0 ELSE longer[i-1].balance
      <4>1. CASE log = <<>>
        BY <4>1, <2>1 DEF LastBalance
      <4>2. CASE log # <<>>
        <5>1. Len(log) \in Nat \ {0}
          BY <4>2
        <5>2. longer[Len(log)] = log[Len(log)]
          BY <5>1, <1>2
        <5> QED
          BY <4>2, <5>1, <5>2, <2>1 DEF LastBalance
      <4> QED
        BY <4>1, <4>2
    <3>2. longer[i] = e
      BY <2>1, <1>2
    <3> QED
      BY <3>1, <3>2
  <2>2. CASE i \in 1..Len(log)
    <3>1. longer[i] = log[i] /\ (i # 1 => longer[i-1] = log[i-1])
      BY <2>2, <1>2
    <3>2. log[i].balance = log[i].amount + (IF i = 1 THEN 0 ELSE log[i-1].balance)
      BY <2>2 DEF Chained
    <3> QED
      BY <3>1, <3>2
  <2> QED
    BY <2>1, <2>2, <1>1
<1> QED
  BY <1>3, <1>4 DEF Chained

\* A first event chains when it accounts for the whole of its balance.
LEMMA FirstEventChains ==
  ASSUME NEW e, e.amount \in Int, e.balance = e.amount
  PROVE  Chained(<<e>>) /\ LastBalance(<<e>>) = e.balance
<1>1. Len(<<e>>) = 1 /\ <<e>>[1] = e /\ <<e>> # <<>>
  OBVIOUS
<1>2. LastBalance(<<e>>) = e.balance
  BY <1>1 DEF LastBalance
<1>3. \A i \in 1..Len(<<e>>) :
         <<e>>[i].balance = <<e>>[i].amount + (IF i = 1 THEN 0 ELSE <<e>>[i-1].balance)
  BY <1>1
<1> QED
  BY <1>2, <1>3 DEF Chained

\* An appended journal extends the one it was appended to.
LEMMA AppendExtends ==
  ASSUME NEW Event, NEW log \in Seq(Event), NEW e \in Event
  PROVE  IsExtension(log, Append(log, e))
  BY DEF IsExtension

-----------------------------------------------------------------------------
(* Induction, and sums over finite sets. *)

\* The element a fold takes first from a set.
Pick(s) == CHOOSE x \in s : TRUE

\* The recursion over subsets of S that the sum of f is defined by.
Recurs(g, f, S) ==
  g = [s \in SUBSET S |-> IF s = {} THEN 0 ELSE f[Pick(s)] + g[s \ {Pick(s)}]]

\* The function that recursion chooses.
Iter(f, S) == CHOOSE g : Recurs(g, f, S)

\* The sum of f over S is the value at S of the function chosen.
LEMMA SumIter == \A f, S : SumFunctionOnSet(f, S) = Iter(f, S)[S]
  BY DEF SumFunctionOnSet, FoldFunctionOnSet, MapThenFoldSet, Iter, Recurs, Pick

\* A nonempty set of naturals has a least element.
LEMMA LeastNatural ==
  ASSUME NEW T \in SUBSET Nat, T # {}
  PROVE  \E n \in T : \A m \in T : n <= m
<1> DEFINE Upto == {0..n : n \in T}
<1>1. Upto \subseteq FiniteSubsetsOf(Nat)
  <2>1. \A n \in T : 0..n \in SUBSET Nat /\ IsFiniteSet(0..n)
    BY FS_Interval
  <2> QED
    BY <2>1 DEF FiniteSubsetsOf
<1>2. Upto # {}
  OBVIOUS
<1>3. PICK U \in Upto : \A V \in Upto : ~ (<<V, U>> \in StrictSubsetOrdering(Nat))
  <2> HIDE DEF Upto
  <2> QED
    BY <1>1, <1>2, FS_StrictSubsetOrderingWellFounded, WFMin
<1>4. PICK n \in T : U = 0..n
  BY <1>3
<1>5. ASSUME NEW m \in T, m < n PROVE FALSE
  <2>1. m \in Nat /\ n \in Nat
    OBVIOUS
  <2>2. 0..m \in SUBSET Nat /\ 0..n \in SUBSET Nat /\ 0..m \subseteq 0..n
    BY <1>5, <2>1
  <2>3. n \in 0..n /\ n \notin 0..m
    BY <1>5, <2>1
  <2>4. <<0..m, 0..n>> \in StrictSubsetOrdering(Nat)
    BY <2>2, <2>3 DEF StrictSubsetOrdering
  <2>5. 0..m \in Upto
    OBVIOUS
  <2> QED
    BY <1>3, <1>4, <2>4, <2>5
<1>6. \A m \in T : n <= m
  BY <1>5
<1> QED
  BY <1>6

\* Induction over the naturals, for a set of them.
LEMMA NatInduct ==
  ASSUME NEW Q, 0 \in Q, \A n \in Nat : n \in Q => n + 1 \in Q
  PROVE  Nat \subseteq Q
<1> SUFFICES ASSUME Nat \ Q # {} PROVE FALSE
  OBVIOUS
<1>1. PICK n \in Nat \ Q : \A m \in Nat \ Q : n <= m
  BY LeastNatural
<1>2. n # 0 /\ n - 1 \in Nat
  BY <1>1
<1>3. n - 1 \in Q
  BY <1>1, <1>2
<1> QED
  BY <1>1, <1>2, <1>3

\* Induction over the subsets of a finite set, for a set of them.
LEMMA SubsetInduct ==
  ASSUME NEW S, IsFiniteSet(S), NEW Q, {} \in Q,
         \A T \in SUBSET S : \A x \in S \ T : T \in Q => T \cup {x} \in Q
  PROVE  SUBSET S \subseteq Q
<1> DEFINE Bad == (SUBSET S) \ Q
<1> SUFFICES ASSUME Bad # {} PROVE FALSE
  OBVIOUS
<1>1. IsWellFoundedOn(StrictSubsetOrdering(S), SUBSET S)
  BY FS_StrictSubsetOrderingWellFounded, FS_FiniteSubsetsOfFinite
<1>2. PICK T \in Bad : \A U \in Bad : ~ (<<U, T>> \in StrictSubsetOrdering(S))
  <2>1. Bad \subseteq SUBSET S
    OBVIOUS
  <2> HIDE DEF Bad
  <2> QED
    BY <1>1, <2>1, WFMin
<1>3. T # {}
  BY <1>2
<1>4. PICK x \in T : TRUE
  BY <1>3
<1>5. <<T \ {x}, T>> \in StrictSubsetOrdering(S)
  BY <1>2, <1>4 DEF StrictSubsetOrdering
<1>6. T \ {x} \in Q
  BY <1>2, <1>5
<1>7. T = (T \ {x}) \cup {x} /\ x \in S \ (T \ {x}) /\ T \ {x} \in SUBSET S
  BY <1>2, <1>4
<1>8. T \in Q
  BY <1>6, <1>7
<1> QED
  BY <1>2, <1>8

\* The recursion has a solution.
LEMMA RecursExists ==
  ASSUME NEW S, IsFiniteSet(S), NEW f, \A x \in S : f[x] \in Int
  PROVE  \E g \in [SUBSET S -> Int] : Recurs(g, f, S)
<1> DEFINE Small(n) == {s \in SUBSET S : Cardinality(s) <= n}
           Step(g, s) == IF s = {} THEN 0 ELSE f[Pick(s)] + g[s \ {Pick(s)}]
           Good == {n \in Nat : \E g \in [Small(n) -> Int] : \A s \in Small(n) : g[s] = Step(g, s)}
<1>1. \A s \in SUBSET S : IsFiniteSet(s) /\ Cardinality(s) \in Nat /\ (Cardinality(s) = 0 <=> s = {})
  BY FS_Subset, FS_CardinalityType, FS_EmptySet
<1>2. \A s \in SUBSET S : s # {} => Pick(s) \in s /\ s \ {Pick(s)} \in SUBSET S
                                   /\ Cardinality(s \ {Pick(s)}) = Cardinality(s) - 1
  <2> SUFFICES ASSUME NEW s \in SUBSET S, s # {}
               PROVE  Pick(s) \in s /\ s \ {Pick(s)} \in SUBSET S
                        /\ Cardinality(s \ {Pick(s)}) = Cardinality(s) - 1
    OBVIOUS
  <2>1. Pick(s) \in s
    BY DEF Pick
  <2> QED
    BY <1>1, <2>1, FS_RemoveElement
<1>3. 0 \in Good
  <2> DEFINE g == [s \in Small(0) |-> 0]
  <2>1. \A s \in Small(0) : s = {}
    BY <1>1
  <2>2. g \in [Small(0) -> Int]
    OBVIOUS
  <2>3. \A s \in Small(0) : g[s] = Step(g, s)
    BY <2>1
  <2> QED
    BY <2>2, <2>3
<1>4. ASSUME NEW n \in Nat, n \in Good PROVE n + 1 \in Good
  <2>1. PICK g \in [Small(n) -> Int] : \A s \in Small(n) : g[s] = Step(g, s)
    BY <1>4
  <2> DEFINE h == [s \in Small(n + 1) |-> Step(g, s)]
  <2>2. ASSUME NEW s \in Small(n + 1), s # {}
        PROVE  /\ Pick(s) \in S /\ s \ {Pick(s)} \in Small(n)
               /\ s \ {Pick(s)} \in Small(n + 1)
    BY <1>1, <1>2, <2>2
  <2>3. \A s \in Small(n + 1) : Step(g, s) \in Int
    BY <2>1, <2>2
  <2>4. h \in [Small(n + 1) -> Int]
    BY <2>3
  <2>5. \A s \in Small(n) : h[s] = g[s]
    <3>1. \A s \in Small(n) : s \in Small(n + 1)
      BY <1>1
    <3> QED
      BY <2>1, <3>1
  <2>6. ASSUME NEW s \in Small(n + 1) PROVE h[s] = Step(h, s)
    <3>1. h[s] = Step(g, s)
      OBVIOUS
    <3>2. s # {} => h[s \ {Pick(s)}] = g[s \ {Pick(s)}]
      BY <2>2, <2>5
    <3> HIDE DEF h
    <3> QED
      BY <3>1, <3>2
  <2>7. \E k \in [Small(n + 1) -> Int] : \A s \in Small(n + 1) : k[s] = Step(k, s)
    <3> HIDE DEF h, Small, Step
    <3> QED
      BY <2>4, <2>6
  <2>8. n + 1 \in Nat
    OBVIOUS
  <2> HIDE DEF Small, Step
  <2> QED
    BY <2>7, <2>8
<1>5. Cardinality(S) \in Good
  <2> HIDE DEF Good
  <2> QED
    BY <1>1, <1>3, <1>4, NatInduct
<1>6. PICK g \in [Small(Cardinality(S)) -> Int] :
        \A s \in Small(Cardinality(S)) : g[s] = Step(g, s)
  BY <1>5
<1>7. Small(Cardinality(S)) = SUBSET S
  BY FS_Subset
<1>8. g = [s \in SUBSET S |-> Step(g, s)]
  BY <1>6, <1>7
<1> QED
  BY <1>6, <1>7, <1>8 DEF Recurs

\* What SumFunctionOnSet computes.
LEMMA IterRecurs ==
  ASSUME NEW S, IsFiniteSet(S), NEW f, \A x \in S : f[x] \in Int
  PROVE  Recurs(Iter(f, S), f, S)
<1>1. \E g : Recurs(g, f, S)
  BY RecursExists
<1> HIDE DEF Recurs
<1> QED
  BY <1>1 DEF Iter

\* Two solutions agree where both are defined.
LEMMA RecursAgree ==
  ASSUME NEW S, IsFiniteSet(S), NEW f, NEW g, NEW T \in SUBSET S, NEW d, NEW e,
         \A x \in T : f[x] = g[x],
         Recurs(d, f, S), Recurs(e, g, T)
  PROVE  d[T] = e[T]
<1> DEFINE Bad == {s \in SUBSET T : d[s] # e[s]}
<1> SUFFICES ASSUME Bad # {} PROVE FALSE
  OBVIOUS
<1>1. IsWellFoundedOn(StrictSubsetOrdering(T), SUBSET T)
  BY FS_StrictSubsetOrderingWellFounded, FS_FiniteSubsetsOfFinite, FS_Subset
<1>2. PICK s \in Bad : \A u \in Bad : ~ (<<u, s>> \in StrictSubsetOrdering(T))
  <2>1. Bad \subseteq SUBSET T
    OBVIOUS
  <2> HIDE DEF Bad
  <2> QED
    BY <1>1, <2>1, WFMin
<1>3. s \in SUBSET T /\ s \in SUBSET S /\ d[s] # e[s]
  BY <1>2
<1>4. /\ d[s] = IF s = {} THEN 0 ELSE f[Pick(s)] + d[s \ {Pick(s)}]
      /\ e[s] = IF s = {} THEN 0 ELSE g[Pick(s)] + e[s \ {Pick(s)}]
  BY <1>3 DEF Recurs
<1>5. s # {}
  BY <1>3, <1>4
<1>6. Pick(s) \in s
  BY <1>5 DEF Pick
<1>7. <<s \ {Pick(s)}, s>> \in StrictSubsetOrdering(T)
  BY <1>3, <1>6 DEF StrictSubsetOrdering
<1>8. d[s \ {Pick(s)}] = e[s \ {Pick(s)}]
  <2>1. s \ {Pick(s)} \in SUBSET T
    BY <1>3
  <2> QED
    BY <1>2, <1>7, <2>1
<1>9. f[Pick(s)] = g[Pick(s)]
  BY <1>3, <1>6
<1> QED
  BY <1>3, <1>4, <1>5, <1>8, <1>9

\* The sum over a set is that of a chosen element and of the rest.
LEMMA SumStep ==
  ASSUME NEW S, IsFiniteSet(S), NEW f, \A x \in S : f[x] \in Int
  PROVE  SumFunctionOnSet(f, S) =
            IF S = {} THEN 0 ELSE f[Pick(S)] + SumFunctionOnSet(f, S \ {Pick(S)})
<1>1. Recurs(Iter(f, S), f, S)
  BY IterRecurs
<1>2. CASE S = {}
  <2>1. Iter(f, S)[S] = 0
    BY <1>1, <1>2 DEF Recurs
  <2> QED
    BY <1>2, <2>1, SumIter
<1>3. CASE S # {}
  <2> DEFINE R == S \ {Pick(S)}
  <2>1. Iter(f, S)[S] = f[Pick(S)] + Iter(f, S)[R]
    BY <1>1, <1>3 DEF Recurs
  <2>2. R \in SUBSET S /\ IsFiniteSet(R) /\ \A x \in R : f[x] \in Int
    BY FS_Subset
  <2>3. Recurs(Iter(f, R), f, R)
    BY <2>2, IterRecurs
  <2>4. Iter(f, S)[R] = Iter(f, R)[R]
    <3>1. \A x \in R : f[x] = f[x]
      OBVIOUS
    <3> HIDE DEF R
    <3> QED
      BY <1>1, <2>2, <2>3, <3>1, RecursAgree
  <2> QED
    BY <1>3, <2>1, <2>4, SumIter
<1> QED
  BY <1>2, <1>3

\* A sum of numbers is a number.
LEMMA SumInt ==
  ASSUME NEW S, IsFiniteSet(S), NEW f, \A x \in S : f[x] \in Int
  PROVE  SumFunctionOnSet(f, S) \in Int
<1>1. PICK g \in [SUBSET S -> Int] : Recurs(g, f, S)
  BY RecursExists
<1>2. Recurs(Iter(f, S), f, S)
  BY IterRecurs
<1>3. Iter(f, S)[S] = g[S]
  BY <1>1, <1>2, RecursAgree
<1> QED
  BY <1>1, <1>3, SumIter

\* The order of the summands does not matter.
LEMMA SumAdd ==
  ASSUME NEW S, IsFiniteSet(S), NEW f, \A y \in S : f[y] \in Int, NEW x \in S
  PROVE  SumFunctionOnSet(f, S) = f[x] + SumFunctionOnSet(f, S \ {x})
<1> DEFINE Ok == {T \in SUBSET S :
                     \A y \in T : SumFunctionOnSet(f, T) = f[y] + SumFunctionOnSet(f, T \ {y})}
           Bad == (SUBSET S) \ Ok
<1> SUFFICES ASSUME Bad # {} PROVE FALSE
  OBVIOUS
<1>1. IsWellFoundedOn(StrictSubsetOrdering(S), SUBSET S)
  BY FS_StrictSubsetOrderingWellFounded, FS_FiniteSubsetsOfFinite
<1>2. PICK T \in Bad : \A U \in Bad : ~ (<<U, T>> \in StrictSubsetOrdering(S))
  <2>1. Bad \subseteq SUBSET S
    OBVIOUS
  <2> HIDE DEF Bad
  <2> QED
    BY <1>1, <2>1, WFMin
<1>3. T \in SUBSET S /\ \E y \in T : SumFunctionOnSet(f, T) # f[y] + SumFunctionOnSet(f, T \ {y})
  BY <1>2
<1>4. PICK y \in T : SumFunctionOnSet(f, T) # f[y] + SumFunctionOnSet(f, T \ {y})
  BY <1>3
<1>5. \A U \in SUBSET S : /\ IsFiniteSet(U) /\ (\A z \in U : f[z] \in Int)
                          /\ SumFunctionOnSet(f, U) \in Int
                          /\ U # {} => SumFunctionOnSet(f, U) = f[Pick(U)] + SumFunctionOnSet(f, U \ {Pick(U)})
  <2> SUFFICES ASSUME NEW U \in SUBSET S
               PROVE  /\ IsFiniteSet(U) /\ (\A z \in U : f[z] \in Int)
                      /\ SumFunctionOnSet(f, U) \in Int
                      /\ U # {} => SumFunctionOnSet(f, U) = f[Pick(U)] + SumFunctionOnSet(f, U \ {Pick(U)})
    OBVIOUS
  <2>1. IsFiniteSet(U) /\ (\A z \in U : f[z] \in Int)
    BY FS_Subset
  <2> QED
    BY <2>1, SumInt, SumStep
<1> DEFINE p == Pick(T)
<1>6. p \in T /\ SumFunctionOnSet(f, T) = f[p] + SumFunctionOnSet(f, T \ {p})
  <2>1. p \in T
    BY <1>4 DEF Pick
  <2> QED
    BY <1>3, <1>5, <2>1
<1> HIDE DEF p
<1>7. y # p
  BY <1>4, <1>6
<1>8. T \ {p} \in Ok /\ T \ {y} \in Ok
  <2>1. <<T \ {p}, T>> \in StrictSubsetOrdering(S) /\ <<T \ {y}, T>> \in StrictSubsetOrdering(S)
    BY <1>3, <1>4, <1>6 DEF StrictSubsetOrdering
  <2> HIDE DEF Ok
  <2>2. T \ {p} \in SUBSET S /\ T \ {y} \in SUBSET S
    BY <1>3
  <2> QED
    BY <1>2, <2>1, <2>2
<1>9. /\ SumFunctionOnSet(f, T \ {p}) = f[y] + SumFunctionOnSet(f, (T \ {p}) \ {y})
      /\ SumFunctionOnSet(f, T \ {y}) = f[p] + SumFunctionOnSet(f, (T \ {y}) \ {p})
  BY <1>4, <1>6, <1>7, <1>8
<1>10. (T \ {p}) \ {y} = (T \ {y}) \ {p} /\ (T \ {p}) \ {y} \in SUBSET S
  BY <1>3
<1>11. SumFunctionOnSet(f, (T \ {p}) \ {y}) \in Int /\ f[p] \in Int /\ f[y] \in Int
  BY <1>3, <1>4, <1>5, <1>6, <1>10
<1>12. SumFunctionOnSet(f, T \ {y}) = f[p] + SumFunctionOnSet(f, (T \ {p}) \ {y})
  BY <1>9, <1>10
<1>13. SumFunctionOnSet(f, T) = f[p] + (f[y] + SumFunctionOnSet(f, (T \ {p}) \ {y}))
  BY <1>6, <1>9
<1> HIDE DEF Ok, Bad
<1>14. SumFunctionOnSet(f, T) # f[y] + (f[p] + SumFunctionOnSet(f, (T \ {p}) \ {y}))
  BY <1>4, <1>12
<1> QED
  BY <1>11, <1>13, <1>14

\* Functions that agree have the same sum.
LEMMA SumSame ==
  ASSUME NEW S, IsFiniteSet(S), NEW f, NEW g,
         \A x \in S : f[x] \in Int /\ f[x] = g[x]
  PROVE  SumFunctionOnSet(f, S) = SumFunctionOnSet(g, S)
<1>1. Recurs(Iter(f, S), f, S) /\ Recurs(Iter(g, S), g, S)
  BY IterRecurs
<1>2. S \in SUBSET S
  OBVIOUS
<1>3. Iter(f, S)[S] = Iter(g, S)[S]
  <2> DEFINE d == Iter(f, S)
             e == Iter(g, S)
  <2>1. Recurs(d, f, S) /\ Recurs(e, g, S)
    BY <1>1
  <2> HIDE DEF d, e
  <2>2. d[S] = e[S]
    BY <1>2, <2>1, RecursAgree
  <2> QED
    BY <2>2 DEF d, e
<1> QED
  BY <1>3, SumIter

\* The empty sum.
LEMMA SumEmpty == \A f : SumFunctionOnSet(f, {}) = 0
<1> SUFFICES ASSUME NEW f PROVE SumFunctionOnSet(f, {}) = 0
  OBVIOUS
<1>1. IsFiniteSet({}) /\ \A x \in {} : f[x] \in Int
  BY FS_EmptySet
<1> QED
  BY <1>1, SumStep

\* A new element adds its summand.
LEMMA SumInsert ==
  ASSUME NEW S, IsFiniteSet(S), NEW x, x \notin S,
         NEW f, \A y \in S \cup {x} : f[y] \in Int
  PROVE  SumFunctionOnSet(f, S \cup {x}) = f[x] + SumFunctionOnSet(f, S)
<1> DEFINE T == S \cup {x}
<1>1. IsFiniteSet(T) /\ x \in T /\ T \ {x} = S
  BY FS_AddElement
<1>2. \A y \in T : f[y] \in Int
  OBVIOUS
<1> HIDE DEF T
<1>3. SumFunctionOnSet(f, T) = f[x] + SumFunctionOnSet(f, T \ {x})
  BY <1>1, <1>2, SumAdd
<1> QED
  BY <1>1, <1>3 DEF T

\* A changed summand changes the sum by as much.
LEMMA SumUpdate ==
  ASSUME NEW S, IsFiniteSet(S), NEW x \in S,
         NEW f, \A y \in S : f[y] \in Int,
         NEW g, g[x] \in Int, \A y \in S \ {x} : g[y] = f[y]
  PROVE  SumFunctionOnSet(g, S) = SumFunctionOnSet(f, S) + (g[x] - f[x])
<1> DEFINE R == S \ {x}
<1>1. IsFiniteSet(R)
  BY FS_RemoveElement
<1>2. \A y \in S : g[y] \in Int
  OBVIOUS
<1>3. SumFunctionOnSet(g, S) = g[x] + SumFunctionOnSet(g, R)
  BY <1>2, SumAdd
<1>4. SumFunctionOnSet(f, S) = f[x] + SumFunctionOnSet(f, R)
  BY SumAdd
<1>5. \A y \in R : f[y] \in Int /\ f[y] = g[y]
  OBVIOUS
<1> HIDE DEF R
<1>6. SumFunctionOnSet(f, R) = SumFunctionOnSet(g, R)
  BY <1>1, <1>5, SumSame
<1>7. SumFunctionOnSet(f, R) \in Int
  BY <1>1, <1>5, SumInt
<1> QED
  BY <1>3, <1>4, <1>6, <1>7

\* Summands that are bounded one by one are bounded in sum: h by f, and by f and g
\* on the part T of S.
LEMMA SumCompare ==
  ASSUME NEW S, IsFiniteSet(S), NEW T \in SUBSET S,
         NEW f, NEW g, NEW h,
         \A x \in S : f[x] \in Int /\ h[x] \in Int,
         \A x \in T : g[x] \in Int /\ h[x] <= f[x] + g[x],
         \A x \in S \ T : h[x] <= f[x]
  PROVE  SumFunctionOnSet(h, S) <= SumFunctionOnSet(f, S) + SumFunctionOnSet(g, T)
<1> DEFINE Good == {U \in SUBSET S : SumFunctionOnSet(h, U)
                       <= SumFunctionOnSet(f, U) + SumFunctionOnSet(g, T \cap U)}
<1>1. {} \in Good
  <2>1. T \cap {} = {}
    OBVIOUS
  <2> QED
    BY <2>1, SumEmpty
<1>2. ASSUME NEW U \in SUBSET S, NEW x \in S \ U, U \in Good
      PROVE  U \cup {x} \in Good
  <2> DEFINE V == U \cup {x}
             P == T \cap U
  <2>1. IsFiniteSet(U) /\ IsFiniteSet(P)
    BY FS_Subset
  <2>2. SumFunctionOnSet(h, V) = h[x] + SumFunctionOnSet(h, U)
    BY <2>1, SumInsert
  <2>3. SumFunctionOnSet(f, V) = f[x] + SumFunctionOnSet(f, U)
    BY <2>1, SumInsert
  <2>4. /\ SumFunctionOnSet(h, U) \in Int /\ SumFunctionOnSet(f, U) \in Int
        /\ SumFunctionOnSet(g, P) \in Int
    BY <2>1, SumInt
  <2>5. SumFunctionOnSet(h, U) <= SumFunctionOnSet(f, U) + SumFunctionOnSet(g, P)
    BY <1>2
  <2>6. SumFunctionOnSet(h, V) <= SumFunctionOnSet(f, V) + SumFunctionOnSet(g, T \cap V)
    <3>1. CASE x \in T
      <4>1. T \cap V = P \cup {x} /\ x \notin P
        BY <3>1
      <4>2. SumFunctionOnSet(g, T \cap V) = g[x] + SumFunctionOnSet(g, P)
        BY <2>1, <3>1, <4>1, SumInsert
      <4>3. f[x] \in Int /\ h[x] \in Int /\ g[x] \in Int /\ h[x] <= f[x] + g[x]
        BY <3>1
      <4> HIDE DEF P, V
      <4> QED
        BY <2>2, <2>3, <2>4, <2>5, <4>2, <4>3
    <3>2. CASE x \notin T
      <4>1. T \cap V = P
        BY <3>2
      <4>2. f[x] \in Int /\ h[x] \in Int /\ h[x] <= f[x]
        BY <3>2
      <4>3. SumFunctionOnSet(g, T \cap V) = SumFunctionOnSet(g, P)
        BY <4>1
      <4> HIDE DEF P, V
      <4> QED
        BY <2>2, <2>3, <2>4, <2>5, <4>2, <4>3
    <3> QED
      BY <3>1, <3>2
  <2>7. V \in SUBSET S
    OBVIOUS
  <2> QED
    BY <2>6, <2>7
<1>3. S \in Good
  <2> HIDE DEF Good
  <2>1. SUBSET S \subseteq Good
    BY <1>1, <1>2, SubsetInduct
  <2> QED
    BY <2>1
<1>4. T \cap S = T
  OBVIOUS
<1> QED
  BY <1>3, <1>4

\* A sum of natural numbers is one.
LEMMA SumNat ==
  ASSUME NEW S, IsFiniteSet(S), NEW f, \A x \in S : f[x] \in Nat
  PROVE  SumFunctionOnSet(f, S) \in Nat
<1> DEFINE Good == {U \in SUBSET S : SumFunctionOnSet(f, U) >= 0}
<1>1. {} \in Good
  BY SumEmpty
<1>2. ASSUME NEW U \in SUBSET S, NEW x \in S \ U, U \in Good
      PROVE  U \cup {x} \in Good
  <2>1. IsFiniteSet(U)
    BY FS_Subset
  <2>2. SumFunctionOnSet(f, U \cup {x}) = f[x] + SumFunctionOnSet(f, U)
    <3>1. \A y \in U \cup {x} : f[y] \in Int
      OBVIOUS
    <3> QED
      BY <2>1, <3>1, SumInsert
  <2>3. SumFunctionOnSet(f, U) \in Int
    BY <2>1, SumInt
  <2> QED
    BY <1>2, <2>2, <2>3
<1>3. S \in Good
  <2> HIDE DEF Good
  <2>1. SUBSET S \subseteq Good
    BY <1>1, <1>2, SubsetInduct
  <2> QED
    BY <2>1
<1>4. SumFunctionOnSet(f, S) \in Int
  BY SumInt
<1> QED
  BY <1>3, <1>4

\* A sum of zeros is zero.
LEMMA SumZero ==
  ASSUME NEW S, IsFiniteSet(S), NEW f, \A x \in S : f[x] = 0
  PROVE  SumFunctionOnSet(f, S) = 0
<1> DEFINE Good == {U \in SUBSET S : SumFunctionOnSet(f, U) = 0}
<1>1. {} \in Good
  BY SumEmpty
<1>2. ASSUME NEW U \in SUBSET S, NEW x \in S \ U, U \in Good
      PROVE  U \cup {x} \in Good
  <2>1. IsFiniteSet(U)
    BY FS_Subset
  <2>2. SumFunctionOnSet(f, U \cup {x}) = f[x] + SumFunctionOnSet(f, U)
    <3>1. \A y \in U \cup {x} : f[y] \in Int
      OBVIOUS
    <3> QED
      BY <2>1, <3>1, SumInsert
  <2> QED
    BY <1>2, <2>2
<1>3. S \in Good
  <2> HIDE DEF Good
  <2>1. SUBSET S \subseteq Good
    BY <1>1, <1>2, SubsetInduct
  <2> QED
    BY <2>1
<1> QED
  BY <1>3

-----------------------------------------------------------------------------
(* The sum of a journal. *)

\* The sum over two disjoint sets is the sum of their sums.
LEMMA SumUnion ==
  ASSUME NEW S, IsFiniteSet(S), NEW T, IsFiniteSet(T), S \cap T = {},
         NEW f, \A x \in S \cup T : f[x] \in Int
  PROVE  SumFunctionOnSet(f, S \cup T) = SumFunctionOnSet(f, S) + SumFunctionOnSet(f, T)
<1> DEFINE Good == {U \in SUBSET T :
                      SumFunctionOnSet(f, S \cup U)
                        = SumFunctionOnSet(f, S) + SumFunctionOnSet(f, U)}
<1>1. SumFunctionOnSet(f, S) \in Int
  BY SumInt
<1>2. {} \in Good
  <2>1. S \cup {} = S
    OBVIOUS
  <2> QED
    BY <1>1, <2>1, SumEmpty
<1>3. ASSUME NEW U \in SUBSET T, NEW x \in T \ U, U \in Good
      PROVE  U \cup {x} \in Good
  <2>1. IsFiniteSet(U) /\ IsFiniteSet(S \cup U)
    BY FS_Subset, FS_Union
  <2>2. x \notin S \cup U /\ (S \cup U) \cup {x} = S \cup (U \cup {x})
    OBVIOUS
  <2>3. SumFunctionOnSet(f, (S \cup U) \cup {x}) = f[x] + SumFunctionOnSet(f, S \cup U)
    BY <2>1, <2>2, SumInsert
  <2>4. SumFunctionOnSet(f, U \cup {x}) = f[x] + SumFunctionOnSet(f, U)
    BY <2>1, SumInsert
  <2>5. SumFunctionOnSet(f, U) \in Int /\ f[x] \in Int
    BY <2>1, SumInt
  <2>6. SumFunctionOnSet(f, S \cup U) = SumFunctionOnSet(f, S) + SumFunctionOnSet(f, U)
    BY <1>3
  <2>7. SumFunctionOnSet(f, S \cup (U \cup {x}))
          = SumFunctionOnSet(f, S) + SumFunctionOnSet(f, U \cup {x})
    <3>1. SumFunctionOnSet(f, S \cup (U \cup {x}))
            = f[x] + (SumFunctionOnSet(f, S) + SumFunctionOnSet(f, U))
      BY <2>2, <2>3, <2>6
    <3> QED
      BY <1>1, <2>4, <2>5, <3>1
  <2>8. U \cup {x} \in SUBSET T
    OBVIOUS
  <2> QED
    BY <2>7, <2>8
<1>4. T \in Good
  <2> HIDE DEF Good
  <2>1. SUBSET T \subseteq Good
    BY <1>2, <1>3, SubsetInduct
  <2> QED
    BY <2>1
<1> QED
  BY <1>4

\* The last balance of a chained journal is the sum of its amounts: what
\* check_bankroll_invariant computes with SUM(cash_event.amount_cents).
LEMMA ChainedSums ==
  ASSUME NEW Event, \A e \in Event : e.amount \in Int,
         NEW log \in Seq(Event), Chained(log)
  PROVE  LastBalance(log)
            = SumFunctionOnSet([i \in 1..Len(log) |-> log[i].amount], 1..Len(log))
<1> DEFINE amount == [i \in 1..Len(log) |-> log[i].amount]
           Balance(n) == IF n = 0 THEN 0 ELSE log[n].balance
           Good == {n \in Nat : n <= Len(log) => Balance(n) = SumFunctionOnSet(amount, 1..n)}
<1>1. 0 \in Good
  <2>1. 1..0 = {}
    OBVIOUS
  <2> QED
    BY <2>1, SumEmpty
<1>2. ASSUME NEW n \in Nat, n \in Good PROVE n + 1 \in Good
  <2> SUFFICES ASSUME n + 1 <= Len(log)
               PROVE  Balance(n + 1) = SumFunctionOnSet(amount, 1..(n + 1))
    OBVIOUS
  <2>1. n <= Len(log) /\ n + 1 \in 1..Len(log) /\ Len(log) \in Nat
    OBVIOUS
  <2>2. /\ 1..(n + 1) = (1..n) \cup {n + 1} /\ n + 1 \notin 1..n
        /\ IsFiniteSet(1..n)
    <3>1. 1..(n + 1) = (1..n) \cup {n + 1} /\ n + 1 \notin 1..n
      OBVIOUS
    <3>2. IsFiniteSet(1..n)
      BY FS_Interval
    <3> QED
      BY <3>1, <3>2
  <2>3. \A i \in (1..n) \cup {n + 1} : amount[i] \in Int
    BY <2>1
  <2>4. SumFunctionOnSet(amount, 1..(n + 1)) = amount[n + 1] + SumFunctionOnSet(amount, 1..n)
    <3> HIDE DEF amount
    <3> QED
      BY <2>2, <2>3, SumInsert
  <2>5. log[n + 1].balance = log[n + 1].amount + Balance(n)
    BY <2>1 DEF Chained
  <2>6. amount[n + 1] = log[n + 1].amount
    BY <2>1
  <2>7. Balance(n) = SumFunctionOnSet(amount, 1..n)
    BY <1>2, <2>1
  <2>8. Balance(n + 1) = log[n + 1].balance
    OBVIOUS
  <2> HIDE DEF amount, Balance
  <2> QED
    BY <2>4, <2>5, <2>6, <2>7, <2>8
<1>3. Len(log) \in Good
  <2> HIDE DEF Good
  <2> QED
    BY <1>1, <1>2, NatInduct
<1>4. Balance(Len(log)) = LastBalance(log)
  BY DEF LastBalance
<1>5. Balance(Len(log)) = SumFunctionOnSet(amount, 1..Len(log))
  BY <1>3
<1> QED
  BY <1>4, <1>5
=============================================================================
