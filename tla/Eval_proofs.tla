----------------------------- MODULE Eval_proofs -----------------------------
(***************************************************************************)
(* The safety of the evaluation for any trades, probabilities, profits,    *)
(* windows and numbers of cash events.                                     *)
(*                                                                         *)
(* Three of Eval's operators are folds: max_drawdown_cents, the balances   *)
(* of a window and the events a settlement posts.  A fold recurs over sets *)
(* of positions; FoldRuns turns it, once, into the sequence of what has    *)
(* been computed after each element, about which a claim is proved by      *)
(* induction on a number.                                                  *)
(*                                                                         *)
(* MissedOnlyByOverlap is not inductive: it compares the time a nightly    *)
(* started with the times of ticks, and needs, of each transaction in      *)
(* progress, how its time relates to the rows shown, which trades it can   *)
(* have missed, and when those were committed.                             *)
(***************************************************************************)
EXTENDS Eval, Sum_proofs

-----------------------------------------------------------------------------
(* Folds over sequences. *)

\* A nonempty set of positions has a last one.
LEMMA MaxIsLast ==
  ASSUME NEW n \in Nat, NEW S \in SUBSET (1..n), S # {}
  PROVE  Max(S) \in S /\ \A i \in S : i <= Max(S)
<1> DEFINE T == {n - i : i \in S}
<1>1. T \in SUBSET Nat /\ T # {}
  <2>1. \A i \in S : i \in 1..n /\ n - i \in Nat
    OBVIOUS
  <2> QED
    BY <2>1
<1>2. PICK d \in T : \A e \in T : d <= e
  <2> HIDE DEF T
  <2> QED
    BY <1>1, LeastNatural
<1>3. PICK i \in S : d = n - i
  BY <1>2
<1>4. \A j \in S : i >= j
  <2> SUFFICES ASSUME NEW j \in S PROVE i >= j
    OBVIOUS
  <2>1. n - j \in T
    OBVIOUS
  <2>2. n - i <= n - j
    BY <2>1, <1>2, <1>3
  <2> QED
    BY <2>2
<1>5. Max(S) \in S /\ \A j \in S : Max(S) >= j
  BY <1>3, <1>4 DEF Max
<1> QED
  BY <1>5

\* What a fold over n elements asks of a prefix of 1..n: it is its last position
\* and a shorter prefix.
LEMMA Prefix ==
  ASSUME NEW n \in Nat, NEW k \in 1..n
  PROVE  /\ 1..k \in SUBSET (1..n) /\ 1..k # {}
         /\ Max(1..k) = k /\ (1..k) \ {k} = 1..(k-1)
<1>1. 1..k \in SUBSET (1..n) /\ 1..k # {}
  OBVIOUS
<1>2. Max(1..k) = k
  <2>1. 1..k \in SUBSET (1..k) /\ 1..k # {} /\ k \in 1..k /\ k \in Nat
    OBVIOUS
  <2>2. Max(1..k) \in 1..k /\ k <= Max(1..k)
    BY <2>1, MaxIsLast
  <2> QED
    BY <2>2
<1>3. (1..k) \ {k} = 1..(k-1)
  OBVIOUS
<1> QED
  BY <1>1, <1>2, <1>3

\* g is the fold of step over the positions 1..n, last position outermost.
Folded(g, base, step, n) ==
    \A S \in SUBSET (1..n) :
       g[S] = IF S = {} THEN base ELSE step[<<g[S \ {Max(S)}], Max(S)>>]

\* Every function of a value and a position can be folded.
LEMMA FoldExists ==
  ASSUME NEW X, NEW base \in X, NEW n \in Nat, NEW step \in [X \X (1..n) -> X]
  PROVE  \E g \in [SUBSET (1..n) -> X] : Folded(g, base, step, n)
<1> DEFINE Step(g, S) == IF S = {} THEN base ELSE step[<<g[S \ {Max(S)}], Max(S)>>]
           Defined(k) == \E g \in [SUBSET (1..k) -> X] : \A S \in SUBSET (1..k) : g[S] = Step(g, S)
           Good == {k \in Nat : k <= n => Defined(k)}
<1>1. Defined(0)
  <2> DEFINE g == [S \in SUBSET (1..0) |-> base]
  <2>1. \A S \in SUBSET (1..0) : S = {}
    OBVIOUS
  <2>2. g \in [SUBSET (1..0) -> X] /\ \A S \in SUBSET (1..0) : g[S] = Step(g, S)
    BY <2>1
  <2> QED
    BY <2>2
<1>2. ASSUME NEW k \in Nat, k + 1 <= n, Defined(k) PROVE Defined(k + 1)
  <2>1. PICK g \in [SUBSET (1..k) -> X] : \A S \in SUBSET (1..k) : g[S] = Step(g, S)
    BY <1>2
  <2> DEFINE Wide == SUBSET (1..(k + 1))
             h == [S \in Wide |-> Step(g, S)]
  <2>2. ASSUME NEW S \in Wide, S # {}
        PROVE  /\ Max(S) \in 1..n
               /\ S \ {Max(S)} \in SUBSET (1..k)
    <3>1. Max(S) \in S /\ \A i \in S : i <= Max(S)
      <4>1. k + 1 \in Nat /\ S \in SUBSET (1..(k + 1))
        OBVIOUS
      <4> QED
        BY <4>1, <2>2, MaxIsLast
    <3>2. ASSUME NEW i \in S \ {Max(S)} PROVE i \in 1..k
      <4>1. i \in 1..(k + 1) /\ Max(S) \in 1..(k + 1) /\ i <= Max(S) /\ i # Max(S)
        BY <3>1
      <4> QED
        BY <4>1
    <3>3. Max(S) \in 1..n
      <4>1. Max(S) \in 1..(k + 1)
        BY <3>1
      <4> QED
        BY <4>1, <1>2
    <3> QED
      BY <3>2, <3>3
  <2>3. ASSUME NEW S \in Wide PROVE Step(g, S) \in X
    <3>1. CASE S = {}
      BY <3>1
    <3>2. CASE S # {}
      <4>1. g[S \ {Max(S)}] \in X /\ Max(S) \in 1..n
        BY <3>2, <2>2
      <4>2. <<g[S \ {Max(S)}], Max(S)>> \in X \X (1..n)
        BY <4>1
      <4> QED
        BY <3>2, <4>2
    <3> QED
      BY <3>1, <3>2
  <2>4. h \in [Wide -> X]
    BY <2>3
  <2>5. \A S \in SUBSET (1..k) : S \in Wide /\ h[S] = g[S]
    <3>1. ASSUME NEW S \in SUBSET (1..k) PROVE S \in Wide
      <4>1. \A i \in S : i \in 1..(k + 1)
        OBVIOUS
      <4> QED
        BY <4>1
    <3> QED
      BY <2>1, <3>1
  <2>6. ASSUME NEW S \in Wide PROVE h[S] = Step(h, S)
    <3>1. h[S] = Step(g, S)
      OBVIOUS
    <3>2. S # {} => h[S \ {Max(S)}] = g[S \ {Max(S)}]
      BY <2>2, <2>5
    <3> HIDE DEF h
    <3> QED
      BY <3>1, <3>2
  <2> HIDE DEF h, Step
  <2> QED
    BY <2>4, <2>6
<1>3. n \in Good
  <2> HIDE DEF Defined
  <2>1. 0 \in Good
    BY <1>1
  <2>2. \A k \in Nat : k \in Good => k + 1 \in Good
    BY <1>2
  <2> HIDE DEF Good
  <2> QED
    BY <2>1, <2>2, NatInduct
<1>4. Defined(n)
  <2> HIDE DEF Defined
  <2> QED
    BY <1>3
<1> QED
  BY <1>4 DEF Folded

\* r computes h[1..n] position by position.
Runs(r, h, base, step, n) ==
    /\ r[0] = base
    /\ \A k \in 1..n : r[k] = step[<<r[k-1], k>>]
    /\ h[1..n] = r[n]

\* h, on the sets of positions, follows step wherever its values are in X.
Follows(h, X, base, step, n) ==
    /\ h[{}] = base
    /\ \A S \in SUBSET (1..n) :
          S # {} /\ h[S \ {Max(S)}] \in X => h[S] = step[<<h[S \ {Max(S)}], Max(S)>>]

\* Such a function computes what a run does.
LEMMA FoldRuns ==
  ASSUME NEW X, NEW base \in X, NEW n \in Nat, NEW step \in [X \X (1..n) -> X],
         NEW h, Follows(h, X, base, step, n)
  PROVE  \E r \in [0..n -> X] : Runs(r, h, base, step, n)
<1> DEFINE r == [k \in 0..n |-> h[1..k]]
<1>1. r[0] = base
  <2>1. 1..0 = {} /\ 0 \in 0..n
    OBVIOUS
  <2> QED
    BY <2>1 DEF Follows
<1>2. ASSUME NEW k \in 1..n, r[k-1] \in X PROVE r[k] = step[<<r[k-1], k>>]
  <2>1. /\ 1..k \in SUBSET (1..n) /\ 1..k # {}
        /\ Max(1..k) = k /\ (1..k) \ {k} = 1..(k-1)
    BY Prefix
  <2>2. r[k] = h[1..k] /\ r[k-1] = h[1..(k-1)]
    <3>1. k \in 0..n /\ k - 1 \in 0..n
      OBVIOUS
    <3> QED
      BY <3>1
  <2> HIDE DEF r
  <2>3. h[(1..k) \ {Max(1..k)}] = r[k-1]
    BY <2>1, <2>2
  <2> QED
    BY <1>2, <2>1, <2>2, <2>3 DEF Follows
<1>3. ASSUME NEW k \in 0..n PROVE r[k] \in X
  <2> DEFINE Q == {i \in Nat : i <= n => r[i] \in X}
  <2> HIDE DEF r
  <2>1. 0 \in Q
    BY <1>1
  <2>2. ASSUME NEW i \in Nat, i \in Q PROVE i + 1 \in Q
    <3> SUFFICES ASSUME i + 1 <= n PROVE r[i+1] \in X
      OBVIOUS
    <3>1. r[i] \in X /\ i + 1 \in 1..n /\ (i + 1) - 1 = i
      BY <2>2
    <3>2. r[i+1] = step[<<r[i], i + 1>>]
      BY <1>2, <3>1
    <3>3. <<r[i], i + 1>> \in X \X (1..n)
      BY <3>1
    <3> QED
      BY <3>2, <3>3
  <2>3. k \in Nat
    OBVIOUS
  <2> HIDE DEF Q
  <2>4. k \in Q
    BY <2>1, <2>2, <2>3, NatInduct
  <2> QED
    BY <2>4 DEF Q
<1>4. r \in [0..n -> X] /\ h[1..n] = r[n]
  BY <1>3
<1>5. \A k \in 1..n : r[k] = step[<<r[k-1], k>>]
  <2>1. \A k \in 1..n : k - 1 \in 0..n
    OBVIOUS
  <2> HIDE DEF r
  <2> QED
    BY <1>2, <1>3, <2>1
<1> HIDE DEF r
<1> QED
  BY <1>1, <1>4, <1>5 DEF Runs

-----------------------------------------------------------------------------
(* max_drawdown_cents. *)

\* What a pass over balances can hold.
Scanning == [peak : {<<>>} \cup {<<p>> : p \in Int}, worst : Int]

\* A pass over integers keeps its two variables integers.
LEMMA ScannedType ==
  ASSUME NEW acc \in Scanning, NEW b \in Int
  PROVE  Scanned(acc, b) \in Scanning
<1> DEFINE peak == IF acc.peak = <<>> \/ b > acc.peak[1] THEN b ELSE acc.peak[1]
<1>1. acc.peak # <<>> => acc.peak[1] \in Int
  BY DEF Scanning
<1>2. peak \in Int /\ acc.worst \in Int
  BY <1>1 DEF Scanning
<1> HIDE DEF peak
<1>3. (IF peak - b > acc.worst THEN peak - b ELSE acc.worst) \in Int
  BY <1>2
<1>4. Scanned(acc, b)
        = [peak |-> <<peak>>, worst |-> IF peak - b > acc.worst THEN peak - b ELSE acc.worst]
  BY DEF Scanned, peak
<1> QED
  BY <1>2, <1>3, <1>4 DEF Scanning

\* It starts with one of those.
LEMMA NothingScannedType == NothingScanned \in Scanning
  BY DEF NothingScanned, Scanning

\* The pass, balance by balance.
IsScan(r, b) ==
    /\ r \in [0..Len(b) -> Scanning]
    /\ r[0] = NothingScanned
    /\ \A k \in 1..Len(b) : r[k] = Scanned(r[k-1], b[k])

\* max_drawdown_cents is what such a pass ends with.
LEMMA DrawdownScans ==
  ASSUME NEW b \in Seq(Int)
  PROVE  \E r : IsScan(r, b) /\ MaxDrawdown(b) = r[Len(b)].worst
<1> DEFINE n == Len(b)
           Next2(g, S) == IF S = {} THEN NothingScanned ELSE Scanned(g[S \ {Max(S)}], b[Max(S)])
           Folds(g) == g = [S \in SUBSET (DOMAIN b) |-> Next2(g, S)]
           step == [p \in Scanning \X (1..n) |-> Scanned(p[1], b[p[2]])]
<1>1. n \in Nat /\ DOMAIN b = 1..n /\ \A i \in 1..n : b[i] \in Int
  OBVIOUS
<1>2. MaxDrawdown(b) = (CHOOSE g : Folds(g))[1..n].worst
  BY <1>1 DEF MaxDrawdown, FoldLeft, MapThenFoldSet
<1>3. step \in [Scanning \X (1..n) -> Scanning]
  BY <1>1, ScannedType
<1>4. PICK g \in [SUBSET (1..n) -> Scanning] : Folded(g, NothingScanned, step, n)
  <2> HIDE DEF n, step
  <2> QED
    BY <1>1, <1>3, NothingScannedType, FoldExists
<1>5. \A S \in SUBSET (1..n) : S # {} => step[<<g[S \ {Max(S)}], Max(S)>>]
                                              = Scanned(g[S \ {Max(S)}], b[Max(S)])
  BY <1>1, MaxIsLast
<1>6. Folds(g)
  BY <1>1, <1>4, <1>5 DEF Folded
<1> DEFINE h == CHOOSE g2 : Folds(g2)
<1>7. Folds(h)
  BY <1>6
<1>8. \A S \in SUBSET (1..n) : h[S] = Next2(h, S)
  BY <1>7, <1>1
<1>9. h[{}] = NothingScanned
  <2>1. {} \in SUBSET (1..n)
    OBVIOUS
  <2> HIDE DEF h
  <2> QED
    BY <2>1, <1>8
<1>10. ASSUME NEW S \in SUBSET (1..n), S # {}, h[S \ {Max(S)}] \in Scanning
       PROVE  h[S] = step[<<h[S \ {Max(S)}], Max(S)>>]
  <2>1. Max(S) \in 1..n
    BY <1>1, <1>10, MaxIsLast
  <2> HIDE DEF h
  <2> QED
    BY <2>1, <1>8, <1>10
<1>11. PICK r \in [0..n -> Scanning] : Runs(r, h, NothingScanned, step, n)
  <2> HIDE DEF h, step, n
  <2>1. Follows(h, Scanning, NothingScanned, step, n)
    <3>1. \A S \in SUBSET (1..n) : S # {} /\ h[S \ {Max(S)}] \in Scanning
                                   => h[S] = step[<<h[S \ {Max(S)}], Max(S)>>]
      BY <1>10
    <3> QED
      BY <1>9, <3>1 DEF Follows
  <2> QED
    BY <1>1, <1>3, <2>1, NothingScannedType, FoldRuns
<1>12. ASSUME NEW k \in 1..n PROVE r[k] = Scanned(r[k-1], b[k])
  <2>1. k - 1 \in 0..n
    BY <1>1
  <2> QED
    BY <2>1, <1>11 DEF Runs
<1>13. MaxDrawdown(b) = r[n].worst
  <2> HIDE DEF Folds
  <2> QED
    BY <1>2, <1>11 DEF Runs
<1> QED
  BY <1>11, <1>12, <1>13 DEF IsScan, Runs

\* What one step of the pass does to its two variables.
LEMMA ScannedFacts ==
  ASSUME NEW acc \in Scanning, NEW b \in Int
  PROVE  /\ acc.worst \in Int /\ (acc.peak # <<>> => acc.peak[1] \in Int)
         /\ LET next == Scanned(acc, b)
            IN  /\ next \in Scanning /\ next.peak # <<>> /\ next.peak[1] \in Int
                /\ next.peak[1] = IF acc.peak = <<>> \/ b > acc.peak[1] THEN b ELSE acc.peak[1]
                /\ next.worst \in Int
                /\ next.worst = IF next.peak[1] - b > acc.worst THEN next.peak[1] - b
                                ELSE acc.worst
<1> DEFINE next == Scanned(acc, b)
<1>1. acc.worst \in Int /\ (acc.peak # <<>> => acc.peak[1] \in Int)
  BY DEF Scanning
<1>2. next \in Scanning
  BY ScannedType
<1> DEFINE peak == IF acc.peak = <<>> \/ b > acc.peak[1] THEN b ELSE acc.peak[1]
<1>3. peak \in Int
  BY <1>1
<1> HIDE DEF peak
<1>4. next = [peak |-> <<peak>>,
              worst |-> IF peak - b > acc.worst THEN peak - b ELSE acc.worst]
  BY DEF Scanned, peak
<1>5. next.peak = <<peak>>
  BY <1>4
<1>6. next.peak # <<>> /\ next.peak[1] = peak
  BY <1>5, <1>3
<1>7. next.worst = IF peak - b > acc.worst THEN peak - b ELSE acc.worst
  BY <1>4
<1>8. next.worst \in Int
  BY <1>7, <1>1, <1>3
<1> QED
  BY <1>1, <1>2, <1>3, <1>6, <1>7, <1>8 DEF peak

\* After k balances of b: the peak is the greatest of them, and the drawdown
\* the worst fall from one of them to a later one.
Peaked(acc, b, k) ==
    /\ acc.peak # <<>> /\ acc.peak[1] \in Int
    /\ \E i \in 1..k : acc.peak[1] = b[i]
    /\ \A i \in 1..k : b[i] <= acc.peak[1]

\* The worst fall is one of those from a balance to a later one, and none is worse.
Fallen(acc, b, k) ==
    /\ acc.worst \in Int
    /\ \E i \in 1..k : \E j \in i..k : acc.worst = b[i] - b[j]
    /\ \A i \in 1..k : \A j \in i..k : b[i] - b[j] <= acc.worst

\* A scan is so after its first balance.
LEMMA ScanStarts ==
  ASSUME NEW b \in Seq(Int), NEW r, IsScan(r, b), Len(b) >= 1
  PROVE  Peaked(r[1], b, 1) /\ Fallen(r[1], b, 1)
<1>1. b[1] \in Int /\ 1 \in 1..Len(b)
  OBVIOUS
<1>2. r[1] = Scanned(NothingScanned, b[1])
  BY <1>1 DEF IsScan
<1>3. NothingScanned.peak = <<>> /\ NothingScanned.worst = 0
  BY DEF NothingScanned
<1>4. r[1].peak # <<>> /\ r[1].peak[1] = b[1] /\ r[1].worst = 0
  <2>1. /\ r[1].peak # <<>> /\ r[1].peak[1] = b[1]
        /\ r[1].worst = IF r[1].peak[1] - b[1] > 0 THEN r[1].peak[1] - b[1] ELSE 0
    <3> DEFINE next == Scanned(NothingScanned, b[1])
    <3>1. /\ next.peak # <<>>
          /\ next.peak[1] = IF NothingScanned.peak = <<>> \/ b[1] > NothingScanned.peak[1] THEN b[1]
                            ELSE NothingScanned.peak[1]
          /\ next.worst = IF next.peak[1] - b[1] > NothingScanned.worst THEN next.peak[1] - b[1]
                          ELSE NothingScanned.worst
      BY <1>1, ScannedFacts, NothingScannedType
    <3>2. next.peak[1] = b[1]
      BY <3>1, <1>3
    <3> HIDE DEF next
    <3>3. next.worst = IF next.peak[1] - b[1] > 0 THEN next.peak[1] - b[1] ELSE 0
      BY <3>1, <1>3
    <3>4. r[1] = next
      BY <1>2 DEF next
    <3> QED
      BY <3>1, <3>2, <3>3, <3>4
  <2>2. r[1].peak[1] - b[1] = 0
    BY <2>1, <1>1
  <2> QED
    BY <2>1, <2>2
<1> QED
  BY <1>1, <1>4 DEF Peaked, Fallen

\* A fall from below the peak is no worse than the one from the peak.
LEMMA FallsWithin ==
  \A a, x, p, w \in Int : a <= p /\ p - x <= w => a - x <= w
  OBVIOUS

\* A scan stays so with each balance.
LEMMA ScanGoesOn ==
  ASSUME NEW b \in Seq(Int), NEW r, IsScan(r, b), NEW k \in Nat, k >= 1, k + 1 <= Len(b),
         Peaked(r[k], b, k), Fallen(r[k], b, k)
  PROVE  Peaked(r[k+1], b, k + 1) /\ Fallen(r[k+1], b, k + 1)
<1> DEFINE acc == r[k]
           next == r[k+1]
           x == b[k+1]
<1>1. x \in Int /\ \A i \in 1..(k+1) : b[i] \in Int
  OBVIOUS
<1>2. acc \in Scanning /\ next = Scanned(acc, x)
  <2>1. k \in 0..Len(b) /\ k + 1 \in 1..Len(b) /\ (k + 1) - 1 = k
    OBVIOUS
  <2> QED
    BY <2>1 DEF IsScan
<1> HIDE DEF acc, next
<1>3. /\ acc.worst \in Int /\ next.peak # <<>> /\ next.peak[1] \in Int /\ next.worst \in Int
      /\ next.peak[1] = IF acc.peak = <<>> \/ x > acc.peak[1] THEN x ELSE acc.peak[1]
      /\ next.worst = IF next.peak[1] - x > acc.worst THEN next.peak[1] - x ELSE acc.worst
  BY <1>1, <1>2, ScannedFacts
<1>4. Peaked(acc, b, k) /\ Fallen(acc, b, k)
  BY DEF acc
<1>5. acc.peak[1] \in Int /\ acc.peak # <<>>
  BY <1>4 DEF Peaked
<1>6. /\ acc.peak[1] <= next.peak[1] /\ x <= next.peak[1]
      /\ next.peak[1] \in {x, acc.peak[1]}
  BY <1>1, <1>3, <1>5
<1>7. Peaked(next, b, k + 1)
  <2>1. \E i \in 1..(k+1) : next.peak[1] = b[i]
    <3>1. PICK i \in 1..k : acc.peak[1] = b[i]
      BY <1>4 DEF Peaked
    <3>2. i \in 1..(k+1) /\ k + 1 \in 1..(k+1)
      OBVIOUS
    <3> QED
      BY <1>6, <3>1, <3>2
  <2>2. ASSUME NEW i \in 1..(k+1) PROVE b[i] <= next.peak[1]
    <3>1. CASE i = k + 1
      BY <3>1, <1>6
    <3>2. CASE i \in 1..k
      <4>1. b[i] <= acc.peak[1]
        BY <3>2, <1>4 DEF Peaked
      <4>2. \A p \in Int : p <= acc.peak[1] => p <= next.peak[1]
        BY <1>3, <1>5, <1>6
      <4>3. b[i] \in Int
        BY <1>1
      <4> QED
        BY <4>1, <4>2, <4>3, Zenon
    <3> QED
      BY <3>1, <3>2
  <2> QED
    BY <2>1, <2>2, <1>3 DEF Peaked
<1>8. acc.worst <= next.worst /\ next.peak[1] - x <= next.worst
  BY <1>1, <1>3
<1>9. x \in Int /\ acc.worst \in Int /\ next.worst \in Int /\ next.peak[1] \in Int
  BY <1>1, <1>3
<1>10. \E i \in 1..(k+1) : \E j \in i..(k+1) : next.worst = b[i] - b[j]
  <2>1. CASE next.peak[1] - x > acc.worst
    <3>1. PICK i \in 1..(k+1) : next.peak[1] = b[i]
      BY <1>7 DEF Peaked
    <3>2. k + 1 \in i..(k+1)
      OBVIOUS
    <3>3. next.worst = next.peak[1] - x
      BY <2>1, <1>3
    <3>4. next.worst = b[i] - b[k+1]
      BY <3>1, <3>3
    <3> QED
      BY <3>2, <3>4
  <2>2. CASE ~(next.peak[1] - x > acc.worst)
    <3>1. PICK i \in 1..k : \E j \in i..k : acc.worst = b[i] - b[j]
      BY <1>4 DEF Fallen
    <3>2. PICK j \in i..k : acc.worst = b[i] - b[j]
      BY <3>1
    <3>3. i \in 1..(k+1) /\ j \in i..(k+1)
      OBVIOUS
    <3>4. next.worst = acc.worst
      BY <2>2, <1>3
    <3> QED
      BY <3>2, <3>3, <3>4
  <2> QED
    BY <2>1, <2>2
<1>11. ASSUME NEW i \in 1..(k+1), NEW j \in i..(k+1) PROVE b[i] - b[j] <= next.worst
  <2>1. j \in 1..(k+1)
    OBVIOUS
  <2>2. b[i] \in Int /\ b[j] \in Int
    BY <1>1, <2>1
  <2>3. CASE j = k + 1
    <3>1. b[i] <= next.peak[1]
      BY <1>7 DEF Peaked
    <3>2. b[j] = x
      BY <2>3
    <3> HIDE DEF x
    <3>3. next.peak[1] - b[j] <= next.worst
      BY <3>2, <1>8
    <3> QED
      BY <3>1, <3>3, <2>2, <1>9, FallsWithin, Zenon
  <2>4. CASE j # k + 1
    <3>1. i \in 1..k /\ j \in i..k
      BY <2>4
    <3>2. b[i] - b[j] <= acc.worst
      BY <3>1, <1>4 DEF Fallen
    <3>3. \A f \in Int : f <= acc.worst => f <= next.worst
      BY <1>8, <1>9
    <3>4. b[i] - b[j] \in Int
      BY <2>2
    <3> QED
      BY <3>2, <3>3, <3>4, Zenon
  <2> QED
    BY <2>3, <2>4
<1>12. Fallen(next, b, k + 1)
  BY <1>9, <1>10, <1>11 DEF Fallen
<1> QED
  BY <1>7, <1>12 DEF next

\* max_drawdown_cents is the worst fall, of any balances.
LEMMA DrawdownWorst ==
  ASSUME NEW b \in Seq(Int)
  PROVE  MaxDrawdown(b) = WorstFall(b)
<1>1. PICK r : IsScan(r, b) /\ MaxDrawdown(b) = r[Len(b)].worst
  BY DrawdownScans
<1>2. CASE b = <<>>
  BY <1>1, <1>2 DEF IsScan, NothingScanned, WorstFall
<1>3. CASE b # <<>>
  <2> DEFINE n == Len(b)
             Holds(k) == Peaked(r[k], b, k) /\ Fallen(r[k], b, k)
             Q == {k \in Nat : k + 1 <= n => Holds(k + 1)}
  <2>1. n \in Nat /\ n >= 1 /\ \A i \in 1..n : b[i] \in Int
    BY <1>3
  <2>2. 0 \in Q
    <3> QED
      BY <1>1, <2>1, ScanStarts
  <2>3. ASSUME NEW k \in Nat, k \in Q PROVE k + 1 \in Q
    <3> SUFFICES ASSUME (k + 1) + 1 <= n PROVE Holds((k + 1) + 1)
      OBVIOUS
    <3>1. Holds(k + 1) /\ k + 1 \in Nat /\ k + 1 >= 1
      BY <2>1, <2>3
    <3> QED
      BY <3>1, <1>1, ScanGoesOn
  <2>4. Holds(n)
    <3>1. n - 1 \in Nat /\ (n - 1) + 1 = n
      BY <2>1
    <3> HIDE DEF Holds
    <3>2. n - 1 \in Q
      <4> HIDE DEF Q
      <4> QED
        BY <3>1, <2>2, <2>3, NatInduct
    <3> QED
      BY <3>1, <3>2
  <2> DEFINE falls == UNION {{b[i] - b[j] : j \in i..n} : i \in 1..n}
             worst == r[n].worst
  <2>5. worst \in falls /\ \A f \in falls : worst >= f
    <3>1. worst \in falls
      <4>1. Fallen(r[n], b, n)
        BY <2>4
      <4>2. PICK i \in 1..n : \E j \in i..n : worst = b[i] - b[j]
        BY <4>1 DEF Fallen
      <4> QED
        BY <4>2
    <3>2. ASSUME NEW f \in falls PROVE worst >= f
      <4>1. PICK i \in 1..n : \E j \in i..n : f = b[i] - b[j]
        OBVIOUS
      <4>2. PICK j \in i..n : f = b[i] - b[j]
        BY <4>1
      <4>3. f <= worst /\ worst \in Int
        <5>1. Fallen(r[n], b, n)
          BY <2>4
        <5> QED
          BY <4>2, <5>1 DEF Fallen
      <4>4. j \in 1..n /\ b[i] \in Int /\ b[j] \in Int
        BY <2>1
      <4> QED
        BY <4>2, <4>3, <4>4
    <3> QED
      BY <3>1, <3>2
  <2>6. falls \subseteq Int
    <3> SUFFICES ASSUME NEW i \in 1..n, NEW j \in i..n PROVE b[i] - b[j] \in Int
      OBVIOUS
    <3>1. j \in 1..n
      BY <2>1
    <3> QED
      BY <3>1, <2>1
  <2>7. Max(falls) = worst
    <3> HIDE DEF falls, worst
    <3>1. Max(falls) \in falls /\ \A f \in falls : Max(falls) >= f
      BY <2>5 DEF Max
    <3>2. Max(falls) \in Int /\ worst \in Int
      BY <3>1, <2>5, <2>6
    <3>3. Max(falls) >= worst /\ worst >= Max(falls)
      BY <3>1, <2>5
    <3> QED
      BY <3>2, <3>3
  <2> QED
    BY <2>7, <1>1, <1>3 DEF WorstFall
<1> QED
  BY <1>2, <1>3

\* The drawdown is a natural number.
LEMMA DrawdownNat ==
  ASSUME NEW b \in Seq(Int)
  PROVE  MaxDrawdown(b) \in Nat
<1>1. PICK r : IsScan(r, b) /\ MaxDrawdown(b) = r[Len(b)].worst
  BY DrawdownScans
<1> DEFINE n == Len(b)
           Q == {k \in Nat : k <= n => r[k].worst \in Int /\ r[k].worst >= 0}
<1>2. n \in Nat
  OBVIOUS
<1>3. 0 \in Q
  BY <1>1, <1>2 DEF IsScan, NothingScanned
<1>4. ASSUME NEW k \in Nat, k \in Q PROVE k + 1 \in Q
  <2> SUFFICES ASSUME k + 1 <= n PROVE r[k+1].worst \in Int /\ r[k+1].worst >= 0
    OBVIOUS
  <2>1. k \in 0..n /\ k + 1 \in 1..n /\ (k + 1) - 1 = k /\ b[k+1] \in Int
    BY <1>2
  <2>2. r[k] \in Scanning /\ r[k+1] = Scanned(r[k], b[k+1])
    BY <1>1, <2>1 DEF IsScan
  <2>3. r[k].worst \in Int /\ r[k].worst >= 0
    BY <1>4, <2>1
  <2>4. r[k+1].worst \in Int /\ r[k+1].peak[1] \in Int
        /\ r[k+1].worst = IF r[k+1].peak[1] - b[k+1] > r[k].worst
                          THEN r[k+1].peak[1] - b[k+1] ELSE r[k].worst
    <3> DEFINE acc == r[k]
               x == b[k+1]
               next == r[k+1]
    <3>1. acc \in Scanning /\ x \in Int /\ next = Scanned(acc, x)
      BY <2>1, <2>2
    <3> HIDE DEF acc, x, next
    <3>2. next.worst \in Int /\ next.peak[1] \in Int
          /\ next.worst = IF next.peak[1] - x > acc.worst THEN next.peak[1] - x ELSE acc.worst
      BY <3>1, ScannedFacts
    <3> QED
      BY <3>2 DEF acc, x, next
  <2> QED
    BY <2>1, <2>3, <2>4
<1>5. n \in Q
  <2> HIDE DEF Q
  <2> QED
    BY <1>2, <1>3, <1>4, NatInduct
<1> QED
  BY <1>1, <1>2, <1>5

\* c starts with the balances of b.
StartsWith(c, b) == Len(b) <= Len(c) /\ \A i \in 1..Len(b) : c[i] = b[i]

\* Two scans agree as long as the balances do.
LEMMA ScansAgree ==
  ASSUME NEW b \in Seq(Int), NEW c \in Seq(Int), StartsWith(c, b),
         NEW r, IsScan(r, b), NEW q, IsScan(q, c)
  PROVE  r[Len(b)] = q[Len(b)]
<1> DEFINE n == Len(b)
           Q == {i \in Nat : i <= n => r[i] = q[i]}
<1>1. n \in Nat
  OBVIOUS
<1>2. 0 \in Q
  BY DEF IsScan
<1>3. ASSUME NEW i \in Nat, i \in Q PROVE i + 1 \in Q
  <2> SUFFICES ASSUME i + 1 <= n PROVE r[i+1] = q[i+1]
    OBVIOUS
  <2>1. /\ i + 1 \in 1..Len(b) /\ i + 1 \in 1..Len(c) /\ (i + 1) - 1 = i
        /\ r[i] = q[i] /\ c[i+1] = b[i+1]
    BY <1>3 DEF StartsWith
  <2> QED
    BY <2>1 DEF IsScan
<1>4. n \in Q
  <2> HIDE DEF Q, n
  <2> QED
    BY <1>1, <1>2, <1>3, NatInduct
<1> QED
  BY <1>1, <1>4

\* What the pass over b ends with.
Ends(b) == LET r == CHOOSE r : IsScan(r, b) /\ MaxDrawdown(b) = r[Len(b)].worst
           IN  r[Len(b)]

\* max_drawdown_cents reads the end of the pass.
LEMMA EndsReads ==
  ASSUME NEW b \in Seq(Int)
  PROVE  Ends(b) \in Scanning /\ MaxDrawdown(b) = Ends(b).worst
<1>1. PICK r : /\ IsScan(r, b) /\ MaxDrawdown(b) = r[Len(b)].worst
               /\ Ends(b) = r[Len(b)]
  BY DrawdownScans DEF Ends
<1> QED
  BY <1>1 DEF IsScan

\* The pass over nothing ends as it begins.
LEMMA EndsEmpty == Ends(<<>>) = NothingScanned
<1>1. <<>> \in Seq(Int) /\ Len(<<>>) = 0
  OBVIOUS
<1>2. PICK r : IsScan(r, <<>>) /\ Ends(<<>>) = r[0]
  BY <1>1, DrawdownScans DEF Ends
<1> QED
  BY <1>2 DEF IsScan

\* One more balance is one more step.
LEMMA EndsAppend ==
  ASSUME NEW b \in Seq(Int), NEW x \in Int
  PROVE  Ends(Append(b, x)) = Scanned(Ends(b), x)
<1> DEFINE c == Append(b, x)
           n == Len(b)
<1>1. /\ c \in Seq(Int) /\ Len(c) = n + 1 /\ n \in Nat /\ c[n+1] = x
      /\ \A i \in 1..n : c[i] = b[i]
  OBVIOUS
<1> HIDE DEF c
<1>2. PICK r : IsScan(r, b) /\ Ends(b) = r[n]
  BY DrawdownScans DEF Ends
<1>3. PICK q : IsScan(q, c) /\ Ends(c) = q[n+1]
  BY <1>1, DrawdownScans DEF Ends
<1>4. r[n] = q[n]
  <2>1. StartsWith(c, b)
    BY <1>1 DEF StartsWith
  <2> QED
    BY <1>1, <1>2, <1>3, <2>1, ScansAgree
<1>5. q[n+1] = Scanned(q[n], x)
  <2>1. n + 1 \in 1..Len(c) /\ (n + 1) - 1 = n
    BY <1>1
  <2> QED
    BY <2>1, <1>1, <1>3 DEF IsScan
<1> QED
  BY <1>2, <1>3, <1>4, <1>5 DEF c

\* A pass that has seen less has a lower peak and a smaller fall.
Below(s, l) ==
    /\ s.worst <= l.worst
    /\ s.peak # <<>> => l.peak # <<>> /\ s.peak[1] <= l.peak[1]

\* A balance both passes see leaves one below the other.
LEMMA BelowBoth ==
  ASSUME NEW s \in Scanning, NEW l \in Scanning, Below(s, l), NEW x \in Int
  PROVE  Below(Scanned(s, x), Scanned(l, x))
<1> DEFINE s2 == Scanned(s, x)
           l2 == Scanned(l, x)
<1>1. /\ s.worst \in Int /\ (s.peak # <<>> => s.peak[1] \in Int)
      /\ s2.peak # <<>> /\ s2.peak[1] \in Int /\ s2.worst \in Int
      /\ s2.peak[1] = IF s.peak = <<>> \/ x > s.peak[1] THEN x ELSE s.peak[1]
      /\ s2.worst = IF s2.peak[1] - x > s.worst THEN s2.peak[1] - x ELSE s.worst
  BY ScannedFacts
<1>2. /\ l.worst \in Int /\ (l.peak # <<>> => l.peak[1] \in Int)
      /\ l2.peak # <<>> /\ l2.peak[1] \in Int /\ l2.worst \in Int
      /\ l2.peak[1] = IF l.peak = <<>> \/ x > l.peak[1] THEN x ELSE l.peak[1]
      /\ l2.worst = IF l2.peak[1] - x > l.worst THEN l2.peak[1] - x ELSE l.worst
  BY ScannedFacts
<1> HIDE DEF s2, l2
<1>3. s2.peak[1] <= l2.peak[1]
  <2>1. CASE s.peak = <<>>
    <3>1. s2.peak[1] = x
      BY <2>1, <1>1
    <3>2. x <= l2.peak[1]
      BY <1>2
    <3> QED
      BY <3>1, <3>2
  <2>2. CASE s.peak # <<>>
    <3>1. l.peak # <<>> /\ s.peak[1] <= l.peak[1]
      BY <2>2 DEF Below
    <3>2. s2.peak[1] = IF x > s.peak[1] THEN x ELSE s.peak[1]
      BY <1>1, <2>2
    <3>3. l2.peak[1] = IF x > l.peak[1] THEN x ELSE l.peak[1]
      BY <1>2, <3>1
    <3> QED
      BY <3>1, <3>2, <3>3, <1>1, <1>2, <2>2
  <2> QED
    BY <2>1, <2>2
<1>4. s2.worst <= l2.worst
  <2>1. s.worst <= l.worst
    BY DEF Below
  <2> QED
    BY <2>1, <1>1, <1>2, <1>3
<1> QED
  BY <1>2, <1>3, <1>4 DEF Below, s2, l2

\* So does a balance that only the longer one sees.
LEMMA BelowLonger ==
  ASSUME NEW s \in Scanning, NEW l \in Scanning, Below(s, l), NEW x \in Int
  PROVE  Below(s, Scanned(l, x))
<1> DEFINE l2 == Scanned(l, x)
<1>1. /\ l.worst \in Int /\ (l.peak # <<>> => l.peak[1] \in Int)
      /\ l2.peak # <<>> /\ l2.peak[1] \in Int /\ l2.worst \in Int
      /\ l2.peak[1] = IF l.peak = <<>> \/ x > l.peak[1] THEN x ELSE l.peak[1]
      /\ l2.worst = IF l2.peak[1] - x > l.worst THEN l2.peak[1] - x ELSE l.worst
  BY ScannedFacts
<1>2. s.worst \in Int /\ (s.peak # <<>> => s.peak[1] \in Int)
  BY ScannedFacts
<1> HIDE DEF l2
<1>3. s.worst <= l2.worst
  BY <1>1, <1>2 DEF Below
<1>4. ASSUME s.peak # <<>> PROVE s.peak[1] <= l2.peak[1]
  <2>1. l.peak # <<>> /\ s.peak[1] <= l.peak[1]
    BY <1>4 DEF Below
  <2>2. l2.peak[1] = IF x > l.peak[1] THEN x ELSE l.peak[1]
    BY <1>1, <2>1
  <2> QED
    BY <2>1, <2>2, <1>1, <1>2, <1>4
<1> QED
  BY <1>1, <1>3, <1>4 DEF Below, l2

-----------------------------------------------------------------------------
(* balances_for_window. *)

\* The balances taken so far and, if the window holds its event, e's.
Taken(list, e, w, time) ==
    IF InWindow(e.at, w, time) THEN Append(list, e.balance) ELSE list

\* The balances of a window, event by event.
IsTaking(r, events, w, time) ==
    /\ r \in [0..Len(events) -> Seq(Int)]
    /\ r[0] = <<>>
    /\ \A k \in 1..Len(events) : r[k] = Taken(r[k-1], events[k], w, time)

\* balances_for_window is what such a pass ends with.
LEMMA WindowTakes ==
  ASSUME NEW events \in Seq(CashEvent), NEW w, NEW time
  PROVE  \E r : IsTaking(r, events, w, time) /\ BalancesIn(events, w, time) = r[Len(events)]
<1> DEFINE n == Len(events)
           Next2(g, S) == IF S = {} THEN <<>>
                          ELSE Taken(g[S \ {Max(S)}], events[Max(S)], w, time)
           Folds(g) == g = [S \in SUBSET (DOMAIN events) |-> Next2(g, S)]
           step == [p \in Seq(Int) \X (1..n) |-> Taken(p[1], events[p[2]], w, time)]
<1>1. n \in Nat /\ DOMAIN events = 1..n /\ \A i \in 1..n : events[i].balance \in Int
  <2>1. n \in Nat /\ DOMAIN events = 1..n /\ \A i \in 1..n : events[i] \in CashEvent
    OBVIOUS
  <2> QED
    BY <2>1 DEF CashEvent
<1>2. BalancesIn(events, w, time) = (CHOOSE g : Folds(g))[1..n]
  BY <1>1 DEF BalancesIn, FoldLeft, MapThenFoldSet, Taken
<1>3. step \in [Seq(Int) \X (1..n) -> Seq(Int)]
  <2> SUFFICES ASSUME NEW list \in Seq(Int), NEW i \in 1..n
               PROVE  Taken(list, events[i], w, time) \in Seq(Int)
    OBVIOUS
  <2> QED
    BY <1>1 DEF Taken
<1>4. <<>> \in Seq(Int)
  OBVIOUS
<1>5. PICK g \in [SUBSET (1..n) -> Seq(Int)] : Folded(g, <<>>, step, n)
  <2> HIDE DEF n, step
  <2> QED
    BY <1>1, <1>3, <1>4, FoldExists
<1>6. \A S \in SUBSET (1..n) : S # {} => step[<<g[S \ {Max(S)}], Max(S)>>]
                                       = Taken(g[S \ {Max(S)}], events[Max(S)], w, time)
  BY <1>1, MaxIsLast
<1>7. Folds(g)
  BY <1>1, <1>5, <1>6 DEF Folded
<1> DEFINE h == CHOOSE g2 : Folds(g2)
<1>8. \A S \in SUBSET (1..n) : h[S] = Next2(h, S)
  <2>1. Folds(h)
    BY <1>7
  <2> QED
    BY <2>1, <1>1
<1> HIDE DEF h
<1>9. h[{}] = <<>>
  <2>1. {} \in SUBSET (1..n)
    OBVIOUS
  <2> QED
    BY <2>1, <1>8
<1>10. \A S \in SUBSET (1..n) : S # {} /\ h[S \ {Max(S)}] \in Seq(Int)
                                => h[S] = step[<<h[S \ {Max(S)}], Max(S)>>]
  <2>1. \A S \in SUBSET (1..n) : S # {} => Max(S) \in 1..n
    BY <1>1, MaxIsLast
  <2> QED
    BY <2>1, <1>8
<1>11. PICK r \in [0..n -> Seq(Int)] : Runs(r, h, <<>>, step, n)
  <2> HIDE DEF step, n
  <2>1. Follows(h, Seq(Int), <<>>, step, n)
    BY <1>9, <1>10 DEF Follows
  <2> QED
    BY <1>1, <1>3, <1>4, <2>1, FoldRuns
<1>12. ASSUME NEW k \in 1..n PROVE r[k] = Taken(r[k-1], events[k], w, time)
  <2>1. k - 1 \in 0..n
    BY <1>1
  <2> QED
    BY <2>1, <1>11 DEF Runs
<1>13. BalancesIn(events, w, time) = r[n]
  <2> HIDE DEF Folds
  <2> QED
    BY <1>2, <1>11 DEF Runs, h
<1> QED
  BY <1>11, <1>12, <1>13 DEF IsTaking, Runs

\* The balances of a window are integers.
LEMMA BalancesType ==
  ASSUME NEW events \in Seq(CashEvent), NEW w, NEW time
  PROVE  BalancesIn(events, w, time) \in Seq(Int)
<1>1. PICK r : IsTaking(r, events, w, time) /\ BalancesIn(events, w, time) = r[Len(events)]
  BY WindowTakes
<1> QED
  BY <1>1 DEF IsTaking

\* A window inside another shows no greater fall: an event it takes, the other
\* takes too.
LEMMA DrawdownNests ==
  ASSUME NEW events \in Seq(CashEvent), NEW v, NEW w, NEW time,
         \A i \in 1..Len(events) :
            InWindow(events[i].at, v, time) => InWindow(events[i].at, w, time)
  PROVE  MaxDrawdown(BalancesIn(events, v, time)) <= MaxDrawdown(BalancesIn(events, w, time))
<1> DEFINE n == Len(events)
<1>1. PICK r : IsTaking(r, events, v, time) /\ BalancesIn(events, v, time) = r[n]
  BY WindowTakes
<1>2. PICK q : IsTaking(q, events, w, time) /\ BalancesIn(events, w, time) = q[n]
  BY WindowTakes
<1>3. n \in Nat /\ \A i \in 1..n : events[i].balance \in Int
  <2>1. n \in Nat /\ \A i \in 1..n : events[i] \in CashEvent
    OBVIOUS
  <2> QED
    BY <2>1 DEF CashEvent
<1>4. \A k \in 0..n : r[k] \in Seq(Int) /\ q[k] \in Seq(Int)
  BY <1>1, <1>2 DEF IsTaking
<1> DEFINE Holds(k) == Below(Ends(r[k]), Ends(q[k]))
           Q == {k \in Nat : k <= n => Holds(k)}
<1>5. Holds(0)
  <2>1. Ends(r[0]) = NothingScanned /\ Ends(q[0]) = NothingScanned
    BY <1>1, <1>2, EndsEmpty DEF IsTaking
  <2> QED
    BY <2>1 DEF Below, NothingScanned
<1>6. ASSUME NEW k \in Nat, k + 1 <= n, Holds(k) PROVE Holds(k + 1)
  <2> DEFINE e == events[k+1]
  <2>1. k \in 0..n /\ k + 1 \in 1..n /\ (k + 1) - 1 = k
    BY <1>3, <1>6
  <2>2. r[k+1] = Taken(r[k], e, v, time) /\ q[k+1] = Taken(q[k], e, w, time)
    BY <1>1, <1>2, <2>1 DEF IsTaking
  <2>3. r[k] \in Seq(Int) /\ q[k] \in Seq(Int) /\ e.balance \in Int
    BY <1>3, <1>4, <2>1
  <2>4. Ends(r[k]) \in Scanning /\ Ends(q[k]) \in Scanning
    BY <2>3, EndsReads
  <2>5. CASE InWindow(e.at, v, time)
    <3>1. r[k+1] = Append(r[k], e.balance)
      BY <2>2, <2>5 DEF Taken
    <3>2. q[k+1] = Append(q[k], e.balance)
      BY <2>1, <2>2, <2>5 DEF Taken
    <3>3. /\ Ends(r[k+1]) = Scanned(Ends(r[k]), e.balance)
          /\ Ends(q[k+1]) = Scanned(Ends(q[k]), e.balance)
      BY <2>3, <3>1, <3>2, EndsAppend
    <3> HIDE DEF e
    <3> QED
      BY <1>6, <2>3, <2>4, <3>3, BelowBoth
  <2>6. CASE ~InWindow(e.at, v, time) /\ InWindow(e.at, w, time)
    <3>1. r[k+1] = r[k] /\ q[k+1] = Append(q[k], e.balance)
      BY <2>2, <2>6 DEF Taken
    <3>2. Ends(q[k+1]) = Scanned(Ends(q[k]), e.balance)
      BY <2>3, <3>1, EndsAppend
    <3> HIDE DEF e
    <3> QED
      BY <1>6, <2>3, <2>4, <3>1, <3>2, BelowLonger
  <2>7. CASE ~InWindow(e.at, v, time) /\ ~InWindow(e.at, w, time)
    <3>1. r[k+1] = r[k] /\ q[k+1] = q[k]
      BY <2>2, <2>7 DEF Taken
    <3> QED
      BY <1>6, <3>1
  <2> QED
    BY <2>5, <2>6, <2>7
<1>7. Holds(n)
  <2> HIDE DEF Holds
  <2>1. 0 \in Q
    BY <1>5
  <2>2. \A k \in Nat : k \in Q => k + 1 \in Q
    BY <1>3, <1>6
  <2> HIDE DEF Q
  <2>3. n \in Q
    BY <1>3, <2>1, <2>2, NatInduct
  <2> QED
    BY <1>3, <2>3 DEF Q
<1>8. n \in 0..n
  BY <1>3
<1> QED
  BY <1>1, <1>2, <1>4, <1>7, <1>8, EndsReads DEF Below

-----------------------------------------------------------------------------
(* The events of a settlement. *)

\* A finite set as a sequence holds each of its elements once.
LEMMA SeqOfSet ==
  ASSUME NEW S, IsFiniteSet(S)
  PROVE  LET q == SetToSeq(S)
             n == Cardinality(S)
         IN  /\ n \in Nat /\ q \in [1..n -> S]
             /\ \A i, j \in 1..n : q[i] = q[j] => i = j
             /\ \A x \in S : \E i \in 1..n : q[i] = x
<1> DEFINE q == SetToSeq(S)
           n == Cardinality(S)
<1>1. n \in Nat /\ ExistsBijection(1..n, S)
  BY FS_CardinalityType
<1>2. \E f \in [1..n -> S] : IsInjective(f)
  BY <1>1 DEF ExistsBijection, Bijection, Injection
<1>3. q \in [1..n -> S] /\ IsInjective(q)
  BY <1>2 DEF SetToSeq
<1> HIDE DEF q
<1>4. q \in Injection(1..n, S)
  BY <1>3 DEF Injection
<1>5. Cardinality(1..n) = n
  BY <1>1, FS_Interval
<1>6. q \in Surjection(1..n, S)
  BY <1>4, <1>5, FS_Injection
<1>7. \A x \in S : \E i \in 1..n : q[i] = x
  BY <1>6 DEF Surjection
<1>8. \A i, j \in 1..n : q[i] = q[j] => i = j
  BY <1>3 DEF IsInjective
<1> QED
  BY <1>1, <1>3, <1>7, <1>8 DEF q

\* Journals in use: the first deposit starts them.
Journal == {log \in Seq(CashEvent) : log # <<>>}

\* A journal with the realized_pnl event of one more trade.
PostedOne(log, t, settled, time) ==
    Append(log, [at |-> time, pnl |-> settled[t].pnl, move |-> FALSE,
                 balance |-> Balance(log) + settled[t].pnl])

\* The event of a settlement is one.
LEMMA EventType ==
  ASSUME NEW log \in Journal, NEW t, NEW settled, settled[t].pnl \in Int, NEW time \in Nat
  PROVE  [at |-> time, pnl |-> settled[t].pnl, move |-> FALSE,
          balance |-> Balance(log) + settled[t].pnl] \in CashEvent
<1>1. Len(log) \in 1..Len(log) /\ log \in Seq(CashEvent)
  BY DEF Journal
<1>2. log[Len(log)] \in CashEvent
  BY <1>1
<1>3. Balance(log) \in Int
  BY <1>2 DEF Balance, CashEvent
<1> QED
  BY <1>3 DEF CashEvent

\* Added to a journal it leaves one.
LEMMA PostedOneType ==
  ASSUME NEW log \in Journal, NEW t, NEW settled, settled[t].pnl \in Int, NEW time \in Nat
  PROVE  PostedOne(log, t, settled, time) \in Journal
<1> DEFINE e == [at |-> time, pnl |-> settled[t].pnl, move |-> FALSE,
                 balance |-> Balance(log) + settled[t].pnl]
<1>1. log \in Seq(CashEvent) /\ e \in CashEvent
  BY EventType DEF Journal
<1> HIDE DEF e
<1> DEFINE c == Append(log, e)
<1>2. c \in Seq(CashEvent) /\ Len(c) = Len(log) + 1 /\ Len(log) \in Nat
  BY <1>1
<1>3. c # <<>>
  BY <1>2
<1> HIDE DEF c
<1>4. c \in Journal
  BY <1>2, <1>3 DEF Journal
<1> QED
  BY <1>4 DEF PostedOne, e, c

\* The events of the trades of due, in the order of q.
IsPosting(r, log, due, settled, time) ==
    LET n == Cardinality(due)
        q == SetToSeq(due)
    IN  /\ r \in [0..n -> Journal]
        /\ r[0] = log
        /\ \A k \in 1..n : r[k] = PostedOne(r[k-1], q[k], settled, time)

\* Posting is such a sequence of journals, and ends with its last.
LEMMA PostingRuns ==
  ASSUME NEW log \in Journal, NEW due, IsFiniteSet(due), NEW settled,
         \A t \in due : settled[t].pnl \in Int, NEW time \in Nat
  PROVE  \E r : /\ IsPosting(r, log, due, settled, time)
                /\ Posted(log, due, settled, time) = r[Cardinality(due)]
<1> DEFINE n == Cardinality(due)
           q == SetToSeq(due)
           Next2(g, S) == IF S = {} THEN log
                          ELSE PostedOne(g[S \ {Max(S)}], q[Max(S)], settled, time)
           Folds(g) == g = [S \in SUBSET (DOMAIN q) |-> Next2(g, S)]
           step == [p \in Journal \X (1..n) |-> PostedOne(p[1], q[p[2]], settled, time)]
<1>1. n \in Nat /\ DOMAIN q = 1..n /\ \A i \in 1..n : settled[q[i]].pnl \in Int
  BY SeqOfSet
<1>2. Posted(log, due, settled, time) = (CHOOSE g : Folds(g))[1..n]
  BY <1>1 DEF Posted, FoldLeft, MapThenFoldSet, PostedOne
<1> HIDE DEF q
<1>3. step \in [Journal \X (1..n) -> Journal]
  BY <1>1, PostedOneType
<1>5. PICK g \in [SUBSET (1..n) -> Journal] : Folded(g, log, step, n)
  <2> HIDE DEF n, step
  <2> QED
    BY <1>1, <1>3, FoldExists
<1>6. \A S \in SUBSET (1..n) : S # {} => step[<<g[S \ {Max(S)}], Max(S)>>]
                                       = PostedOne(g[S \ {Max(S)}], q[Max(S)], settled, time)
  BY <1>1, MaxIsLast
<1>7. Folds(g)
  BY <1>1, <1>5, <1>6 DEF Folded
<1> DEFINE h == CHOOSE g2 : Folds(g2)
<1>8. \A S \in SUBSET (1..n) : h[S] = Next2(h, S)
  <2>1. Folds(h)
    BY <1>7
  <2> QED
    BY <2>1, <1>1
<1> HIDE DEF h
<1>9. h[{}] = log
  <2>1. {} \in SUBSET (1..n)
    OBVIOUS
  <2> QED
    BY <2>1, <1>8
<1>10. \A S \in SUBSET (1..n) : S # {} /\ h[S \ {Max(S)}] \in Journal
                                => h[S] = step[<<h[S \ {Max(S)}], Max(S)>>]
  <2>1. \A S \in SUBSET (1..n) : S # {} => Max(S) \in 1..n
    BY <1>1, MaxIsLast
  <2> QED
    BY <2>1, <1>8
<1>11. PICK r \in [0..n -> Journal] : Runs(r, h, log, step, n)
  <2> HIDE DEF step, n
  <2>1. Follows(h, Journal, log, step, n)
    BY <1>9, <1>10 DEF Follows
  <2> QED
    BY <1>1, <1>3, <2>1, FoldRuns
<1>12. ASSUME NEW k \in 1..n PROVE r[k] = PostedOne(r[k-1], q[k], settled, time)
  <2>1. k - 1 \in 0..n
    BY <1>1
  <2> QED
    BY <2>1, <1>11 DEF Runs
<1>13. Posted(log, due, settled, time) = r[n]
  <2> HIDE DEF Folds
  <2> QED
    BY <1>2, <1>11 DEF Runs, h
<1> QED
  BY <1>11, <1>12, <1>13 DEF IsPosting, Runs, q

-----------------------------------------------------------------------------
(* Sums of profits. *)

\* What the realized_pnl events of a journal add up to.
PnlPosted(events) == SumFunctionOnSet([i \in 1..Len(events) |-> events[i].pnl], 1..Len(events))

\* Such a sum is an integer.
LEMMA PnlInt ==
  ASSUME NEW log \in Seq(CashEvent)
  PROVE  PnlPosted(log) \in Int
<1> DEFINE f == [i \in 1..Len(log) |-> log[i].pnl]
<1>1. Len(log) \in Nat /\ \A i \in 1..Len(log) : log[i] \in CashEvent
  OBVIOUS
<1>2. IsFiniteSet(1..Len(log)) /\ \A i \in 1..Len(log) : f[i] \in Int
  <2>1. IsFiniteSet(1..Len(log))
    BY <1>1, FS_Interval
  <2>2. \A i \in 1..Len(log) : log[i].pnl \in Int
    BY <1>1 DEF CashEvent
  <2> QED
    BY <2>1, <2>2
<1> HIDE DEF f
<1>3. SumFunctionOnSet(f, 1..Len(log)) \in Int
  BY <1>2, SumInt
<1> QED
  BY <1>3 DEF PnlPosted, f

\* An event adds its own.
LEMMA PnlAppend ==
  ASSUME NEW log \in Seq(CashEvent), NEW e \in CashEvent
  PROVE  PnlPosted(Append(log, e)) = PnlPosted(log) + e.pnl
<1> DEFINE n == Len(log)
           c == Append(log, e)
           f == [i \in 1..n |-> log[i].pnl]
           g == [i \in 1..(n+1) |-> c[i].pnl]
<1>1. /\ n \in Nat /\ Len(c) = n + 1 /\ c[n+1] = e
      /\ \A i \in 1..n : c[i] = log[i] /\ log[i] \in CashEvent
  OBVIOUS
<1>2. IsFiniteSet(1..n) /\ 1..(n+1) = (1..n) \cup {n+1} /\ n + 1 \notin 1..n
  <2>1. IsFiniteSet(1..n)
    BY <1>1, FS_Interval
  <2>2. 1..(n+1) = (1..n) \cup {n+1} /\ n + 1 \notin 1..n
    BY <1>1
  <2> QED
    BY <2>1, <2>2
<1>3. \A i \in 1..n : f[i] \in Int /\ f[i] = g[i]
  <2>1. \A i \in 1..n : log[i].pnl \in Int
    BY <1>1 DEF CashEvent
  <2>2. \A i \in 1..n : i \in 1..(n+1)
    BY <1>1
  <2> QED
    BY <1>1, <2>1, <2>2
<1>4. g[n+1] = e.pnl /\ e.pnl \in Int
  BY <1>1 DEF CashEvent
<1> HIDE DEF c, f, g
<1>5. SumFunctionOnSet(f, 1..n) \in Int /\ SumFunctionOnSet(f, 1..n) = SumFunctionOnSet(g, 1..n)
  BY <1>2, <1>3, SumInt, SumSame
<1>6. SumFunctionOnSet(g, (1..n) \cup {n+1}) = g[n+1] + SumFunctionOnSet(g, 1..n)
  <2>1. \A i \in (1..n) \cup {n+1} : g[i] \in Int
    BY <1>3, <1>4
  <2> QED
    BY <1>2, <2>1, SumInsert
<1>7. PnlPosted(log) = SumFunctionOnSet(f, 1..n)
  BY DEF PnlPosted, f
<1>8. PnlPosted(c) = SumFunctionOnSet(g, 1..(n+1))
  BY <1>1 DEF PnlPosted, g
<1>9. PnlPosted(c) = e.pnl + PnlPosted(log) /\ PnlPosted(log) \in Int
  BY <1>2, <1>4, <1>5, <1>6, <1>7, <1>8
<1> QED
  BY <1>4, <1>9 DEF c

\* A settlement posts the profits of the settled trades, each once.
LEMMA PostedSums ==
  ASSUME NEW log \in Journal, NEW due, IsFiniteSet(due), NEW settled,
         \A t \in due : settled[t].pnl \in Int, NEW time \in Nat
  PROVE  LET posted == Posted(log, due, settled, time)
         IN  /\ posted \in Journal
             /\ PnlPosted(posted)
                  = PnlPosted(log) + SumFunctionOnSet([t \in due |-> settled[t].pnl], due)
<1> DEFINE n == Cardinality(due)
           q == SetToSeq(due)
           p == [t \in due |-> settled[t].pnl]
<1>1. PICK r : /\ IsPosting(r, log, due, settled, time)
               /\ Posted(log, due, settled, time) = r[n]
  BY PostingRuns
<1>2. /\ n \in Nat /\ q \in [1..n -> due]
      /\ \A i, j \in 1..n : q[i] = q[j] => i = j
      /\ \A x \in due : \E i \in 1..n : q[i] = x
  BY SeqOfSet
<1>3. /\ r \in [0..n -> Journal] /\ r[0] = log
      /\ \A k \in 1..n : r[k] = PostedOne(r[k-1], q[k], settled, time)
  BY <1>1 DEF IsPosting
<1> HIDE DEF q, n
<1>4. \A t \in due : p[t] \in Int
  OBVIOUS
<1> DEFINE D(k) == {q[j] : j \in 1..k}
           Holds(k) == PnlPosted(r[k]) = PnlPosted(log) + SumFunctionOnSet(p, D(k))
           Q == {k \in Nat : k <= n => Holds(k)}
<1>5. PnlPosted(log) \in Int
  BY PnlInt DEF Journal
<1>6. Holds(0)
  <2>1. D(0) = {}
    OBVIOUS
  <2> HIDE DEF D, p
  <2>2. SumFunctionOnSet(p, D(0)) = 0
    BY <2>1, SumEmpty
  <2> QED
    BY <2>2, <1>3, <1>5
<1>7. ASSUME NEW k \in Nat, k + 1 <= n, Holds(k) PROVE Holds(k + 1)
  <2> DEFINE t == q[k+1]
  <2>1. k \in 0..n /\ k + 1 \in 1..n /\ (k + 1) - 1 = k
    BY <1>2, <1>7
  <2>2. t \in due /\ r[k] \in Journal /\ r[k+1] = PostedOne(r[k], t, settled, time)
    BY <1>2, <1>3, <2>1
  <2>3. D(k+1) = D(k) \cup {t}
    <3>1. 1..(k+1) = (1..k) \cup {k+1}
      OBVIOUS
    <3> QED
      BY <3>1
  <2>4. t \notin D(k)
    <3> SUFFICES ASSUME NEW j \in 1..k, q[j] = t PROVE FALSE
      OBVIOUS
    <3>1. j \in 1..n /\ j # k + 1
      BY <1>2, <1>7
    <3> QED
      BY <3>1, <2>1, <1>2
  <2>5. D(k) \in SUBSET due
    <3> SUFFICES ASSUME NEW j \in 1..k PROVE q[j] \in due
      OBVIOUS
    <3>1. j \in 1..n
      BY <1>2, <1>7
    <3> QED
      BY <3>1, <1>2
  <2>6. IsFiniteSet(D(k))
    BY <2>5, FS_Subset
  <2> HIDE DEF D, t, p
  <2>7. SumFunctionOnSet(p, D(k+1)) = p[t] + SumFunctionOnSet(p, D(k))
    <3>1. \A x \in D(k) \cup {t} : p[x] \in Int
      BY <1>4, <2>2, <2>5
    <3> QED
      BY <3>1, <2>3, <2>4, <2>6, SumInsert
  <2>8. SumFunctionOnSet(p, D(k)) \in Int /\ p[t] \in Int
    BY <1>4, <2>2, <2>5, <2>6, SumInt
  <2>9. PnlPosted(r[k+1]) = PnlPosted(r[k]) + p[t]
    <3> DEFINE e == [at |-> time, pnl |-> settled[t].pnl, move |-> FALSE,
                     balance |-> Balance(r[k]) + settled[t].pnl]
    <3>1. r[k+1] = Append(r[k], e)
      BY <2>2 DEF PostedOne
    <3>2. e \in CashEvent
      BY <2>2, EventType
    <3>3. e.pnl = p[t]
      BY <2>2 DEF p
    <3>4. r[k] \in Seq(CashEvent)
      BY <2>2 DEF Journal
    <3> HIDE DEF e
    <3> QED
      BY <3>1, <3>2, <3>3, <3>4, PnlAppend
  <2> QED
    BY <1>5, <1>7, <2>7, <2>8, <2>9
<1>8. Holds(n)
  <2> HIDE DEF Holds
  <2>1. 0 \in Q
    BY <1>6
  <2>2. \A k \in Nat : k \in Q => k + 1 \in Q
    BY <1>2, <1>7
  <2> HIDE DEF Q
  <2>3. n \in Q
    BY <1>2, <2>1, <2>2, NatInduct
  <2> QED
    BY <1>2, <2>3 DEF Q
<1>9. D(n) = due
  BY <1>2
<1>10. r[n] \in Journal
  <2>1. n \in 0..n
    BY <1>2
  <2> QED
    BY <2>1, <1>3
<1> QED
  BY <1>1, <1>8, <1>9, <1>10 DEF n

-----------------------------------------------------------------------------
(* The rows of a recomputation. *)

\* A probability has one of the bins, whose bounds hold it.
LEMMA BinHolds ==
  ASSUME NEW p \in 0..100
  PROVE  BinOf(p) \in Bins /\ 10 * BinOf(p) <= p /\ p <= 10 * (BinOf(p) + 1)
  BY DEF BinOf, Bins

\* The trades of T in bin b.
InBin(T, b) == {t \in T : BinOf(ProbYes[t]) = b}

\* The bins of any trades count each trade once.
LEMMA BinsCount ==
  ASSUME NEW T \in SUBSET Trades
  PROVE  SumFunctionOnSet([b \in Bins |-> Cardinality(InBin(T, b))], Bins) = Cardinality(T)
<1> DEFINE counts(U) == [b \in Bins |-> Cardinality(InBin(U, b))]
           Good == {U \in SUBSET T : SumFunctionOnSet(counts(U), Bins) = Cardinality(U)}
<1>1. IsFiniteSet(T) /\ IsFiniteSet(Bins)
  <2>1. IsFiniteSet(T)
    BY EvalAssumption, FS_Subset
  <2>2. IsFiniteSet(0..9)
    <3>1. \A n \in Int : IsFiniteSet(0..n)
      BY FS_Interval
    <3>2. 9 \in Int
      OBVIOUS
    <3> QED
      BY <3>1, <3>2, Zenon
  <2> QED
    BY <2>1, <2>2 DEF Bins
<1>2. \A U \in SUBSET T : IsFiniteSet(U) /\ Cardinality(U) \in Nat
  BY <1>1, FS_Subset, FS_CardinalityType
<1>3. \A U \in SUBSET T : \A b \in Bins : InBin(U, b) \in SUBSET U
  BY DEF InBin
<1>4. \A U \in SUBSET T : \A b \in Bins : Cardinality(InBin(U, b)) \in Nat
  BY <1>2, <1>3
<1>5. {} \in Good
  <2>1. \A b \in Bins : InBin({}, b) = {}
    BY DEF InBin
  <2>2. \A b \in Bins : counts({})[b] = 0
    BY <2>1, FS_EmptySet
  <2> HIDE DEF counts
  <2>3. SumFunctionOnSet(counts({}), Bins) = 0
    BY <1>1, <2>2, SumZero
  <2> QED
    BY <2>3, FS_EmptySet
<1>6. ASSUME NEW U \in SUBSET T, NEW x \in T \ U, U \in Good
      PROVE  U \cup {x} \in Good
  <2> DEFINE V == U \cup {x}
             c == BinOf(ProbYes[x])
  <2>1. V \in SUBSET T /\ x \in Trades
    OBVIOUS
  <2>2. c \in Bins
    BY <2>1, BinHolds, EvalAssumption
  <2>3. InBin(V, c) = InBin(U, c) \cup {x} /\ x \notin InBin(U, c)
    BY DEF InBin
  <2>4. \A b \in Bins \ {c} : InBin(V, b) = InBin(U, b)
    BY DEF InBin
  <2>5. IsFiniteSet(InBin(U, c))
    BY <1>2, <1>3, <2>2, FS_Subset
  <2> HIDE DEF V, c
  <2>6. Cardinality(InBin(V, c)) = Cardinality(InBin(U, c)) + 1
    BY <2>3, <2>5, FS_AddElement
  <2>7. \A b \in Bins : counts(U)[b] = Cardinality(InBin(U, b))
                        /\ counts(V)[b] = Cardinality(InBin(V, b))
    OBVIOUS
  <2>8. /\ \A b \in Bins : counts(U)[b] \in Int
        /\ counts(V)[c] \in Int /\ counts(V)[c] - counts(U)[c] = 1
        /\ \A b \in Bins \ {c} : counts(V)[b] = counts(U)[b]
    BY <1>4, <2>1, <2>2, <2>4, <2>6, <2>7
  <2> HIDE DEF counts
  <2>9. SumFunctionOnSet(counts(V), Bins)
          = SumFunctionOnSet(counts(U), Bins) + (counts(V)[c] - counts(U)[c])
    BY <1>1, <2>2, <2>8, SumUpdate
  <2>10. Cardinality(V) = Cardinality(U) + 1
    BY <1>2, FS_AddElement DEF V
  <2>11. SumFunctionOnSet(counts(V), Bins) = Cardinality(V)
    BY <1>6, <2>8, <2>9, <2>10
  <2> QED
    BY <2>1, <2>11 DEF V
<1>7. T \in Good
  <2> HIDE DEF Good
  <2>1. SUBSET T \subseteq Good
    BY <1>1, <1>5, <1>6, SubsetInduct
  <2> QED
    BY <2>1
<1> QED
  BY <1>7

\* compute_metrics of resolved trades and balances makes numbers, and its bins
\* count its trades.
LEMMA MetricsFacts ==
  ASSUME NEW rows, NEW T \in SUBSET Trades, \A t \in T : rows[t].pnl \in Int,
         NEW balances \in Seq(Int)
  PROVE  LET m == MetricsOf(rows, T, balances)
         IN  m \in Metrics /\ SumFunctionOnSet(m.bins, Bins) = m.n
<1> DEFINE m == MetricsOf(rows, T, balances)
           wins == {t \in T : rows[t].pnl > 0}
           bins == [b \in Bins |-> Cardinality(InBin(T, b))]
           pnl == SumFunctionOnSet([t \in T |-> rows[t].pnl], T)
<1>1. \A U \in SUBSET T : IsFiniteSet(U) /\ Cardinality(U) \in Nat
  BY EvalAssumption, FS_Subset, FS_CardinalityType
<1>2. Cardinality(T) \in Nat /\ Cardinality(wins) \in Nat /\ IsFiniteSet(T)
  BY <1>1
<1>3. pnl \in Int
  <2> DEFINE f == [t \in T |-> rows[t].pnl]
  <2>1. \A t \in T : f[t] \in Int
    OBVIOUS
  <2> HIDE DEF f
  <2>2. SumFunctionOnSet(f, T) \in Int
    BY <1>2, <2>1, SumInt
  <2> QED
    BY <2>2 DEF f
<1>4. bins \in [Bins -> Nat]
  <2>1. \A b \in Bins : InBin(T, b) \in SUBSET T
    BY DEF InBin
  <2> QED
    BY <1>1, <2>1
<1>5. MaxDrawdown(balances) \in Nat
  BY DrawdownNat
<1>6. SumFunctionOnSet(bins, Bins) = Cardinality(T)
  BY BinsCount
<1>7. m = [n |-> Cardinality(T), wins |-> Cardinality(wins), pnl |-> pnl,
           drawdown |-> MaxDrawdown(balances), bins |-> bins]
  BY DEF MetricsOf, InBin
<1> HIDE DEF m, wins, bins, pnl
<1>8. m \in Metrics
  BY <1>2, <1>3, <1>4, <1>5, <1>7 DEF Metrics
<1>9. m.bins = bins /\ m.n = Cardinality(T)
  BY <1>7
<1> QED
  BY <1>6, <1>8, <1>9 DEF m

\* What WindowsNest and BinsPartition say of the rows of a snapshot.
Narrower(short, long) ==
    /\ short.n <= long.n /\ short.wins <= long.wins
    /\ short.drawdown <= long.drawdown
    /\ \A b \in Bins : short.bins[b] <= long.bins[b]

Sound(rows) ==
    /\ Narrower(rows["7d"], rows["30d"]) /\ Narrower(rows["30d"], rows["all"])
    /\ \A w \in EVAL_WINDOWS : SumFunctionOnSet(rows[w].bins, Bins) = rows[w].n

\* What the resolved trades realized.
PnlOf(rows) == SumFunctionOnSet([t \in Records(rows) |-> rows[t].pnl], Records(rows))

\* Fewer trades and a smaller fall make a narrower row.
LEMMA MetricsNest ==
  ASSUME NEW rows, NEW T \in SUBSET Trades, NEW S \in SUBSET T, NEW b, NEW c,
         MaxDrawdown(b) <= MaxDrawdown(c)
  PROVE  Narrower(MetricsOf(rows, S, b), MetricsOf(rows, T, c))
<1>1. IsFiniteSet(T)
  BY EvalAssumption, FS_Subset
<1>2. Cardinality(S) <= Cardinality(T)
  BY <1>1, FS_Subset
<1>3. Cardinality({t \in S : rows[t].pnl > 0}) <= Cardinality({t \in T : rows[t].pnl > 0})
  <2> DEFINE U == {t \in S : rows[t].pnl > 0}
             V == {t \in T : rows[t].pnl > 0}
  <2>1. U \in SUBSET V /\ V \in SUBSET T
    OBVIOUS
  <2> HIDE DEF U, V
  <2>2. Cardinality(U) <= Cardinality(V)
    BY <1>1, <2>1, FS_Subset
  <2> QED
    BY <2>2 DEF U, V
<1>4. ASSUME NEW k \in Bins
      PROVE  Cardinality({t \in S : BinOf(ProbYes[t]) = k})
               <= Cardinality({t \in T : BinOf(ProbYes[t]) = k})
  <2> DEFINE U == {t \in S : BinOf(ProbYes[t]) = k}
             V == {t \in T : BinOf(ProbYes[t]) = k}
  <2>1. U \in SUBSET V /\ V \in SUBSET T
    OBVIOUS
  <2> HIDE DEF U, V
  <2>2. Cardinality(U) <= Cardinality(V)
    BY <1>1, <2>1, FS_Subset
  <2> QED
    BY <2>2 DEF U, V
<1> QED
  BY <1>2, <1>3, <1>4 DEF Narrower, MetricsOf

\* The windows are nested: what 7 days hold, 30 days hold, and all.
LEMMA WindowsWiden ==
  ASSUME NEW at \in Int, NEW time \in Int
  PROVE  /\ InWindow(at, "7d", time) => InWindow(at, "30d", time)
         /\ InWindow(at, "30d", time) => InWindow(at, "all", time)
<1>1. WindowLength["7d"] \in Nat /\ WindowLength["30d"] \in Nat
      /\ WindowLength["7d"] <= WindowLength["30d"]
  BY EvalAssumption
<1> QED
  BY <1>1 DEF InWindow

\* Of a snapshot s, that it is one, dated time, made from the trades of rows.
MadeFrom(s, by, time, rows) ==
    /\ s \in Snapshot /\ Sound(s.rows)
    /\ s.at = time /\ s.by = by /\ s.of = Records(rows)
    /\ s.rows["all"].pnl = PnlOf(rows)

\* recompute_strategy writes three rows of one time and one set of trades, which
\* nest and whose bins add up; the row of all time sums what the trades realized.
LEMMA RecomputedSound ==
  ASSUME NEW by \in {"tick", "nightly"}, NEW time \in Nat \cup {Never},
         NEW rows \in [Trades -> Trade], NEW events \in Seq(CashEvent)
  PROVE  MadeFrom(Recomputed(by, time, rows, events), by, time, rows)
<1> DEFINE s == Recomputed(by, time, rows, events)
           held(w) == {t \in Records(rows) : InWindow(rows[t].closedAt, w, time)}
           balances(w) == BalancesIn(events, w, time)
<1>1. time \in Int /\ \A t \in Trades : rows[t].pnl \in Int /\ rows[t].closedAt \in Int
  BY DEF Trade, Never
<1>2. \A i \in 1..Len(events) : events[i].at \in Int
  <2>1. \A i \in 1..Len(events) : events[i] \in CashEvent
    OBVIOUS
  <2> QED
    BY <2>1 DEF CashEvent
<1>3. \A w : balances(w) \in Seq(Int)
  BY BalancesType
<1>4. \A w : held(w) \in SUBSET Trades
  BY DEF Records
<1>5. \A w \in EVAL_WINDOWS : s.rows[w] = MetricsOf(rows, held(w), balances(w))
  BY DEF Recomputed
<1>6. s.at = time /\ s.by = by /\ s.of = Records(rows)
  BY DEF Recomputed
<1>7. s = [at |-> s.at, by |-> s.by, of |-> s.of, rows |-> s.rows]
      /\ s.rows = [w \in EVAL_WINDOWS |-> s.rows[w]]
  BY DEF Recomputed
<1>8. held("7d") \in SUBSET held("30d") /\ held("30d") \in SUBSET held("all")
  BY <1>1, WindowsWiden DEF Records
<1>9. MaxDrawdown(balances("7d")) <= MaxDrawdown(balances("30d"))
  BY <1>1, <1>2, WindowsWiden, DrawdownNests
<1>10. MaxDrawdown(balances("30d")) <= MaxDrawdown(balances("all"))
  BY <1>1, <1>2, WindowsWiden, DrawdownNests
<1>11. held("all") = Records(rows)
  BY DEF InWindow
<1> HIDE DEF s, balances, held
<1>12. ASSUME NEW w \in EVAL_WINDOWS
       PROVE  s.rows[w] \in Metrics /\ SumFunctionOnSet(s.rows[w].bins, Bins) = s.rows[w].n
  BY <1>1, <1>3, <1>4, <1>5, MetricsFacts
<1>13. s \in Snapshot
  <2>1. s.rows \in [EVAL_WINDOWS -> Metrics]
    BY <1>7, <1>12
  <2>2. Records(rows) \in SUBSET Trades
    BY DEF Records
  <2> QED
    BY <1>6, <1>7, <2>1, <2>2 DEF Snapshot
<1>14. Narrower(s.rows["7d"], s.rows["30d"])
  <2>1. Narrower(MetricsOf(rows, held("7d"), balances("7d")),
                 MetricsOf(rows, held("30d"), balances("30d")))
    BY <1>4, <1>8, <1>9, MetricsNest
  <2> QED
    BY <2>1, <1>5 DEF EVAL_WINDOWS
<1>15. Narrower(s.rows["30d"], s.rows["all"])
  <2>1. Narrower(MetricsOf(rows, held("30d"), balances("30d")),
                 MetricsOf(rows, held("all"), balances("all")))
    BY <1>4, <1>8, <1>10, MetricsNest
  <2> QED
    BY <2>1, <1>5 DEF EVAL_WINDOWS
<1>16. s.rows["all"].pnl = PnlOf(rows)
  BY <1>5, <1>11 DEF MetricsOf, PnlOf, EVAL_WINDOWS
<1> QED
  BY <1>6, <1>12, <1>13, <1>14, <1>15, <1>16 DEF Sound, MadeFrom, s

\* Before the first rows there is nothing to disagree about.
LEMMA EmptySound == EmptySnapshot \in Snapshot /\ Sound(EmptySnapshot.rows)
<1> DEFINE m == MetricsOf(<<>>, {}, <<>>)
<1>1. m \in Metrics /\ SumFunctionOnSet(m.bins, Bins) = m.n
  <2>1. {} \in SUBSET Trades /\ <<>> \in Seq(Int)
    OBVIOUS
  <2> QED
    BY <2>1, MetricsFacts
<1>2. Narrower(m, m)
  <2>1. m.n \in Nat /\ m.wins \in Nat /\ m.drawdown \in Nat /\ \A b \in Bins : m.bins[b] \in Nat
    BY <1>1 DEF Metrics
  <2> HIDE DEF m
  <2> QED
    BY <2>1 DEF Narrower
<1> HIDE DEF m
<1>3. /\ EmptySnapshot = [at |-> Never, by |-> None, of |-> {},
                          rows |-> [w \in EVAL_WINDOWS |-> m]]
      /\ \A w \in EVAL_WINDOWS : EmptySnapshot.rows[w] = m
  BY DEF EmptySnapshot, m
<1>4. EmptySnapshot \in Snapshot
  BY <1>1, <1>3 DEF Snapshot
<1>5. Sound(EmptySnapshot.rows)
  BY <1>1, <1>2, <1>3 DEF Sound, EVAL_WINDOWS
<1> QED
  BY <1>4, <1>5

-----------------------------------------------------------------------------
(* The inductive invariant. *)

\* The journal starts with the first deposit.
CashStarted == cash # <<>> /\ (tick.pc = "settled" => tick.cash # <<>>)

\* No two transactions have the same time, and a tick is later than the ticks
\* whose rows are shown.
ClockAhead ==
    /\ shown.at <= now
    /\ shown.by = None => shown.at = Never
    /\ tick.pc # "idle" =>
          /\ tick.at \in 0..now /\ tick.at # shown.at
          /\ shown.by = "tick" => shown.at < tick.at
    /\ nightly.pc # "idle" => nightly.at \in 0..now
    /\ tick.pc # "idle" /\ nightly.pc # "idle" => tick.at # nightly.at

\* A resolved trade was settled by a tick no later than the rows shown, which
\* committed after it had begun.
TradesDated ==
    \A t \in Records(trade) :
        /\ trade[t].tickAt <= shown.at
        /\ trade[t].tickAt < trade[t].committedAt /\ trade[t].committedAt <= now

\* What a tick has settled is what is committed, and more.
TickExtends ==
    tick.pc = "settled" =>
        /\ tick.snapshot.at = tick.at /\ tick.snapshot.by = "tick"
        /\ tick.snapshot.of = Records(tick.trade)
        /\ \A t \in Trades :
              IF trade[t].result # None THEN tick.trade[t] = trade[t]
              ELSE tick.trade[t].result # None => tick.trade[t].tickAt = tick.at

\* What the nightly has not read was committed after it started.
NightlyMissesLater ==
    /\ nightly.pc = "read" =>
          \A t \in Records(trade) \ Records(nightly.trade) :
              nightly.at < trade[t].committedAt
    /\ nightly.pc = "computed" =>
          /\ nightly.snapshot.at = nightly.at /\ nightly.snapshot.by = "nightly"
          /\ \A t \in Records(trade) \ nightly.snapshot.of :
                 nightly.at < trade[t].committedAt

\* The journal posts what the resolved trades realized, the voids' nothing.
JournalShown ==
    /\ PnlOf(trade) = PnlPosted(cash)
    /\ tick.pc = "settled" =>
          /\ PnlOf(tick.trade) = PnlPosted(tick.cash)
          /\ tick.snapshot.rows["all"].pnl = PnlPosted(tick.cash)

\* The rows shown, and those about to be, nest and add up.
RowsSound == Sound(shown.rows) /\ Sound(tick.snapshot.rows) /\ Sound(nightly.snapshot.rows)

\* The inductive invariant.
EvalInv ==
    /\ TypeOK /\ CashStarted /\ ClockAhead /\ TradesDated /\ TickExtends
    /\ NightlyMissesLater /\ JournalShown /\ RowsSound /\ MissedOnlyByOverlap

\* Transactions that have not begun.
LEMMA IdleFacts ==
  /\ IdleTick.pc = "idle" /\ IdleNightly.pc = "idle"
  /\ IdleTick \in [pc : {"idle", "began", "settled"}, at : Nat \cup {Never},
                   trade : [Trades -> Trade], cash : Seq(CashEvent), snapshot : Snapshot]
  /\ IdleNightly \in [pc : {"idle", "began", "read", "computed"}, at : Nat \cup {Never},
                      trade : [Trades -> Trade], snapshot : Snapshot]
  /\ Sound(IdleTick.snapshot.rows) /\ Sound(IdleNightly.snapshot.rows)
<1>1. OpenTrade \in Trade
  BY DEF OpenTrade, Trade, Never, None
<1>2. [t \in Trades |-> OpenTrade] \in [Trades -> Trade] /\ <<>> \in Seq(CashEvent)
  BY <1>1
<1> QED
  BY <1>2, EmptySound DEF IdleTick, IdleNightly

\* The database as the seeding leaves it.
LEMMA InitEval == Init => EvalInv
<1> SUFFICES ASSUME Init PROVE EvalInv
  OBVIOUS
<1>1. /\ now = 0 /\ trade = [t \in Trades |-> OpenTrade] /\ shown = EmptySnapshot
      /\ tick = IdleTick /\ nightly = IdleNightly
  BY DEF Init
<1>2. PICK amount \in Amounts :
         cash = <<[at |-> 0, balance |-> amount, pnl |-> 0, move |-> FALSE]>>
  BY DEF Init
<1>3. OpenTrade \in Trade /\ OpenTrade.result = None
  BY DEF OpenTrade, Trade, Never, None
<1>4. Records(trade) = {}
  BY <1>1, <1>3 DEF Records
<1>5. MaxTime \in Nat /\ amount \in Nat
  BY EvalAssumption
<1>6. cash \in Seq(CashEvent) /\ Len(cash) = 1 /\ cash[1].pnl = 0 /\ cash # <<>>
  <2> DEFINE e == [at |-> 0, balance |-> amount, pnl |-> 0, move |-> FALSE]
  <2>1. e \in CashEvent /\ e.pnl = 0
    BY <1>5 DEF CashEvent
  <2>2. cash = <<e>>
    BY <1>2
  <2> HIDE DEF e
  <2> QED
    BY <2>1, <2>2
<1>7. TypeOK
  BY <1>1, <1>3, <1>5, <1>6, EmptySound, IdleFacts DEF TypeOK
<1>8. shown.at = Never /\ shown.by = None
  BY <1>1 DEF EmptySnapshot
<1>9. JournalShown
  <2>1. PnlOf(trade) = 0
    BY <1>4, SumEmpty DEF PnlOf
  <2> DEFINE f == [i \in 1..1 |-> cash[i].pnl]
  <2>2. IsFiniteSet(1..1) /\ \A i \in 1..1 : f[i] = 0
    BY <1>6, FS_Interval
  <2> HIDE DEF f
  <2>3. SumFunctionOnSet(f, 1..1) = 0
    BY <2>2, SumZero
  <2>4. PnlPosted(cash) = 0
    BY <1>6, <2>3 DEF PnlPosted, f
  <2> QED
    BY <1>1, <2>1, <2>4, IdleFacts DEF JournalShown
<1>10. RowsSound
  BY <1>1, EmptySound, IdleFacts DEF RowsSound
<1>11. CashStarted /\ ClockAhead /\ TickExtends /\ NightlyMissesLater
  BY <1>1, <1>6, <1>8, IdleFacts DEF CashStarted, ClockAhead, TickExtends, NightlyMissesLater,
     Never
<1>12. TradesDated /\ MissedOnlyByOverlap
  BY <1>4 DEF TradesDated, MissedOnlyByOverlap
<1> QED
  BY <1>7, <1>9, <1>10, <1>11, <1>12 DEF EvalInv

\* The clock goes on by one.
LEMMA ClockGoesOn ==
  ASSUME TypeOK, ReadClock
  PROVE  /\ now \in Nat /\ now' = now + 1 /\ now' \in 0..MaxTime
         /\ shown.at \in Int /\ tick.at \in Int /\ nightly.at \in Int
BY EvalAssumption DEF TypeOK, ReadClock, Snapshot, Never

\* A deposit or withdrawal realizes nothing.
LEMMA MoveCashEval == EvalInv /\ MoveCash => EvalInv'
<1> SUFFICES ASSUME EvalInv, MoveCash PROVE EvalInv'
  OBVIOUS
<1>1. /\ TypeOK /\ CashStarted /\ ClockAhead /\ TradesDated /\ TickExtends
      /\ NightlyMissesLater /\ JournalShown /\ RowsSound /\ MissedOnlyByOverlap
  BY DEF EvalInv
<1>2. ReadClock /\ tick.pc # "settled" /\ UNCHANGED <<trade, shown, tick, nightly>>
  BY DEF MoveCash
<1>3. PICK amount \in Amounts \cup {-a : a \in Amounts} :
         cash' = Append(cash, [at |-> now', balance |-> Balance(cash) + amount, pnl |-> 0,
                               move |-> TRUE])
  BY DEF MoveCash
<1>4. /\ now \in Nat /\ now' = now + 1 /\ now' \in 0..MaxTime
      /\ shown.at \in Int /\ tick.at \in Int /\ nightly.at \in Int
  BY <1>1, <1>2, ClockGoesOn
<1>5. amount \in Int
  BY EvalAssumption
<1>6. cash \in Seq(CashEvent) /\ cash # <<>>
  BY <1>1 DEF TypeOK, CashStarted
<1> DEFINE e == [at |-> now', balance |-> Balance(cash) + amount, pnl |-> 0, move |-> TRUE]
<1>7. e \in CashEvent /\ e.pnl = 0
  <2>1. Len(cash) \in 1..Len(cash)
    BY <1>6
  <2>2. cash[Len(cash)] \in CashEvent
    BY <1>6, <2>1
  <2> QED
    BY <1>4, <1>5, <2>2 DEF CashEvent, Balance
<1>8. cash' = Append(cash, e)
  BY <1>3
<1> HIDE DEF e
<1>9. cash' \in Seq(CashEvent) /\ cash' # <<>>
  <2>1. cash' \in Seq(CashEvent) /\ Len(cash') = Len(cash) + 1 /\ Len(cash) \in Nat
    BY <1>6, <1>7, <1>8
  <2> QED
    BY <2>1
<1>10. PnlPosted(cash') = PnlPosted(cash)
  BY <1>6, <1>7, <1>8, PnlAppend, PnlInt
<1>11. TypeOK'
  BY <1>1, <1>2, <1>4, <1>9 DEF TypeOK
<1>12. CashStarted'
  BY <1>2, <1>9 DEF CashStarted
<1>13. ClockAhead'
  BY <1>1, <1>2, <1>4 DEF ClockAhead
<1>14. TradesDated'
  <2>1. \A t \in Trades : trade[t].committedAt \in Int
    BY <1>1 DEF TypeOK, Trade, Never
  <2> QED
    BY <1>1, <1>2, <1>4, <2>1 DEF TradesDated, Records
<1>15. TickExtends' /\ NightlyMissesLater' /\ RowsSound' /\ MissedOnlyByOverlap'
  BY <1>1, <1>2 DEF TickExtends, NightlyMissesLater, RowsSound, MissedOnlyByOverlap, Records
<1>16. JournalShown'
  BY <1>1, <1>2, <1>10 DEF JournalShown, PnlOf, Records
<1> QED
  BY <1>11, <1>12, <1>13, <1>14, <1>15, <1>16 DEF EvalInv

\* A tick begins at a time of its own.
LEMMA TickBeginEval == EvalInv /\ TickBegin => EvalInv'
<1> SUFFICES ASSUME EvalInv, TickBegin PROVE EvalInv'
  OBVIOUS
<1>1. /\ TypeOK /\ CashStarted /\ ClockAhead /\ TradesDated /\ TickExtends
      /\ NightlyMissesLater /\ JournalShown /\ RowsSound /\ MissedOnlyByOverlap
  BY DEF EvalInv
<1>2. /\ ReadClock /\ tick' = [IdleTick EXCEPT !.pc = "began", !.at = now']
      /\ UNCHANGED <<trade, cash, shown, nightly>>
  BY DEF TickBegin
<1>3. /\ now \in Nat /\ now' = now + 1 /\ now' \in 0..MaxTime
      /\ shown.at \in Int /\ tick.at \in Int /\ nightly.at \in Int
  BY <1>1, <1>2, ClockGoesOn
<1>4. /\ tick' \in [pc : {"idle", "began", "settled"}, at : Nat \cup {Never},
                    trade : [Trades -> Trade], cash : Seq(CashEvent), snapshot : Snapshot]
      /\ tick'.pc = "began" /\ tick'.at = now' /\ Sound(tick'.snapshot.rows)
  <2> DEFINE Ticks == [pc : {"idle", "began", "settled"}, at : Nat \cup {Never},
                       trade : [Trades -> Trade], cash : Seq(CashEvent), snapshot : Snapshot]
  <2>1. IdleTick \in Ticks /\ Sound(IdleTick.snapshot.rows)
    BY IdleFacts
  <2>2. now' \in Nat
    BY <1>3
  <2>3. tick' \in Ticks /\ tick'.pc = "began" /\ tick'.at = now'
        /\ tick'.snapshot = IdleTick.snapshot
    BY <1>2, <2>1, <2>2
  <2> QED
    BY <2>1, <2>3
<1>5. TypeOK'
  BY <1>1, <1>2, <1>3, <1>4 DEF TypeOK
<1>6. CashStarted' /\ TickExtends' /\ JournalShown'
  BY <1>1, <1>2, <1>4 DEF CashStarted, TickExtends, JournalShown, PnlOf, Records
<1>7. ClockAhead'
  <2>1. shown.at <= now
    BY <1>1 DEF ClockAhead
  <2>2. now' # shown.at /\ shown.at < now' /\ now' \in 0..now'
    BY <1>3, <2>1
  <2>3. nightly.pc # "idle" => nightly.at \in 0..now' /\ nightly.at # now'
    BY <1>1, <1>3 DEF ClockAhead
  <2> QED
    BY <1>1, <1>2, <1>3, <1>4, <2>1, <2>2, <2>3 DEF ClockAhead
<1>8. TradesDated'
  <2>1. \A t \in Trades : trade[t].committedAt \in Int
    BY <1>1 DEF TypeOK, Trade, Never
  <2> QED
    BY <1>1, <1>2, <1>3, <2>1 DEF TradesDated, Records
<1>9. NightlyMissesLater' /\ MissedOnlyByOverlap'
  BY <1>1, <1>2 DEF NightlyMissesLater, MissedOnlyByOverlap, Records
<1>10. RowsSound'
  BY <1>1, <1>2, <1>4 DEF RowsSound
<1> QED
  BY <1>5, <1>6, <1>7, <1>8, <1>9, <1>10 DEF EvalInv

\* A tick that fails leaves no trace.
LEMMA TickAbortsEval == EvalInv /\ TickAborts => EvalInv'
<1> SUFFICES ASSUME EvalInv, TickAborts PROVE EvalInv'
  OBVIOUS
<1>1. /\ TypeOK /\ CashStarted /\ ClockAhead /\ TradesDated /\ TickExtends
      /\ NightlyMissesLater /\ JournalShown /\ RowsSound /\ MissedOnlyByOverlap
  BY DEF EvalInv
<1>2. tick' = IdleTick /\ UNCHANGED <<now, trade, cash, shown, nightly>>
  BY DEF TickAborts
<1>3. TypeOK'
  BY <1>1, <1>2, IdleFacts DEF TypeOK
<1>4. CashStarted' /\ ClockAhead' /\ TickExtends' /\ JournalShown' /\ RowsSound'
  BY <1>1, <1>2, IdleFacts DEF CashStarted, ClockAhead, TickExtends, JournalShown, RowsSound,
     PnlOf, Records
<1>5. TradesDated' /\ NightlyMissesLater' /\ MissedOnlyByOverlap'
  BY <1>1, <1>2 DEF TradesDated, NightlyMissesLater, MissedOnlyByOverlap, Records
<1> QED
  BY <1>3, <1>4, <1>5 DEF EvalInv

\* The nightly begins at a time of its own.
LEMMA NightlyBeginEval == EvalInv /\ NightlyBegin => EvalInv'
<1> SUFFICES ASSUME EvalInv, NightlyBegin PROVE EvalInv'
  OBVIOUS
<1>1. /\ TypeOK /\ CashStarted /\ ClockAhead /\ TradesDated /\ TickExtends
      /\ NightlyMissesLater /\ JournalShown /\ RowsSound /\ MissedOnlyByOverlap
  BY DEF EvalInv
<1>2. /\ ReadClock /\ nightly' = [nightly EXCEPT !.pc = "began", !.at = now']
      /\ UNCHANGED <<trade, cash, shown, tick>>
  BY DEF NightlyBegin
<1>3. /\ now \in Nat /\ now' = now + 1 /\ now' \in 0..MaxTime
      /\ shown.at \in Int /\ tick.at \in Int /\ nightly.at \in Int
  BY <1>1, <1>2, ClockGoesOn
<1>4. /\ nightly' \in [pc : {"idle", "began", "read", "computed"}, at : Nat \cup {Never},
                       trade : [Trades -> Trade], snapshot : Snapshot]
      /\ nightly'.pc = "began" /\ nightly'.at = now'
      /\ nightly'.snapshot = nightly.snapshot
  <2>1. nightly \in [pc : {"idle", "began", "read", "computed"}, at : Nat \cup {Never},
                     trade : [Trades -> Trade], snapshot : Snapshot]
    BY <1>1 DEF TypeOK
  <2>2. now' \in Nat
    BY <1>3
  <2> QED
    BY <1>2, <2>1, <2>2
<1>5. TypeOK'
  BY <1>1, <1>2, <1>3, <1>4 DEF TypeOK
<1>6. CashStarted' /\ TickExtends' /\ JournalShown' /\ RowsSound'
  BY <1>1, <1>2, <1>4 DEF CashStarted, TickExtends, JournalShown, PnlOf, Records, RowsSound
<1>7. ClockAhead'
  <2>1. tick.pc # "idle" => tick.at \in 0..now' /\ tick.at # now'
    BY <1>1, <1>3 DEF ClockAhead
  <2>2. shown.at <= now' /\ now' \in 0..now'
    BY <1>1, <1>3 DEF ClockAhead
  <2> QED
    BY <1>1, <1>2, <1>4, <2>1, <2>2 DEF ClockAhead
<1>8. TradesDated'
  <2>1. \A t \in Trades : trade[t].committedAt \in Int
    BY <1>1 DEF TypeOK, Trade, Never
  <2> QED
    BY <1>1, <1>2, <1>3, <2>1 DEF TradesDated, Records
<1>9. NightlyMissesLater' /\ MissedOnlyByOverlap'
  BY <1>1, <1>2, <1>4 DEF NightlyMissesLater, MissedOnlyByOverlap, Records
<1> QED
  BY <1>5, <1>6, <1>7, <1>8, <1>9 DEF EvalInv

\* A nightly that fails leaves no trace.
LEMMA NightlyAbortsEval == EvalInv /\ NightlyAborts => EvalInv'
<1> SUFFICES ASSUME EvalInv, NightlyAborts PROVE EvalInv'
  OBVIOUS
<1>1. /\ TypeOK /\ CashStarted /\ ClockAhead /\ TradesDated /\ TickExtends
      /\ NightlyMissesLater /\ JournalShown /\ RowsSound /\ MissedOnlyByOverlap
  BY DEF EvalInv
<1>2. nightly' = IdleNightly /\ UNCHANGED <<now, trade, cash, shown, tick>>
  BY DEF NightlyAborts
<1>3. TypeOK'
  BY <1>1, <1>2, IdleFacts DEF TypeOK
<1>4. ClockAhead' /\ NightlyMissesLater' /\ RowsSound'
  BY <1>1, <1>2, IdleFacts DEF ClockAhead, NightlyMissesLater, RowsSound
<1>5. CashStarted' /\ TickExtends' /\ JournalShown' /\ TradesDated' /\ MissedOnlyByOverlap'
  BY <1>1, <1>2 DEF CashStarted, TickExtends, JournalShown, TradesDated, MissedOnlyByOverlap,
     PnlOf, Records
<1> QED
  BY <1>3, <1>4, <1>5 DEF EvalInv

\* The nightly reads the committed trades: it misses none yet.
LEMMA NightlyReadTradesEval == EvalInv /\ NightlyReadTrades => EvalInv'
<1> SUFFICES ASSUME EvalInv, NightlyReadTrades PROVE EvalInv'
  OBVIOUS
<1>1. /\ TypeOK /\ CashStarted /\ ClockAhead /\ TradesDated /\ TickExtends
      /\ NightlyMissesLater /\ JournalShown /\ RowsSound /\ MissedOnlyByOverlap
  BY DEF EvalInv
<1>2. /\ nightly.pc = "began" /\ nightly' = [nightly EXCEPT !.pc = "read", !.trade = trade]
      /\ UNCHANGED <<now, trade, cash, shown, tick>>
  BY DEF NightlyReadTrades
<1>3. /\ nightly' \in [pc : {"idle", "began", "read", "computed"}, at : Nat \cup {Never},
                       trade : [Trades -> Trade], snapshot : Snapshot]
      /\ nightly'.pc = "read" /\ nightly'.at = nightly.at
      /\ nightly'.trade = trade /\ nightly'.snapshot = nightly.snapshot
  BY <1>1, <1>2 DEF TypeOK
<1>4. TypeOK'
  BY <1>1, <1>2, <1>3 DEF TypeOK
<1>5. ClockAhead' /\ NightlyMissesLater' /\ RowsSound'
  BY <1>1, <1>2, <1>3 DEF ClockAhead, NightlyMissesLater, RowsSound, Records
<1>6. CashStarted' /\ TickExtends' /\ JournalShown' /\ TradesDated' /\ MissedOnlyByOverlap'
  BY <1>1, <1>2 DEF CashStarted, TickExtends, JournalShown, TradesDated, MissedOnlyByOverlap,
     PnlOf, Records
<1> QED
  BY <1>4, <1>5, <1>6 DEF EvalInv

\* It computes rows of the trades it has read.
LEMMA NightlyReadCashEval == EvalInv /\ NightlyReadCash => EvalInv'
<1> SUFFICES ASSUME EvalInv, NightlyReadCash PROVE EvalInv'
  OBVIOUS
<1>1. /\ TypeOK /\ CashStarted /\ ClockAhead /\ TradesDated /\ TickExtends
      /\ NightlyMissesLater /\ JournalShown /\ RowsSound /\ MissedOnlyByOverlap
  BY DEF EvalInv
<1> DEFINE s == Recomputed("nightly", nightly.at, nightly.trade, cash)
<1>2. /\ nightly.pc = "read"
      /\ nightly' = [nightly EXCEPT !.pc = "computed", !.snapshot = s]
      /\ UNCHANGED <<now, trade, cash, shown, tick>>
  BY DEF NightlyReadCash, DatedAtStart
<1>3. /\ s \in Snapshot /\ Sound(s.rows)
      /\ s.at = nightly.at /\ s.by = "nightly" /\ s.of = Records(nightly.trade)
  <2>1. /\ nightly.at \in Nat \cup {Never} /\ nightly.trade \in [Trades -> Trade]
        /\ cash \in Seq(CashEvent) /\ "nightly" \in {"tick", "nightly"}
    BY <1>1 DEF TypeOK
  <2>2. MadeFrom(s, "nightly", nightly.at, nightly.trade)
    BY <2>1, RecomputedSound
  <2> QED
    BY <2>2 DEF MadeFrom
<1> HIDE DEF s
<1>4. /\ nightly' \in [pc : {"idle", "began", "read", "computed"}, at : Nat \cup {Never},
                       trade : [Trades -> Trade], snapshot : Snapshot]
      /\ nightly'.pc = "computed" /\ nightly'.at = nightly.at /\ nightly'.snapshot = s
  BY <1>1, <1>2, <1>3 DEF TypeOK
<1>5. TypeOK'
  BY <1>1, <1>2, <1>4 DEF TypeOK
<1>6. ClockAhead' /\ RowsSound'
  BY <1>1, <1>2, <1>3, <1>4 DEF ClockAhead, RowsSound
<1>7. NightlyMissesLater'
  BY <1>1, <1>2, <1>3, <1>4 DEF NightlyMissesLater, Records
<1>8. CashStarted' /\ TickExtends' /\ JournalShown' /\ TradesDated' /\ MissedOnlyByOverlap'
  BY <1>1, <1>2 DEF CashStarted, TickExtends, JournalShown, TradesDated, MissedOnlyByOverlap,
     PnlOf, Records
<1> QED
  BY <1>5, <1>6, <1>7, <1>8 DEF EvalInv

\* Its rows are shown when they are later than those shown: what they miss, an
\* earlier tick settled and committed after the nightly started.
LEMMA NightlyCommitEval == EvalInv /\ NightlyCommit => EvalInv'
<1> SUFFICES ASSUME EvalInv, NightlyCommit PROVE EvalInv'
  OBVIOUS
<1>1. /\ TypeOK /\ CashStarted /\ ClockAhead /\ TradesDated /\ TickExtends
      /\ NightlyMissesLater /\ JournalShown /\ RowsSound /\ MissedOnlyByOverlap
  BY DEF EvalInv
<1>2. /\ nightly.pc = "computed" /\ shown' = Latest(shown, nightly.snapshot)
      /\ nightly' = IdleNightly /\ UNCHANGED <<now, trade, cash, tick>>
  BY DEF NightlyCommit
<1>3. nightly.snapshot.at = nightly.at /\ nightly.snapshot.by = "nightly"
  BY <1>1, <1>2 DEF NightlyMissesLater
<1>4. /\ now \in Int /\ shown.at \in Int /\ nightly.at \in 0..now
      /\ nightly.snapshot \in Snapshot /\ tick.at \in Int
      /\ \A t \in Trades : trade[t].tickAt \in Int /\ trade[t].committedAt \in Int
  BY <1>1, <1>2 DEF TypeOK, ClockAhead, Snapshot, Trade, Never
<1>5. TypeOK'
  BY <1>1, <1>2, <1>4, IdleFacts DEF TypeOK, Latest
<1>6. RowsSound'
  BY <1>1, <1>2, IdleFacts DEF RowsSound, Latest
<1>7. CashStarted' /\ TickExtends' /\ JournalShown' /\ NightlyMissesLater'
  BY <1>1, <1>2, IdleFacts DEF CashStarted, TickExtends, JournalShown, NightlyMissesLater,
     PnlOf, Records
<1>8. CASE nightly.snapshot.at > shown.at
  <2>1. shown' = nightly.snapshot /\ shown'.at = nightly.at /\ shown'.by = "nightly"
        /\ nightly.at > shown.at
    BY <1>2, <1>3, <1>8 DEF Latest
  <2>2. ClockAhead'
    <3>1. shown'.at <= now /\ shown'.by # None /\ shown'.by # "tick"
      BY <1>4, <2>1 DEF None
    <3>2. tick.pc # "idle" => tick.at \in 0..now /\ tick.at # nightly.at
      BY <1>1, <1>2 DEF ClockAhead
    <3> QED
      BY <1>2, <2>1, <3>1, <3>2, IdleFacts DEF ClockAhead
  <2>3. \A t \in Records(trade) : trade[t].tickAt < shown'.at
    <3>1. \A t \in Records(trade) : t \in Trades /\ trade[t].tickAt <= shown.at
      BY <1>1 DEF TradesDated, Records
    <3> QED
      BY <1>4, <2>1, <3>1
  <2>4. \A t \in Records(trade) : t \in Trades
    BY DEF Records
  <2>5. TradesDated'
    <3>1. \A t \in Records(trade) : trade[t].tickAt <= shown'.at
      BY <1>4, <2>1, <2>3, <2>4
    <3> QED
      BY <1>1, <1>2, <3>1 DEF TradesDated, Records
  <2>6. MissedOnlyByOverlap'
    <3>1. \A t \in Records(trade) \ shown'.of : nightly.at < trade[t].committedAt
      BY <1>1, <1>2, <2>1 DEF NightlyMissesLater
    <3> QED
      BY <1>2, <2>1, <2>3, <3>1 DEF MissedOnlyByOverlap, Records
  <2> QED
    BY <1>5, <1>6, <1>7, <2>2, <2>5, <2>6 DEF EvalInv
<1>9. CASE ~(nightly.snapshot.at > shown.at)
  <2>1. shown' = shown
    BY <1>2, <1>9 DEF Latest
  <2>2. ClockAhead' /\ TradesDated' /\ MissedOnlyByOverlap'
    BY <1>1, <1>2, <2>1, IdleFacts DEF ClockAhead, TradesDated, MissedOnlyByOverlap, Records
  <2> QED
    BY <1>5, <1>6, <1>7, <2>2 DEF EvalInv
<1> QED
  BY <1>8, <1>9

\* The settled trades of a tick, and those it leaves.
LEMMA SettledFacts ==
  ASSUME trade \in [Trades -> Trade], tick.at \in Nat,
         NEW due \in SUBSET {t \in Trades : trade[t].result = None},
         NEW result \in [due -> {"decided", "void"}], NEW pnl \in [due -> Pnls],
         NEW time \in Nat
  PROVE  LET settled == Settled(due, result, pnl, time)
         IN  /\ settled \in [Trades -> Trade]
             /\ \A t \in Trades \ due : settled[t] = trade[t]
             /\ \A t \in due :
                   /\ settled[t].result \in {"decided", "void"}
                   /\ settled[t].result = "void" => settled[t].pnl = 0
                   /\ settled[t].tickAt = tick.at /\ settled[t].pnl \in Int
<1> DEFINE settled == Settled(due, result, pnl, time)
<1>1. ASSUME NEW t \in due
      PROVE  /\ settled[t] \in Trade /\ settled[t].result \in {"decided", "void"}
             /\ settled[t].result = "void" => settled[t].pnl = 0
             /\ settled[t].tickAt = tick.at /\ settled[t].pnl \in Int
  <2>1. pnl[t] \in Int /\ result[t] \in {"decided", "void"} /\ t \in Trades
    BY EvalAssumption
  <2>2. settled[t] = [result |-> result[t], pnl |-> IF result[t] = "void" THEN 0 ELSE pnl[t],
                      closedAt |-> time, tickAt |-> tick.at, committedAt |-> Never]
    BY <2>1 DEF Settled, OpenTrade
  <2> HIDE DEF settled
  <2> QED
    BY <2>1, <2>2 DEF Trade, Never
<1>2. \A t \in Trades \ due : settled[t] = trade[t] /\ settled[t] \in Trade
  BY DEF Settled
<1>3. settled = [t \in Trades |-> settled[t]]
  BY DEF Settled
<1> HIDE DEF settled
<1>4. settled \in [Trades -> Trade]
  BY <1>1, <1>2, <1>3
<1> QED
  BY <1>1, <1>2, <1>4 DEF settled

\* A settlement adds what its trades realized, a void market's nothing.
LEMMA SettledSums ==
  ASSUME trade \in [Trades -> Trade], NEW settled \in [Trades -> Trade],
         NEW due \in SUBSET {t \in Trades : trade[t].result = None},
         \A t \in Trades \ due : settled[t] = trade[t],
         \A t \in due : /\ settled[t].result \in {"decided", "void"}
                        /\ settled[t].result = "void" => settled[t].pnl = 0
  PROVE  PnlOf(settled)
           = PnlOf(trade) + SumFunctionOnSet([t \in due |-> settled[t].pnl], due)
<1> DEFINE old == Records(trade)
           D == {t \in due : settled[t].result = "decided"}
           V == due \ D
           f == [t \in Trades |-> settled[t].pnl]
           g == [t \in old |-> trade[t].pnl]
           h == [t \in due |-> settled[t].pnl]
           k == [t \in old \cup D |-> settled[t].pnl]
<1>1. \A t \in Trades : settled[t].pnl \in Int /\ trade[t].pnl \in Int
  BY DEF Trade
<1>2. old \in SUBSET Trades /\ D \in SUBSET due /\ due \in SUBSET Trades
      /\ V \in SUBSET due /\ D \cup V = due /\ D \cap V = {}
  BY DEF Records
<1>3. old \cap due = {}
  BY DEF Records
<1>4. Records(settled) = old \cup D
  BY DEF Records, None
<1>5. \A t \in V : f[t] = 0
  OBVIOUS
<1>6. \A t \in Trades : f[t] = settled[t].pnl /\ f[t] \in Int
  BY <1>1
<1>7. \A t \in old : g[t] = f[t] /\ g[t] \in Int
  BY <1>1, <1>2, <1>3
<1>8. \A t \in due : h[t] = f[t] /\ h[t] \in Int
  BY <1>1, <1>2
<1>9. \A t \in old \cup D : k[t] = f[t] /\ k[t] \in Int
  BY <1>1, <1>2
<1>10. PnlOf(trade) = SumFunctionOnSet(g, old)
  BY DEF PnlOf
<1>11. PnlOf(settled) = SumFunctionOnSet(k, old \cup D)
  BY <1>4 DEF PnlOf
<1> HIDE DEF old, D, V, f, g, h, k
<1>12. IsFiniteSet(old) /\ IsFiniteSet(D) /\ IsFiniteSet(V) /\ IsFiniteSet(due)
  BY <1>2, EvalAssumption, FS_Subset
<1>13. SumFunctionOnSet(k, old \cup D) = SumFunctionOnSet(f, old \cup D)
  <2>1. IsFiniteSet(old \cup D)
    BY <1>12, FS_Union
  <2> QED
    BY <2>1, <1>9, SumSame
<1>14. SumFunctionOnSet(f, old \cup D) = SumFunctionOnSet(f, old) + SumFunctionOnSet(f, D)
  <2>1. old \cap D = {} /\ \A t \in old \cup D : f[t] \in Int
    BY <1>2, <1>3, <1>6
  <2> QED
    BY <2>1, <1>12, SumUnion
<1>15. SumFunctionOnSet(g, old) = SumFunctionOnSet(f, old)
  BY <1>7, <1>12, SumSame
<1>16. SumFunctionOnSet(h, due) = SumFunctionOnSet(f, due)
  BY <1>8, <1>12, SumSame
<1>17. SumFunctionOnSet(f, due) = SumFunctionOnSet(f, D) + SumFunctionOnSet(f, V)
  <2>1. \A t \in D \cup V : f[t] \in Int
    BY <1>2, <1>6
  <2>2. SumFunctionOnSet(f, D \cup V) = SumFunctionOnSet(f, D) + SumFunctionOnSet(f, V)
    BY <2>1, <1>2, <1>12, SumUnion
  <2> QED
    BY <2>2, <1>2
<1>18. SumFunctionOnSet(f, V) = 0
  BY <1>5, <1>12, SumZero
<1>19. SumFunctionOnSet(f, D) \in Int
  <2>1. \A t \in D : f[t] \in Int
    BY <1>2, <1>6
  <2> QED
    BY <2>1, <1>12, SumInt
<1> QED
  BY <1>10, <1>11, <1>13, <1>14, <1>15, <1>16, <1>17, <1>18, <1>19 DEF h

\* A tick settles the open positions of due, posts their profits and recomputes
\* the rows from what its own session sees.
LEMMA TickSettleEval == EvalInv /\ TickSettle => EvalInv'
<1> SUFFICES ASSUME EvalInv, TickSettle PROVE EvalInv'
  OBVIOUS
<1>1. /\ TypeOK /\ CashStarted /\ ClockAhead /\ TradesDated /\ TickExtends
      /\ NightlyMissesLater /\ JournalShown /\ RowsSound /\ MissedOnlyByOverlap
  BY DEF EvalInv
<1>2. /\ tick.pc = "began" /\ ReadClock /\ UNCHANGED <<trade, cash, shown, nightly>>
  BY DEF TickSettle
<1> DEFINE after(due, result, pnl) ==
             LET settled == Settled(due, result, pnl, now')
                 events == Posted(cash, due, settled, now')
             IN  IF due = {} THEN IdleTick
                 ELSE [tick EXCEPT
                         !.pc = "settled", !.trade = settled, !.cash = events,
                         !.snapshot = Recomputed("tick", tick.at, settled, events)]
<1> PICK due \in SUBSET {t \in Trades : trade[t].result = None} :
         \E result \in [due -> {"decided", "void"}] : \E pnl \in [due -> Pnls] :
            tick' = after(due, result, pnl)
  BY Zenon DEF TickSettle, Visible
<1> PICK result \in [due -> {"decided", "void"}] :
         \E pnl \in [due -> Pnls] : tick' = after(due, result, pnl)
  BY Zenon
<1>3. PICK pnl \in [due -> Pnls] : tick' = after(due, result, pnl)
  BY Zenon
<1> DEFINE settled == Settled(due, result, pnl, now')
           events == Posted(cash, due, settled, now')
           s == Recomputed("tick", tick.at, settled, events)
<1>4. /\ now \in Nat /\ now' = now + 1 /\ now' \in 0..MaxTime
      /\ shown.at \in Int /\ tick.at \in Int /\ nightly.at \in Int
  BY <1>1, <1>2, ClockGoesOn
<1>5. tick.at \in 0..now /\ tick.at \in Nat /\ now' \in Nat
  BY <1>1, <1>2, <1>4 DEF ClockAhead
<1>6. trade \in [Trades -> Trade] /\ cash \in Journal /\ IsFiniteSet(due)
  <2>1. due \in SUBSET Trades
    OBVIOUS
  <2>2. IsFiniteSet(due)
    BY <2>1, EvalAssumption, FS_Subset
  <2> QED
    BY <2>2, <1>1 DEF TypeOK, CashStarted, Journal
<1>7. /\ settled \in [Trades -> Trade]
      /\ \A t \in Trades \ due : settled[t] = trade[t]
      /\ \A t \in due :
            /\ settled[t].result \in {"decided", "void"}
            /\ settled[t].result = "void" => settled[t].pnl = 0
            /\ settled[t].tickAt = tick.at /\ settled[t].pnl \in Int
  BY <1>5, <1>6, SettledFacts
<1> HIDE DEF settled
<1>8. /\ events \in Journal
      /\ PnlPosted(events)
           = PnlPosted(cash) + SumFunctionOnSet([t \in due |-> settled[t].pnl], due)
  BY <1>5, <1>6, <1>7, PostedSums
<1> HIDE DEF events
<1>9. /\ s \in Snapshot /\ Sound(s.rows)
      /\ s.at = tick.at /\ s.by = "tick" /\ s.of = Records(settled)
      /\ s.rows["all"].pnl = PnlOf(settled)
  <2>1. events \in Seq(CashEvent)
    BY <1>8 DEF Journal
  <2>2. tick.at \in Nat \cup {Never} /\ "tick" \in {"tick", "nightly"}
    BY <1>5
  <2>3. MadeFrom(s, "tick", tick.at, settled)
    BY <2>1, <2>2, <1>7, RecomputedSound
  <2> QED
    BY <2>3 DEF MadeFrom
<1> HIDE DEF s
<1>10. PnlOf(settled) = PnlPosted(events)
  <2>1. PnlOf(settled) = PnlOf(trade) + SumFunctionOnSet([t \in due |-> settled[t].pnl], due)
    BY <1>6, <1>7, SettledSums
  <2>2. PnlOf(trade) = PnlPosted(cash)
    BY <1>1 DEF JournalShown
  <2> QED
    BY <2>1, <2>2, <1>8
<1>11. TradesDated' /\ NightlyMissesLater' /\ MissedOnlyByOverlap'
  <2>1. \A t \in Trades : trade[t].committedAt \in Int
    BY <1>6 DEF Trade, Never
  <2> QED
    BY <1>1, <1>2, <1>4, <2>1 DEF TradesDated, NightlyMissesLater, MissedOnlyByOverlap, Records
<1>12. CASE due = {}
  <2>1. tick' = IdleTick
    BY <1>3, <1>12
  <2>2. TypeOK'
    BY <1>1, <1>2, <1>4, <2>1, IdleFacts DEF TypeOK
  <2>3. ClockAhead'
    BY <1>1, <1>2, <1>4, <2>1, IdleFacts DEF ClockAhead
  <2>4. CashStarted' /\ TickExtends' /\ JournalShown' /\ RowsSound'
    BY <1>1, <1>2, <2>1, IdleFacts DEF CashStarted, TickExtends, JournalShown, RowsSound,
       PnlOf, Records
  <2> QED
    BY <1>11, <2>2, <2>3, <2>4 DEF EvalInv
<1>13. CASE due # {}
  <2>1. tick' = [tick EXCEPT !.pc = "settled", !.trade = settled, !.cash = events,
                             !.snapshot = s]
    BY <1>3, <1>13 DEF settled, events, s
  <2>2. /\ tick' \in [pc : {"idle", "began", "settled"}, at : Nat \cup {Never},
                      trade : [Trades -> Trade], cash : Seq(CashEvent), snapshot : Snapshot]
        /\ tick'.pc = "settled" /\ tick'.at = tick.at /\ tick'.trade = settled
        /\ tick'.cash = events /\ tick'.snapshot = s
    <3>1. tick \in [pc : {"idle", "began", "settled"}, at : Nat \cup {Never},
                    trade : [Trades -> Trade], cash : Seq(CashEvent), snapshot : Snapshot]
      BY <1>1 DEF TypeOK
    <3>2. events \in Seq(CashEvent)
      BY <1>8 DEF Journal
    <3> QED
      BY <1>7, <1>9, <2>1, <3>1, <3>2
  <2>3. TypeOK'
    BY <1>1, <1>2, <1>4, <2>2 DEF TypeOK
  <2>4. ClockAhead'
    <3>1. tick.at # shown.at /\ (shown.by = "tick" => shown.at < tick.at)
          /\ (nightly.pc # "idle" => nightly.at \in 0..now /\ tick.at # nightly.at)
          /\ shown.at <= now /\ (shown.by = None => shown.at = Never)
      BY <1>1, <1>2 DEF ClockAhead
    <3>2. tick.at \in 0..now' /\ shown.at <= now'
          /\ (nightly.pc # "idle" => nightly.at \in 0..now')
      BY <1>4, <1>5, <3>1
    <3> QED
      BY <1>2, <2>2, <3>1, <3>2 DEF ClockAhead
  <2>5. CashStarted' /\ RowsSound'
    BY <1>1, <1>2, <1>8, <1>9, <2>2 DEF CashStarted, RowsSound, Journal
  <2>6. TickExtends'
    <3>1. ASSUME NEW t \in Trades
          PROVE  IF trade[t].result # None THEN settled[t] = trade[t]
                 ELSE settled[t].result # None => settled[t].tickAt = tick.at
      BY <1>7
    <3>2. trade' = trade /\ tick'.trade = settled /\ tick'.at = tick.at /\ tick'.snapshot = s
      BY <1>2, <2>2
    <3>3. s.of = Records(tick'.trade)
      BY <1>9, <3>2
    <3>4. Records(tick.trade)' = Records(tick'.trade)
      BY Zenon DEF Records
    <3> QED
      BY <1>9, <3>1, <3>2, <3>3, <3>4 DEF TickExtends
  <2>7. JournalShown'
    <3>1. trade' = trade /\ cash' = cash /\ tick'.trade = settled /\ tick'.cash = events
          /\ tick'.snapshot = s
      BY <1>2, <2>2
    <3>2. PnlOf(trade)' = PnlOf(trade) /\ PnlOf(tick.trade)' = PnlOf(settled)
      BY <3>1, Zenon DEF PnlOf, Records
    <3>3. PnlPosted(cash)' = PnlPosted(cash) /\ PnlPosted(tick.cash)' = PnlPosted(events)
      BY <3>1, Zenon DEF PnlPosted
    <3>4. PnlOf(trade) = PnlPosted(cash)
      BY <1>1 DEF JournalShown
    <3>5. s.rows["all"].pnl = PnlPosted(events)
      BY <1>9, <1>10
    <3> QED
      BY <1>10, <3>1, <3>2, <3>3, <3>4, <3>5 DEF JournalShown
  <2> QED
    BY <1>11, <2>3, <2>4, <2>5, <2>6, <2>7 DEF EvalInv
<1> QED
  BY <1>12, <1>13

\* A tick commits what it settled: its rows are shown unless a nightly that
\* started later has been, which then misses them.
LEMMA TickCommitEval == EvalInv /\ TickCommit => EvalInv'
<1> SUFFICES ASSUME EvalInv, TickCommit PROVE EvalInv'
  OBVIOUS
<1>1. /\ TypeOK /\ CashStarted /\ ClockAhead /\ TradesDated /\ TickExtends
      /\ NightlyMissesLater /\ JournalShown /\ RowsSound /\ MissedOnlyByOverlap
  BY DEF EvalInv
<1>2. /\ tick.pc = "settled" /\ ReadClock
      /\ trade' = [t \in Trades |->
                      IF trade[t].result = None /\ tick.trade[t].result # None
                      THEN [tick.trade[t] EXCEPT !.committedAt = now'] ELSE trade[t]]
      /\ cash' = tick.cash /\ shown' = Latest(shown, tick.snapshot)
      /\ tick' = IdleTick /\ UNCHANGED nightly
  BY DEF TickCommit
<1>3. /\ now \in Nat /\ now' = now + 1 /\ now' \in 0..MaxTime
      /\ shown.at \in Int /\ tick.at \in Int /\ nightly.at \in Int
  BY <1>1, <1>2, ClockGoesOn
<1>4. /\ trade \in [Trades -> Trade] /\ tick.trade \in [Trades -> Trade]
      /\ tick.cash \in Seq(CashEvent) /\ tick.snapshot \in Snapshot /\ shown \in Snapshot
  BY <1>1 DEF TypeOK
<1>5. /\ tick.at \in 0..now /\ tick.at # shown.at /\ shown.at <= now
      /\ shown.by = "tick" => shown.at < tick.at
      /\ shown.by = None => shown.at = Never
  BY <1>1, <1>2 DEF ClockAhead
<1>6. /\ tick.snapshot.at = tick.at /\ tick.snapshot.by = "tick"
      /\ tick.snapshot.of = Records(tick.trade)
      /\ \A t \in Trades :
            IF trade[t].result # None THEN tick.trade[t] = trade[t]
            ELSE tick.trade[t].result # None => tick.trade[t].tickAt = tick.at
  BY <1>1, <1>2 DEF TickExtends
<1>7. ASSUME NEW t \in Trades, trade[t].result # None PROVE trade'[t] = trade[t]
  BY <1>2, <1>7
<1>8. ASSUME NEW t \in Trades, trade[t].result = None, tick.trade[t].result # None
      PROVE  /\ trade'[t] \in Trade /\ trade'[t].tickAt = tick.at
             /\ trade'[t].committedAt = now' /\ trade'[t].result = tick.trade[t].result
             /\ trade'[t].pnl = tick.trade[t].pnl
  <2>1. trade'[t] = [tick.trade[t] EXCEPT !.committedAt = now']
    BY <1>2, <1>8
  <2>2. tick.trade[t] \in Trade /\ tick.trade[t].tickAt = tick.at
    BY <1>4, <1>6, <1>8
  <2> QED
    BY <1>3, <2>1, <2>2 DEF Trade
<1>9. ASSUME NEW t \in Trades, trade[t].result = None, tick.trade[t].result = None
      PROVE  trade'[t] = trade[t]
  BY <1>2, <1>9
<1>10. \A t \in Trades : trade'[t] \in Trade /\ trade'[t].result = tick.trade[t].result
  <2> SUFFICES ASSUME NEW t \in Trades
               PROVE  trade'[t] \in Trade /\ trade'[t].result = tick.trade[t].result
    OBVIOUS
  <2>1. CASE trade[t].result # None
    BY <1>4, <1>6, <1>7, <2>1
  <2>2. CASE trade[t].result = None /\ tick.trade[t].result # None
    BY <1>8, <2>2
  <2>3. CASE trade[t].result = None /\ tick.trade[t].result = None
    BY <1>4, <1>9, <2>3
  <2> QED
    BY <2>1, <2>2, <2>3
<1>11. \A t \in Records(tick.trade) : trade'[t].pnl = tick.trade[t].pnl
  <2> SUFFICES ASSUME NEW t \in Records(tick.trade) PROVE trade'[t].pnl = tick.trade[t].pnl
    OBVIOUS
  <2>1. t \in Trades /\ tick.trade[t].result # None
    BY DEF Records
  <2>2. CASE trade[t].result # None
    BY <1>6, <1>7, <2>1, <2>2
  <2>3. CASE trade[t].result = None
    BY <1>8, <2>1, <2>3
  <2> QED
    BY <2>2, <2>3
<1>12. trade' \in [Trades -> Trade]
  <2>1. trade' = [t \in Trades |-> trade'[t]]
    BY <1>2
  <2> QED
    BY <1>10, <2>1
<1>13. Records(trade') = Records(tick.trade)
  BY <1>10 DEF Records
<1>14. \A t \in Records(trade') :
          \/ t \in Records(trade) /\ trade'[t] = trade[t]
          \/ /\ t \notin Records(trade) /\ trade'[t].tickAt = tick.at
             /\ trade'[t].committedAt = now'
  <2> SUFFICES ASSUME NEW t \in Records(trade')
               PROVE  \/ t \in Records(trade) /\ trade'[t] = trade[t]
                      \/ /\ t \notin Records(trade) /\ trade'[t].tickAt = tick.at
                         /\ trade'[t].committedAt = now'
    OBVIOUS
  <2>1. t \in Trades /\ trade'[t].result \notin {None, "void"}
    BY DEF Records
  <2>2. CASE trade[t].result # None
    BY <1>7, <2>1, <2>2 DEF Records
  <2>3. CASE trade[t].result = None
    <3>1. tick.trade[t].result # None
      BY <1>10, <2>1
    <3> QED
      BY <1>8, <2>1, <2>3, <3>1 DEF Records
  <2> QED
    BY <2>2, <2>3
<1>15. \A t \in Records(trade) : trade[t].tickAt \in Int /\ trade[t].committedAt \in Int
  BY <1>4 DEF Records, Trade, Never
<1>16. shown' \in Snapshot /\ shown'.at \in Int /\ shown.at <= shown'.at /\ tick.at <= shown'.at
       /\ shown'.at <= now' /\ shown'.by # None
  <2>1. CASE tick.snapshot.at > shown.at
    BY <1>2, <1>3, <1>4, <1>5, <1>6, <2>1 DEF Latest, None
  <2>2. CASE ~(tick.snapshot.at > shown.at)
    BY <1>2, <1>3, <1>4, <1>5, <1>6, <2>2 DEF Latest, Never
  <2> QED
    BY <2>1, <2>2
<1>17. TypeOK'
  BY <1>1, <1>2, <1>3, <1>4, <1>12, <1>16, IdleFacts DEF TypeOK
<1>18. CashStarted'
  BY <1>1, <1>2, IdleFacts DEF CashStarted
<1>19. ClockAhead'
  <2>1. nightly.pc # "idle" => nightly.at \in 0..now'
    BY <1>1, <1>3 DEF ClockAhead
  <2> QED
    BY <1>2, <1>16, <2>1, IdleFacts DEF ClockAhead
<1>20. TradesDated'
  <2> SUFFICES ASSUME NEW t \in Records(trade')
               PROVE  /\ trade'[t].tickAt <= shown'.at
                      /\ trade'[t].tickAt < trade'[t].committedAt
                      /\ trade'[t].committedAt <= now'
    BY DEF TradesDated, Records
  <2>1. CASE t \in Records(trade) /\ trade'[t] = trade[t]
    <3>1. /\ trade[t].tickAt <= shown.at
          /\ trade[t].tickAt < trade[t].committedAt /\ trade[t].committedAt <= now
      BY <1>1, <2>1 DEF TradesDated
    <3> QED
      BY <1>3, <1>15, <1>16, <2>1, <3>1
  <2>2. CASE trade'[t].tickAt = tick.at /\ trade'[t].committedAt = now'
    BY <1>3, <1>5, <1>16, <2>2
  <2> QED
    BY <1>14, <2>1, <2>2
<1>21. TickExtends'
  BY <1>2, IdleFacts DEF TickExtends
<1>22. NightlyMissesLater'
  <2>1. ASSUME nightly.pc # "idle",
               NEW R, \A t \in Records(trade) \ R : nightly.at < trade[t].committedAt
        PROVE  \A t \in Records(trade') \ R : nightly.at < trade'[t].committedAt
    <3>1. nightly.at < now'
      BY <1>1, <1>3, <2>1 DEF ClockAhead
    <3> QED
      BY <1>14, <2>1, <3>1
  <2>2. ASSUME nightly.pc = "read"
        PROVE  \A t \in Records(trade') \ Records(nightly.trade) :
                  nightly.at < trade'[t].committedAt
    BY <1>1, <2>1, <2>2 DEF NightlyMissesLater
  <2>3. ASSUME nightly.pc = "computed"
        PROVE  /\ nightly.snapshot.at = nightly.at /\ nightly.snapshot.by = "nightly"
               /\ \A t \in Records(trade') \ nightly.snapshot.of :
                     nightly.at < trade'[t].committedAt
    BY <1>1, <2>1, <2>3 DEF NightlyMissesLater
  <2>4. nightly' = nightly /\ Records(nightly'.trade) = Records(nightly.trade)
    BY <1>2 DEF Records
  <2>5. nightly'.pc = "read" =>
          \A t \in Records(trade') \ Records(nightly'.trade) :
              nightly'.at < trade'[t].committedAt
    BY <2>2, <2>4
  <2>6. nightly'.pc = "computed" =>
          /\ nightly'.snapshot.at = nightly'.at /\ nightly'.snapshot.by = "nightly"
          /\ \A t \in Records(trade') \ nightly'.snapshot.of :
                nightly'.at < trade'[t].committedAt
    BY <2>3, <2>4
  <2>7. Records(trade)' = Records(trade') /\ Records(nightly.trade)' = Records(nightly'.trade)
    BY Zenon DEF Records
  <2> QED
    BY <2>5, <2>6, <2>7 DEF NightlyMissesLater
<1>23. JournalShown'
  <2>1. PnlOf(trade') = PnlOf(tick.trade)
    BY <1>11, <1>13 DEF PnlOf
  <2>2. PnlOf(tick.trade) = PnlPosted(tick.cash)
    BY <1>1, <1>2 DEF JournalShown
  <2>3. PnlOf(trade') = PnlPosted(cash')
    BY <1>2, <2>1, <2>2
  <2>4. tick'.pc # "settled"
    BY <1>2, IdleFacts
  <2>5. PnlOf(trade)' = PnlOf(trade') /\ PnlPosted(cash)' = PnlPosted(cash')
    BY Zenon DEF PnlOf, PnlPosted, Records
  <2> QED
    BY <2>3, <2>4, <2>5 DEF JournalShown
<1>24. RowsSound'
  BY <1>1, <1>2, IdleFacts DEF RowsSound, Latest
<1>25. MissedOnlyByOverlap'
  <2>1. CASE tick.snapshot.at > shown.at
    <3>1. shown'.of = Records(trade')
      BY <1>2, <1>6, <1>13, <2>1 DEF Latest
    <3> QED
      BY <3>1 DEF MissedOnlyByOverlap, Records
  <2>2. CASE ~(tick.snapshot.at > shown.at)
    <3>1. shown' = shown /\ tick.at < shown.at /\ shown.by = "nightly"
      <4>1. shown' = shown /\ tick.at < shown.at
        BY <1>2, <1>3, <1>5, <1>6, <2>2 DEF Latest
      <4>2. shown.by \in {None, "tick", "nightly"} /\ shown.by # "tick" /\ shown.by # None
        BY <1>4, <1>5, <4>1 DEF Snapshot, Never
      <4> QED
        BY <4>1, <4>2
    <3> SUFFICES ASSUME NEW t \in Records(trade') \ shown.of
                 PROVE  trade'[t].tickAt < shown.at /\ shown.at < trade'[t].committedAt
      BY <3>1 DEF MissedOnlyByOverlap, Records
    <3>2. CASE t \in Records(trade) /\ trade'[t] = trade[t]
      BY <1>1, <3>2 DEF MissedOnlyByOverlap
    <3>3. CASE trade'[t].tickAt = tick.at /\ trade'[t].committedAt = now'
      BY <1>3, <1>5, <3>1, <3>3
    <3> QED
      BY <1>14, <3>2, <3>3
  <2> QED
    BY <2>1, <2>2
<1> QED
  BY <1>17, <1>18, <1>19, <1>20, <1>21, <1>22, <1>23, <1>24, <1>25 DEF EvalInv

\* A step of another part of the system changes nothing here.
LEMMA StutterEval == EvalInv /\ UNCHANGED vars => EvalInv'
BY DEF vars, EvalInv, TypeOK, CashStarted, ClockAhead, TradesDated, TickExtends,
   NightlyMissesLater, JournalShown, RowsSound, MissedOnlyByOverlap, PnlOf, PnlPosted, Records

\* It holds in every reachable state.
LEMMA EvalAlways == Spec => []EvalInv
<1>1. Init => EvalInv
  BY InitEval
<1>2. EvalInv /\ [Next]_vars => EvalInv'
  BY MoveCashEval, TickBeginEval, TickSettleEval, TickCommitEval, NightlyBeginEval,
     NightlyReadTradesEval, NightlyReadCashEval, NightlyCommitEval, TickAbortsEval,
     NightlyAbortsEval, StutterEval DEF Next
<1> QED
  BY <1>1, <1>2, PTL DEF Spec

-----------------------------------------------------------------------------
(* The theorems. *)

\* The database and the transactions hold what the columns and variables of the
\* code allow: every snapshot written by recompute_strategy is one.
THEOREM EvalTypeOK == Spec => []TypeOK
<1>1. EvalInv => TypeOK
  BY DEF EvalInv
<1> QED
  BY <1>1, EvalAlways, PTL

\* The rows an API reader finds nest: the 7 days' trades, wins, bins and fall are
\* within the 30 days', and those within all time's, whichever of the tick and the
\* nightly wrote them and however they overlapped (recompute_strategy).
THEOREM EvalWindowsNest == Spec => []WindowsNest
<1>1. EvalInv => WindowsNest
  <2> SUFFICES ASSUME EvalInv PROVE WindowsNest
    OBVIOUS
  <2>1. Narrower(shown.rows["7d"], shown.rows["30d"])
        /\ Narrower(shown.rows["30d"], shown.rows["all"])
    BY DEF EvalInv, RowsSound, Sound
  <2> QED
    BY <2>1 DEF WindowsNest, Narrower
<1> QED
  BY <1>1, EvalAlways, PTL

\* A trade missing from the latest rows was settled by a tick that the nightly
\* which wrote them overlapped, for any trades and any run (_latest_row).
THEOREM EvalMissedOnlyByOverlap == Spec => []MissedOnlyByOverlap
<1>1. EvalInv => MissedOnlyByOverlap
  BY DEF EvalInv
<1> QED
  BY <1>1, EvalAlways, PTL

\* One pass over the balances of any window finds the worst fall from a balance
\* to a later one (max_drawdown_cents).
THEOREM EvalDrawdownIsWorstFall == Spec => []DrawdownIsWorstFall
<1>1. EvalInv => DrawdownIsWorstFall
  <2> SUFFICES ASSUME EvalInv, NEW w \in EVAL_WINDOWS
               PROVE  MaxDrawdown(BalancesIn(cash, w, now)) = WorstFall(BalancesIn(cash, w, now))
    BY DEF DrawdownIsWorstFall
  <2>1. cash \in Seq(CashEvent)
    BY DEF EvalInv, TypeOK
  <2>2. BalancesIn(cash, w, now) \in Seq(Int)
    BY <2>1, BalancesType
  <2> QED
    BY <2>2, DrawdownWorst
<1> QED
  BY <1>1, EvalAlways, PTL

\* The calibration bins of the rows shown count each of their trades once, in a bin
\* that holds its probability (calibration_bins).
THEOREM EvalBinsPartition == Spec => []BinsPartition
<1>1. EvalInv => BinsPartition
  <2> SUFFICES ASSUME EvalInv PROVE BinsPartition
    OBVIOUS
  <2>1. \A w \in EVAL_WINDOWS :
           SumFunctionOnSet(shown.rows[w].bins, Bins) = shown.rows[w].n
    BY DEF EvalInv, RowsSound, Sound
  <2>2. ASSUME NEW t \in shown.of
        PROVE  10 * BinOf(ProbYes[t]) <= ProbYes[t] /\ ProbYes[t] <= 10 * (BinOf(ProbYes[t]) + 1)
    <3>1. t \in Trades
      BY DEF EvalInv, TypeOK, Snapshot
    <3>2. ProbYes[t] \in 0..100
      BY <3>1, EvalAssumption
    <3> QED
      BY <3>2, BinHolds
  <2> QED
    BY <2>1, <2>2 DEF BinsPartition
<1> QED
  BY <1>1, EvalAlways, PTL

\* The all-time profit in the rows of a tick is the sum of the realized_pnl events
\* of the journal it commits, however many trades it settled and whatever was
\* settled before (settle_position, recompute_strategy).
THEOREM EvalTickShowsJournal == Spec => TickShowsJournal
<1>1. EvalInv /\ [Next]_vars
        => ((shown' # shown /\ shown'.by = "tick") =>
              shown'.rows["all"].pnl
                 = SumFunctionOnSet([i \in 1..Len(cash') |-> cash'[i].pnl], 1..Len(cash')))
  <2> SUFFICES ASSUME EvalInv, [Next]_vars, shown' # shown, shown'.by = "tick"
               PROVE  shown'.rows["all"].pnl
                        = SumFunctionOnSet([i \in 1..Len(cash') |-> cash'[i].pnl], 1..Len(cash'))
    OBVIOUS
  <2>1. TickCommit \/ NightlyCommit
    BY DEF Next, vars, MoveCash, TickBegin, TickSettle, NightlyBegin, NightlyReadTrades,
       NightlyReadCash, TickAborts, NightlyAborts
  <2>2. ~NightlyCommit
    BY DEF NightlyCommit, Latest, EvalInv, NightlyMissesLater
  <2>3. tick.pc = "settled" /\ cash' = tick.cash /\ shown' = tick.snapshot
    BY <2>1, <2>2 DEF TickCommit, Latest
  <2>4. tick.snapshot.rows["all"].pnl = PnlPosted(tick.cash)
    BY <2>3 DEF EvalInv, JournalShown
  <2> QED
    BY <2>3, <2>4 DEF PnlPosted
<1> QED
  BY <1>1, EvalAlways, PTL DEF Spec, TickShowsJournal
=============================================================================
