------------------------ MODULE ZgemmRestrain_proofs ------------------------
(***************************************************************************)
(* For every size of matrix and block and every number of threads: that    *)
(* GetMThreadsRegions cuts the rows into ranges that do not overlap and    *)
(* leave none out, that the blocks of the loop nest cover the range of a   *)
(* thread, all columns and all of K once, and so that every product is     *)
(* added once and no two threads add to the same row; and that, while K    *)
(* fits into one block, r ends as the sums that main compares it with.     *)
(***************************************************************************)
EXTENDS ZgemmRestrain, FiniteSetTheorems, WellFoundedInduction, TLAPS

(* A set of numbers has a least one.                                       *)
LEMMA LeastOne ==
  ASSUME NEW S \in SUBSET Nat, S # {}
  PROVE  \E x \in S : \A y \in S : x <= y
<1>1. PICK x \in S : \A y \in S : <<y, x>> \notin OpToRel(<, Nat)
  BY NatLessThanWellFounded, WFMin, Zenon
<1>2. \A y \in S : ~(y < x)
  BY <1>1 DEF OpToRel
<1> QED
  BY <1>2

(* A set that has 0 and with every number the next has all.                *)
LEMMA SetInduction ==
  ASSUME NEW S, 0 \in S, \A k \in Nat : k \in S => k + 1 \in S
  PROVE  Nat \subseteq S
<1> SUFFICES ASSUME Nat \ S # {} PROVE FALSE
  OBVIOUS
<1>1. PICK x \in Nat \ S : \A y \in Nat \ S : x <= y
  BY LeastOne
<1>2. x - 1 \in Nat /\ x - 1 \in S
  BY <1>1
<1> QED
  BY <1>1, <1>2

-----------------------------------------------------------------------------
(* GetMThreadsRegions.                                                     *)

(* What is left of x rows when the first of q threads has its rows.        *)
NextLeft(x, q) == IF x > 0 THEN Max({0, x - Width(x, q)}) ELSE 0

(* g says what is left of m rows after each of the first k of n threads.   *)
LeftUpTo(g, k, m, n) ==
  /\ g \in [0 .. k -> Nat]
  /\ g[0] = m
  /\ \A p \in 1 .. k : g[p] = NextLeft(g[p - 1], n - (p - 1))

LEMMA MaxWithZero == ASSUME NEW x \in Int PROVE Max({0, x}) = IF x > 0 THEN x ELSE 0
<1> DEFINE y == IF x > 0 THEN x ELSE 0
<1>1. y \in {0, x} /\ \A z \in {0, x} : y >= z
  OBVIOUS
<1>2. \A w \in {0, x} : (\A z \in {0, x} : w >= z) => w = y
  OBVIOUS
<1>3. Max({0, x}) \in {0, x} /\ \A z \in {0, x} : Max({0, x}) >= z
  BY <1>1 DEF Max
<1> QED
  BY <1>2, <1>3

(* A thread takes a row as long as there are any; the last takes all.      *)
LEMMA NextLeftBounds ==
  ASSUME NEW x \in Nat, NEW q \in Nat \ {0}
  PROVE  /\ NextLeft(x, q) \in Nat /\ NextLeft(x, q) <= x
         /\ NextLeft(x, 1) = 0
<1>1. Width(x, q) \in Nat
  BY DEF Width
<1>2. Width(x, 1) = x
  BY DEF Width
<1> QED
  BY <1>1, <1>2, MaxWithZero DEF NextLeft

LEMMA LeftExists ==
  ASSUME NEW m \in Nat, NEW n \in Nat, NEW k \in 0 .. n
  PROVE  \E g : LeftUpTo(g, k, m, n)
<1> DEFINE S == {j \in Nat : j <= n => \E g : LeftUpTo(g, j, m, n)}
<1>1. 0 \in S
  <2>1. LeftUpTo([p \in 0 .. 0 |-> m], 0, m, n)
    BY DEF LeftUpTo
  <2> QED
    BY <2>1
<1>2. ASSUME NEW j \in Nat, j \in S PROVE j + 1 \in S
  <2> SUFFICES ASSUME j + 1 <= n PROVE \E g : LeftUpTo(g, j + 1, m, n)
    OBVIOUS
  <2>1. PICK g : LeftUpTo(g, j, m, n)
    BY <1>2
  <2> DEFINE h == [p \in 0 .. j + 1 |-> IF p <= j THEN g[p] ELSE NextLeft(g[j], n - j)]
  <2>2. NextLeft(g[j], n - j) \in Nat
    BY <2>1, NextLeftBounds DEF LeftUpTo
  <2>3. h \in [0 .. j + 1 -> Nat] /\ h[0] = m
    BY <2>1, <2>2 DEF LeftUpTo
  <2>4. ASSUME NEW p \in 1 .. j + 1 PROVE h[p] = NextLeft(h[p - 1], n - (p - 1))
    <3>1. CASE p <= j
      BY <2>1, <3>1 DEF LeftUpTo
    <3>2. CASE p = j + 1
      BY <3>2
    <3> QED
      BY <3>1, <3>2
  <2>5. LeftUpTo(h, j + 1, m, n)
    BY <2>3, <2>4 DEF LeftUpTo
  <2> QED
    BY <2>5
<1>3. Nat \subseteq S
  BY <1>1, <1>2, SetInduction
<1> QED
  BY <1>3

(* The recursion has a solution, and Left is one.                          *)
LEMMA LeftSolves == ASSUME NEW m \in Nat, NEW n \in Nat PROVE LeftUpTo(Left(m, n), n, m, n)
<1> DEFINE F(f) == [p \in 0 .. n |-> IF p = 0 THEN m
                      ELSE NextLeft(f[p - 1], n - (p - 1))]
           L == Left(m, n)
<1>1. PICK g : LeftUpTo(g, n, m, n)
  BY LeftExists
<1>2. g = F(g)
  <2>1. g = [p \in 0 .. n |-> g[p]]
    BY <1>1 DEF LeftUpTo
  <2>2. \A p \in 0 .. n : F(g)[p] = g[p]
    BY <1>1 DEF LeftUpTo
  <2> QED
    BY <2>1, <2>2
<1>3. L = CHOOSE f : f = F(f)
  BY DEF Left, NextLeft
<1>4. L = F(L)
  BY <1>2, <1>3
<1>5. L = [p \in 0 .. n |-> L[p]] /\ L[0] = m
  BY <1>4
<1>6. \A p \in 1 .. n : L[p] = NextLeft(L[p - 1], n - (p - 1))
  BY <1>4
<1> HIDE DEF L, F
<1> DEFINE S == {j \in Nat : j <= n => L[j] \in Nat}
<1>7. 0 \in S
  BY <1>5
<1>8. ASSUME NEW j \in Nat, j \in S PROVE j + 1 \in S
  <2> SUFFICES ASSUME j + 1 <= n PROVE L[j + 1] \in Nat
    OBVIOUS
  <2>1. L[j] \in Nat /\ n - j \in Nat \ {0}
    BY <1>8
  <2>2. L[j + 1] = NextLeft(L[j], n - j)
    BY <1>6
  <2> QED
    BY <2>1, <2>2, NextLeftBounds
<1>9. Nat \subseteq S
  BY <1>7, <1>8, SetInduction
<1>10. L \in [0 .. n -> Nat]
  BY <1>5, <1>9
<1>11. LeftUpTo(L, n, m, n)
  BY <1>5, <1>6, <1>10 DEF LeftUpTo
<1> QED
  BY <1>11 DEF L

(* A thread more leaves fewer rows or as many, and the last none.          *)
LEMMA LeftFalls ==
  ASSUME NEW m \in Nat, NEW n \in Nat \ {0}
  PROVE  /\ Left(m, n) \in [0 .. n -> Nat] /\ Left(m, n)[0] = m /\ Left(m, n)[n] = 0
         /\ \A p, q \in 0 .. n : p <= q => Left(m, n)[q] <= Left(m, n)[p]
<1> DEFINE L == Left(m, n)
<1>1. LeftUpTo(L, n, m, n)
  BY LeftSolves
<1> HIDE DEF L
<1>2. L \in [0 .. n -> Nat] /\ L[0] = m
  BY <1>1 DEF LeftUpTo
<1>3. ASSUME NEW p \in 1 .. n PROVE L[p] = NextLeft(L[p - 1], n - (p - 1)) /\ L[p - 1] \in Nat
  BY <1>1, <1>2 DEF LeftUpTo
<1>4. L[n] = 0
  <2>1. n \in 1 .. n /\ n - (n - 1) = 1
    OBVIOUS
  <2>2. L[n] = NextLeft(L[n - 1], 1) /\ L[n - 1] \in Nat
    BY <1>3, <2>1
  <2> QED
    BY <2>2, NextLeftBounds
<1>5. ASSUME NEW p \in 1 .. n PROVE L[p] <= L[p - 1]
  <2>1. n - (p - 1) \in Nat \ {0}
    OBVIOUS
  <2> QED
    BY <1>3, <2>1, NextLeftBounds
<1>6. ASSUME NEW p \in 0 .. n PROVE \A q \in 0 .. n : p <= q => L[q] <= L[p]
  <2> DEFINE S == {d \in Nat : p + d <= n => L[p + d] <= L[p]}
  <2>1. 0 \in S
    BY <1>2
  <2>2. ASSUME NEW d \in Nat, d \in S PROVE d + 1 \in S
    <3> SUFFICES ASSUME p + (d + 1) <= n PROVE L[p + (d + 1)] <= L[p]
      OBVIOUS
    <3>1. p + (d + 1) \in 1 .. n /\ p + (d + 1) - 1 = p + d /\ p + d \in 0 .. n
      OBVIOUS
    <3>2. L[p + (d + 1)] <= L[p + d] /\ L[p + d] <= L[p]
      BY <1>5, <2>2, <3>1
    <3> QED
      BY <1>2, <3>1, <3>2
  <2>3. Nat \subseteq S
    BY <2>1, <2>2, SetInduction
  <2>4. ASSUME NEW q \in 0 .. n, p <= q PROVE L[q] <= L[p]
    <3>1. q - p \in Nat /\ p + (q - p) = q
      BY <2>4
    <3> QED
      BY <2>3, <3>1
  <2> QED
    BY <2>4
<1> QED
  BY <1>2, <1>4, <1>6 DEF L

(* The command lines.                                                      *)
Args ==
  [M : 1 .. MaxM, N : 1 .. MaxN, K : 1 .. MaxK, threads : 1 .. MaxThreads,
   version : {"kupl", "omp"}]

LEMMA ArgsPositive ==
  ASSUME NEW a \in Args
  PROVE  a.M \in Nat \ {0} /\ a.N \in Nat \ {0} /\ a.K \in Nat \ {0} /\ a.threads \in Nat \ {0}
BY SizesAssumption DEF Args

(* The ranges begin at row 0, end at M and follow each other.              *)
LEMMA RangesRise ==
  ASSUME NEW a \in Args
  PROVE  LET R == RangeM(a.M, a.threads)
             n == a.threads
         IN /\ R \in [0 .. n -> 0 .. a.M] /\ R[0] = 0 /\ R[n] = a.M
            /\ \A p, q \in 0 .. n : p <= q => R[p] <= R[q]
<1> DEFINE L == Left(a.M, a.threads)
<1>1. a.M \in Nat /\ a.threads \in Nat \ {0}
  BY ArgsPositive
<1>2. /\ L \in [0 .. a.threads -> Nat] /\ L[0] = a.M /\ L[a.threads] = 0
      /\ \A p, q \in 0 .. a.threads : p <= q => L[q] <= L[p]
  BY <1>1, LeftFalls
<1>3. RangeM(a.M, a.threads) = [p \in 0 .. a.threads |-> a.M - L[p]]
  BY DEF RangeM
<1> HIDE DEF L
<1>4. \A p \in 0 .. a.threads : L[p] \in 0 .. a.M
  BY <1>1, <1>2
<1> QED
  BY <1>1, <1>2, <1>3, <1>4

(* Every thread that has rows is started; no other thread has any.         *)
LEMMA ThreadsHaveRanges ==
  ASSUME NEW a \in Args
  PROVE  /\ Threads(a) \subseteq 0 .. a.threads - 1
         /\ \A t \in 0 .. a.threads - 1 : RangeM(a.M, a.threads)[t] < a.M => t \in Threads(a)
<1> DEFINE L == Left(a.M, a.threads)
           n == a.threads
<1>1. a.M \in Nat /\ n \in Nat \ {0}
  BY ArgsPositive
<1>2. /\ L \in [0 .. n -> Nat] /\ L[n] = 0
      /\ \A p, q \in 0 .. n : p <= q => L[q] <= L[p]
  BY <1>1, LeftFalls
<1>3. \A t \in 0 .. n - 1 : RangeM(a.M, a.threads)[t] = a.M - L[t]
  BY <1>1 DEF RangeM
<1>4. NumParts(a.M, a.threads) = Cardinality({p \in 0 .. n - 1 : L[p] > 0})
  BY DEF NumParts
<1> HIDE DEF L, n
<1>5. PICK z \in {p \in 0 .. n : L[p] = 0} : \A y \in {p \in 0 .. n : L[p] = 0} : z <= y
  <2> DEFINE T == {p \in 0 .. n : L[p] = 0}
  <2>1. n \in T /\ T \in SUBSET Nat
    BY <1>1, <1>2
  <2>2. \E z \in T : \A y \in T : z <= y
    BY <2>1, LeastOne
  <2> QED
    BY <2>2
<1>6. {p \in 0 .. n - 1 : L[p] > 0} = 0 .. z - 1
  <2>1. ASSUME NEW p \in 0 .. n - 1, L[p] > 0 PROVE p < z
    BY <1>1, <1>2, <1>5, <2>1
  <2>2. ASSUME NEW p \in 0 .. z - 1 PROVE p \in 0 .. n - 1 /\ L[p] > 0
    BY <1>1, <1>2, <1>5
  <2> QED
    BY <1>1, <1>5, <2>1, <2>2
<1>7. NumParts(a.M, a.threads) = z
  <2>1. z \in Nat
    BY <1>1, <1>5
  <2>2. Cardinality(0 .. z - 1) = IF 0 > z - 1 THEN 0 ELSE (z - 1) - 0 + 1
    BY <2>1, FS_Interval
  <2>3. NumParts(a.M, a.threads) = Cardinality(0 .. z - 1)
    BY <1>4, <1>6, Zenon
  <2> QED
    BY <2>1, <2>2, <2>3
<1>8. CASE a.version = "kupl"
  BY <1>8 DEF Threads, n
<1>9. CASE a.version # "kupl"
  <2>1. Threads(a) = 0 .. z - 1
    BY <1>7, <1>9 DEF Threads
  <2>2. \A t \in 0 .. n - 1 : a.M - L[t] < a.M => t \in 0 .. z - 1
    BY <1>1, <1>2, <1>6
  <2>3. 0 .. z - 1 \subseteq 0 .. n - 1
    BY <1>1, <1>5
  <2> QED
    BY <1>3, <2>1, <2>2, <2>3 DEF n
<1> QED
  BY <1>8, <1>9

(* A row is in the range of one thread.                                    *)
InRange(a, t, row) == RangeM(a.M, a.threads)[t] <= row /\ row < RangeM(a.M, a.threads)[t + 1]

LEMMA RowHasThread ==
  ASSUME NEW a \in Args, NEW row \in 0 .. a.M - 1
  PROVE  \E t \in Threads(a) : InRange(a, t, row)
<1> DEFINE R == RangeM(a.M, a.threads)
           n == a.threads
           S == {p \in 0 .. n : row < R[p]}
<1>1. a.M \in Nat \ {0} /\ n \in Nat \ {0}
  BY ArgsPositive
<1>2. R \in [0 .. n -> 0 .. a.M] /\ R[0] = 0 /\ R[n] = a.M
  BY RangesRise
<1>3. \A t \in 0 .. n - 1 : R[t] < a.M => t \in Threads(a)
  BY ThreadsHaveRanges
<1> SUFFICES \E t \in Threads(a) : R[t] <= row /\ row < R[t + 1]
  BY DEF InRange
<1> HIDE DEF R, n
<1>4. S \in SUBSET Nat /\ n \in S
  BY <1>1, <1>2
<1>5. PICK p \in S : \A q \in S : p <= q
  BY <1>4, LeastOne
<1>6. p \in 1 .. n /\ row < R[p]
  BY <1>1, <1>2, <1>5
<1>7. p - 1 \in 0 .. n /\ p - 1 \notin S /\ p - 1 + 1 = p
  BY <1>1, <1>5, <1>6
<1>8. R[p - 1] <= row
  BY <1>1, <1>2, <1>7
<1>9. p - 1 \in Threads(a)
  BY <1>1, <1>2, <1>3, <1>6, <1>7, <1>8
<1> QED
  BY <1>6, <1>7, <1>8, <1>9

LEMMA RowHasOneThread ==
  ASSUME NEW a \in Args, NEW t \in Threads(a), NEW u \in Threads(a), NEW row \in Int,
         InRange(a, t, row), InRange(a, u, row)
  PROVE  t = u
<1> DEFINE R == RangeM(a.M, a.threads)
           n == a.threads
<1>1. n \in Nat \ {0} /\ a.M \in Nat
  BY ArgsPositive
<1>2. t \in 0 .. n - 1 /\ u \in 0 .. n - 1
  BY ThreadsHaveRanges
<1>3. R \in [0 .. n -> 0 .. a.M] /\ \A p, q \in 0 .. n : p <= q => R[p] <= R[q]
  BY RangesRise
<1>4. R[t] <= row /\ row < R[t + 1] /\ R[u] <= row /\ row < R[u + 1]
  BY DEF InRange
<1> HIDE DEF R, n
<1>5. ASSUME t < u PROVE FALSE
  <2>1. t + 1 \in 0 .. n /\ u \in 0 .. n /\ t + 1 <= u
    BY <1>1, <1>2, <1>5
  <2>2. R[t + 1] <= R[u] /\ R[t + 1] \in Int /\ R[u] \in Int
    BY <1>1, <1>3, <2>1
  <2> QED
    BY <1>4, <2>2
<1>6. ASSUME u < t PROVE FALSE
  <2>1. u + 1 \in 0 .. n /\ t \in 0 .. n /\ u + 1 <= t
    BY <1>1, <1>2, <1>6
  <2>2. R[u + 1] <= R[t] /\ R[u + 1] \in Int /\ R[t] \in Int
    BY <1>1, <1>3, <2>1
  <2> QED
    BY <1>4, <2>2
<1> QED
  BY <1>1, <1>2, <1>5, <1>6

-----------------------------------------------------------------------------
(* The loops.                                                              *)

(* Quotient and remainder are determined.                                  *)
LEMMA OneQuotient ==
  ASSUME NEW by \in Nat \ {0}, NEW p \in Nat, NEW q \in Nat,
         NEW rest \in 0 .. by - 1, NEW s \in 0 .. by - 1, p * by + rest = q * by + s
  PROVE  p = q /\ rest = s
<1>1. ASSUME NEW x \in Nat, NEW y \in Nat, NEW e \in 0 .. by - 1, NEW f \in 0 .. by - 1, x < y
      PROVE  x * by + e < y * by + f
  <2>1. PICK d \in Nat : y = x + 1 + d
    <3>1. y - x - 1 \in Nat /\ y = x + 1 + (y - x - 1)
      BY <1>1
    <3> QED
      BY <3>1
  <2>2. y * by = x * by + by + d * by
    BY <2>1
  <2>3. x * by \in Nat /\ y * by \in Nat /\ d * by \in Nat
    BY <2>1
  <2>4. e < by /\ f >= 0
    OBVIOUS
  <2> QED
    BY <2>2, <2>3, <2>4
<1>2. p = q
  BY <1>1
<1>3. p * by \in Nat
  OBVIOUS
<1> QED
  BY <1>2, <1>3

(* A number is a multiple and a remainder; a multiple has remainder 0.     *)
LEMMA Remainders ==
  ASSUME NEW by \in Nat \ {0}, NEW d \in Nat
  PROVE  /\ d % by \in 0 .. by - 1
         /\ \E q \in Nat : d = q * by + (d % by)
         /\ d - (d % by) \in Nat /\ (d - (d % by)) % by = 0
<1> DEFINE q == d \div by
           rest == d % by
<1>1. q \in Nat /\ rest \in 0 .. by - 1 /\ d = q * by + rest
  OBVIOUS
<1> HIDE DEF q, rest
<1> DEFINE e == q * by
<1>2. e \in Nat /\ d - rest = e
  <2>1. q * by \in Nat
    BY <1>1
  <2> QED
    BY <1>1, <2>1
<1> DEFINE q2 == e \div by
           r2 == e % by
<1>3. q2 \in Nat /\ r2 \in 0 .. by - 1 /\ e = q2 * by + r2
  <2> HIDE DEF e
  <2> QED
    BY <1>2
<1> HIDE DEF q2, r2
<1>4. q * by + 0 = q2 * by + r2 /\ 0 \in 0 .. by - 1
  BY <1>1, <1>3
<1>5. r2 = 0
  BY <1>1, <1>3, <1>4, OneQuotient
<1>6. (d - rest) % by = 0
  BY <1>2, <1>5 DEF r2
<1> QED
  BY <1>1, <1>2, <1>6 DEF rest

(* z is in the step of the loop that begins at x.                          *)
InStep(z, x, to, by) == x <= z /\ z < x + Least(to - x, by)

(* Every number of a range is in one step of a loop over it.               *)
LEMMA StepsCover ==
  ASSUME NEW from \in Nat, NEW to \in Nat, NEW by \in Nat \ {0}, NEW z \in from .. to - 1
  PROVE  \E x \in Steps(from, to, by) : InStep(z, x, to, by)
<1> DEFINE rest == (z - from) % by
           x == z - rest
<1>1. z - from \in Nat
  OBVIOUS
<1>2. rest \in 0 .. by - 1 /\ (z - from) - rest \in Nat /\ ((z - from) - rest) % by = 0
  BY <1>1, Remainders
<1> HIDE DEF rest
<1>3. x \in from .. to - 1 /\ x - from = (z - from) - rest
  BY <1>2
<1>4. x \in Steps(from, to, by)
  BY <1>2, <1>3 DEF Steps
<1>5. InStep(z, x, to, by)
  BY <1>2, <1>3 DEF InStep, Least
<1> QED
  BY <1>4, <1>5

LEMMA StepsApart ==
  ASSUME NEW from \in Nat, NEW to \in Nat, NEW by \in Nat \ {0}, NEW z \in Int,
         NEW x \in Steps(from, to, by), NEW y \in Steps(from, to, by),
         InStep(z, x, to, by), InStep(z, y, to, by)
  PROVE  x = y
<1>1. /\ x - from \in Nat /\ (x - from) % by = 0 /\ y - from \in Nat /\ (y - from) % by = 0
      /\ x \in Nat /\ y \in Nat
  BY DEF Steps
<1>2. PICK p \in Nat : x - from = p * by + 0
  BY <1>1, Remainders
<1>3. PICK q \in Nat : y - from = q * by + 0
  BY <1>1, Remainders
<1>4. z - x \in 0 .. by - 1 /\ z - y \in 0 .. by - 1
  BY <1>1 DEF InStep, Least
<1>5. p * by \in Nat /\ q * by \in Nat
  OBVIOUS
<1>6. p * by + (z - x) = q * by + (z - y)
  BY <1>1, <1>2, <1>3, <1>5
<1>7. p = q
  BY <1>4, <1>6, OneQuotient
<1> QED
  BY <1>1, <1>2, <1>3, <1>5, <1>7

(* A step stays within its loop.                                           *)
LEMMA StepsWithin ==
  ASSUME NEW from \in Nat, NEW to \in Nat, NEW by \in Nat \ {0}, NEW z \in Int,
         NEW x \in Steps(from, to, by), InStep(z, x, to, by)
  PROVE  z \in from .. to - 1
BY DEF Steps, InStep, Least

-----------------------------------------------------------------------------
(* The columns of a panel, in two loops.                                   *)
InColumns(n, c) == InStep(n, c.jjs, c.end, GEMM_UNROLL_N)

LEMMA PanelBounds ==
  ASSUME NEW a \in Args, NEW tid \in Nat, NEW js \in Steps(0, a.N, GEMM_R)
  PROVE  /\ js \in Nat /\ js + tid * GEMM_UNROLL_N \in Nat
         /\ js <= js + tid * GEMM_UNROLL_N
         /\ PanelEnd(a, js) \in Nat /\ SecondLoopEnd(a, tid, js) \in Nat
         /\ SecondLoopEnd(a, tid, js) = Least(js + tid * GEMM_UNROLL_N, PanelEnd(a, js))
         /\ \A n \in Int : js <= n /\ n < PanelEnd(a, js) <=> InStep(n, js, a.N, GEMM_R)
<1>1. js \in Nat /\ a.N \in Nat /\ js < a.N /\ GEMM_R \in Nat \ {0} /\ GEMM_UNROLL_N \in Nat
  BY ArgsPositive, SizesAssumption DEF Steps
<1>2. tid * GEMM_UNROLL_N \in Nat
  BY <1>1
<1>3. PanelEnd(a, js) \in Nat
  BY <1>1 DEF PanelEnd, Least
<1>4. \A n \in Int : js <= n /\ n < PanelEnd(a, js) <=> InStep(n, js, a.N, GEMM_R)
  BY <1>1 DEF PanelEnd, Least, InStep
<1>5. SecondLoopEnd(a, tid, js) = Least(js + tid * GEMM_UNROLL_N, PanelEnd(a, js))
  BY DEF SecondLoopEnd
<1> DEFINE w == tid * GEMM_UNROLL_N
<1>6. w \in Nat
  BY <1>2
<1>7. SecondLoopEnd(a, tid, js) = Least(js + w, PanelEnd(a, js))
  BY <1>5
<1> HIDE DEF w
<1>8. js + w \in Nat /\ js <= js + w
  BY <1>1, <1>6
<1>9. SecondLoopEnd(a, tid, js) \in Nat
  BY <1>3, <1>7, <1>8 DEF Least
<1> QED
  BY <1>1, <1>3, <1>4, <1>5, <1>8, <1>9 DEF w

(* Wherever a thread starts, every column of the panel is in one block.    *)
LEMMA ColumnsCover ==
  ASSUME NEW a \in Args, NEW tid \in Nat, NEW js \in Steps(0, a.N, GEMM_R),
         NEW n \in Int, InStep(n, js, a.N, GEMM_R)
  PROVE  \E c \in ColumnSteps(a, tid, js) : InColumns(n, c)
<1> DEFINE start == js + tid * GEMM_UNROLL_N
           E == PanelEnd(a, js)
           F == SecondLoopEnd(a, tid, js)
<1>1. /\ js \in Nat /\ start \in Nat /\ js <= start /\ E \in Nat /\ F \in Nat
      /\ F = Least(start, E) /\ js <= n /\ n < E
  BY PanelBounds
<1>2. ColumnSteps(a, tid, js)
        = {[half |-> 1, jjs |-> jjs, end |-> E] : jjs \in Steps(start, E, GEMM_UNROLL_N)}
            \cup {[half |-> 2, jjs |-> jjs, end |-> F] : jjs \in Steps(js, F, GEMM_UNROLL_N)}
  BY DEF ColumnSteps
<1>3. GEMM_UNROLL_N \in Nat \ {0}
  BY SizesAssumption
<1> HIDE DEF start, E, F
<1>4. CASE start <= n
  <2>1. n \in start .. E - 1
    BY <1>1, <1>4
  <2>2. PICK jjs \in Steps(start, E, GEMM_UNROLL_N) : InStep(n, jjs, E, GEMM_UNROLL_N)
    BY <1>1, <1>3, <2>1, StepsCover
  <2> DEFINE c == [half |-> 1, jjs |-> jjs, end |-> E]
  <2>3. c \in ColumnSteps(a, tid, js)
    BY <1>2
  <2>4. InColumns(n, c)
    BY <2>2 DEF InColumns
  <2> HIDE DEF c
  <2> QED
    BY <2>3, <2>4
<1>5. CASE n < start
  <2>1. n \in js .. F - 1
    BY <1>1, <1>5 DEF Least
  <2>2. PICK jjs \in Steps(js, F, GEMM_UNROLL_N) : InStep(n, jjs, F, GEMM_UNROLL_N)
    BY <1>1, <1>3, <2>1, StepsCover
  <2> DEFINE c == [half |-> 2, jjs |-> jjs, end |-> F]
  <2>3. c \in ColumnSteps(a, tid, js)
    BY <1>2
  <2>4. InColumns(n, c)
    BY <2>2 DEF InColumns
  <2> HIDE DEF c
  <2> QED
    BY <2>3, <2>4
<1> QED
  BY <1>1, <1>4, <1>5

LEMMA ColumnsApart ==
  ASSUME NEW a \in Args, NEW tid \in Nat, NEW js \in Steps(0, a.N, GEMM_R), NEW n \in Int,
         NEW c \in ColumnSteps(a, tid, js), InColumns(n, c)
  PROVE  /\ InStep(n, js, a.N, GEMM_R)
         /\ \A d \in ColumnSteps(a, tid, js) : InColumns(n, d) => d = c
<1> DEFINE start == js + tid * GEMM_UNROLL_N
           E == PanelEnd(a, js)
           F == SecondLoopEnd(a, tid, js)
<1>1. /\ js \in Nat /\ start \in Nat /\ js <= start /\ E \in Nat /\ F \in Nat
      /\ F = Least(start, E)
      /\ js <= n /\ n < E <=> InStep(n, js, a.N, GEMM_R)
  BY PanelBounds
<1>2. ColumnSteps(a, tid, js)
        = {[half |-> 1, jjs |-> jjs, end |-> E] : jjs \in Steps(start, E, GEMM_UNROLL_N)}
            \cup {[half |-> 2, jjs |-> jjs, end |-> F] : jjs \in Steps(js, F, GEMM_UNROLL_N)}
  BY DEF ColumnSteps
<1>3. GEMM_UNROLL_N \in Nat \ {0}
  BY SizesAssumption
<1> HIDE DEF start, E, F
<1>4. ASSUME NEW d \in ColumnSteps(a, tid, js), InColumns(n, d)
      PROVE  \/ /\ d.jjs \in Steps(start, E, GEMM_UNROLL_N) /\ InStep(n, d.jjs, E, GEMM_UNROLL_N)
                /\ start <= n /\ n < E /\ d = [half |-> 1, jjs |-> d.jjs, end |-> E]
             \/ /\ d.jjs \in Steps(js, F, GEMM_UNROLL_N) /\ InStep(n, d.jjs, F, GEMM_UNROLL_N)
                /\ js <= n /\ n < F /\ d = [half |-> 2, jjs |-> d.jjs, end |-> F]
  <2>1. CASE \E jjs \in Steps(start, E, GEMM_UNROLL_N) : d = [half |-> 1, jjs |-> jjs, end |-> E]
    <3>1. /\ d.jjs \in Steps(start, E, GEMM_UNROLL_N) /\ InStep(n, d.jjs, E, GEMM_UNROLL_N)
          /\ d = [half |-> 1, jjs |-> d.jjs, end |-> E]
      BY <1>4, <2>1 DEF InColumns
    <3>2. n \in start .. E - 1
      BY <1>1, <1>3, <3>1, StepsWithin
    <3> QED
      BY <1>1, <3>1, <3>2
  <2>2. CASE \E jjs \in Steps(js, F, GEMM_UNROLL_N) : d = [half |-> 2, jjs |-> jjs, end |-> F]
    <3>1. /\ d.jjs \in Steps(js, F, GEMM_UNROLL_N) /\ InStep(n, d.jjs, F, GEMM_UNROLL_N)
          /\ d = [half |-> 2, jjs |-> d.jjs, end |-> F]
      BY <1>4, <2>2 DEF InColumns
    <3>2. n \in js .. F - 1
      BY <1>1, <1>3, <3>1, StepsWithin
    <3> QED
      BY <1>1, <3>1, <3>2
  <2> QED
    BY <1>2, <2>1, <2>2
<1>5. F <= start /\ F <= E
  BY <1>1 DEF Least
<1>6. InStep(n, js, a.N, GEMM_R)
  BY <1>1, <1>4, <1>5
<1>7. ASSUME NEW d \in ColumnSteps(a, tid, js), InColumns(n, d) PROVE d = c
  <2>1. CASE start <= n
    <3>1. /\ \A e \in {c, d} : /\ e.jjs \in Steps(start, E, GEMM_UNROLL_N)
                               /\ InStep(n, e.jjs, E, GEMM_UNROLL_N)
                               /\ e = [half |-> 1, jjs |-> e.jjs, end |-> E]
      BY <1>1, <1>4, <1>5, <1>7, <2>1
    <3>2. c.jjs = d.jjs
      BY <1>1, <1>3, <3>1, StepsApart
    <3> QED
      BY <3>1, <3>2
  <2>2. CASE n < start
    <3>1. /\ \A e \in {c, d} : /\ e.jjs \in Steps(js, F, GEMM_UNROLL_N)
                               /\ InStep(n, e.jjs, F, GEMM_UNROLL_N)
                               /\ e = [half |-> 2, jjs |-> e.jjs, end |-> F]
      BY <1>1, <1>4, <1>5, <1>7, <2>2
    <3>2. c.jjs = d.jjs
      BY <1>1, <1>3, <3>1, StepsApart
    <3> QED
      BY <3>1, <3>2
  <2> QED
    BY <1>1, <2>1, <2>2
<1> QED
  BY <1>6, <1>7

-----------------------------------------------------------------------------
(* The blocks of a thread.                                                 *)

BlockAt(a, tid, ls, is, js, c) ==
  [ls |-> ls, minL |-> MinL(a, ls), is |-> is, minI |-> MinI(a, tid, is), js |-> js,
   half |-> c.half, jjs |-> c.jjs, minjj |-> Least(c.end - c.jjs, GEMM_UNROLL_N)]

LEMMA BlocksAre ==
  ASSUME NEW a \in Args, NEW tid
  PROVE  LET A == Steps(0, a.K, GEMM_Q)
             B == Steps(RangeM(a.M, a.threads)[tid], RangeM(a.M, a.threads)[tid + 1], GEMM_P)
             D == Steps(0, a.N, GEMM_R)
         IN /\ \A x \in Blocks(a, tid) : \E ls \in A : \E is \in B : \E js \in D :
                 \E c \in ColumnSteps(a, tid, js) : x = BlockAt(a, tid, ls, is, js, c)
            /\ \A ls \in A : \A is \in B : \A js \in D : \A c \in ColumnSteps(a, tid, js) :
                 BlockAt(a, tid, ls, is, js, c) \in Blocks(a, tid)
<1> DEFINE A == Steps(0, a.K, GEMM_Q)
           B == Steps(RangeM(a.M, a.threads)[tid], RangeM(a.M, a.threads)[tid + 1], GEMM_P)
           D == Steps(0, a.N, GEMM_R)
           Panel(ls, is, js) == {BlockAt(a, tid, ls, is, js, c) : c \in ColumnSteps(a, tid, js)}
<1>1. Blocks(a, tid) = UNION {Panel(x[1], x[2], x[3]) : x \in A \X B \X D}
  BY DEF Blocks, BlockAt
<1> HIDE DEF A, B, D
<1>2. ASSUME NEW x \in Blocks(a, tid)
      PROVE  \E ls \in A : \E is \in B : \E js \in D : \E c \in ColumnSteps(a, tid, js) :
               x = BlockAt(a, tid, ls, is, js, c)
  <2>1. PICK y \in A \X B \X D : x \in Panel(y[1], y[2], y[3])
    BY <1>1
  <2>2. y[1] \in A /\ y[2] \in B /\ y[3] \in D
    OBVIOUS
  <2>3. \E c \in ColumnSteps(a, tid, y[3]) : x = BlockAt(a, tid, y[1], y[2], y[3], c)
    BY <2>1
  <2> QED
    BY <2>2, <2>3
<1>3. ASSUME NEW ls \in A, NEW is \in B, NEW js \in D, NEW c \in ColumnSteps(a, tid, js)
      PROVE  BlockAt(a, tid, ls, is, js, c) \in Blocks(a, tid)
  <2>1. <<ls, is, js>> \in A \X B \X D
    OBVIOUS
  <2>2. BlockAt(a, tid, ls, is, js, c) \in Panel(<<ls, is, js>>[1], <<ls, is, js>>[2], <<ls, is, js>>[3])
    OBVIOUS
  <2> QED
    BY <1>1, <2>1, <2>2
<1> QED
  BY <1>2, <1>3 DEF A, B, D

(* The products <<m, n, l>> that go into r with a block.                   *)
Products(x) == RowsOf(x) \X ColumnsOf(x) \X TermsOf(x)

(* Whatever is in a block is in one step of each loop.                     *)
InLoops(a, tid, ls, is, js, c, y) ==
  /\ InStep(y[1], is, RangeM(a.M, a.threads)[tid + 1], GEMM_P)
  /\ InColumns(y[2], c)
  /\ InStep(y[3], ls, a.K, GEMM_Q)

LEMMA LoopBounds ==
  ASSUME NEW a \in Args, NEW tid \in Threads(a)
  PROVE  /\ tid \in Nat /\ RangeM(a.M, a.threads)[tid] \in Nat
         /\ RangeM(a.M, a.threads)[tid + 1] \in Nat
         /\ a.K \in Nat /\ a.N \in Nat
         /\ GEMM_P \in Nat \ {0} /\ GEMM_Q \in Nat \ {0} /\ GEMM_R \in Nat \ {0}
         /\ GEMM_UNROLL_N \in Nat \ {0}
<1>1. tid \in 0 .. a.threads - 1 /\ a.threads \in Nat
  BY ThreadsHaveRanges, ArgsPositive
<1>2. tid \in 0 .. a.threads /\ tid + 1 \in 0 .. a.threads
  BY <1>1
<1>3. RangeM(a.M, a.threads) \in [0 .. a.threads -> 0 .. a.M] /\ a.M \in Nat
  BY RangesRise, ArgsPositive
<1>4. RangeM(a.M, a.threads)[tid] \in 0 .. a.M /\ RangeM(a.M, a.threads)[tid + 1] \in 0 .. a.M
  BY <1>2, <1>3
<1>5. RangeM(a.M, a.threads)[tid] \in Nat /\ RangeM(a.M, a.threads)[tid + 1] \in Nat
  BY <1>3, <1>4
<1> QED
  BY <1>1, <1>5, ArgsPositive, SizesAssumption

LEMMA ColumnNumbers ==
  ASSUME NEW a \in Args, NEW tid \in Nat, NEW js \in Steps(0, a.N, GEMM_R),
         NEW c \in ColumnSteps(a, tid, js)
  PROVE  c.jjs \in Nat /\ c.end \in Nat /\ c.half \in Nat
<1> DEFINE start == js + tid * GEMM_UNROLL_N
           E == PanelEnd(a, js)
           F == SecondLoopEnd(a, tid, js)
<1>1. js \in Nat /\ start \in Nat /\ E \in Nat /\ F \in Nat
  BY PanelBounds
<1>2. ColumnSteps(a, tid, js)
        = {[half |-> 1, jjs |-> jjs, end |-> E] : jjs \in Steps(start, E, GEMM_UNROLL_N)}
            \cup {[half |-> 2, jjs |-> jjs, end |-> F] : jjs \in Steps(js, F, GEMM_UNROLL_N)}
  BY DEF ColumnSteps
<1> HIDE DEF start, E, F
<1>3. \A jjs \in Steps(start, E, GEMM_UNROLL_N) \cup Steps(js, F, GEMM_UNROLL_N) : jjs \in Nat
  BY <1>1 DEF Steps
<1> QED
  BY <1>1, <1>2, <1>3

LEMMA ProductsOfBlock ==
  ASSUME NEW a \in Args, NEW tid \in Threads(a), NEW ls \in Steps(0, a.K, GEMM_Q),
         NEW is \in Steps(RangeM(a.M, a.threads)[tid], RangeM(a.M, a.threads)[tid + 1], GEMM_P),
         NEW js \in Steps(0, a.N, GEMM_R), NEW c \in ColumnSteps(a, tid, js),
         NEW y \in Int \X Int \X Int
  PROVE  y \in Products(BlockAt(a, tid, ls, is, js, c)) <=> InLoops(a, tid, ls, is, js, c, y)
<1> DEFINE x == BlockAt(a, tid, ls, is, js, c)
           to == RangeM(a.M, a.threads)[tid + 1]
<1>1. c.jjs \in Nat /\ c.end \in Nat
  BY LoopBounds, ColumnNumbers
<1>2. /\ to \in Nat /\ a.K \in Nat
      /\ GEMM_P \in Nat \ {0} /\ GEMM_Q \in Nat \ {0} /\ GEMM_UNROLL_N \in Nat \ {0}
  BY LoopBounds
<1>3. ls \in Nat /\ is \in Nat
  BY LoopBounds DEF Steps
<1>4. /\ x.is = is /\ x.minI = Least(to - is, GEMM_P)
      /\ x.jjs = c.jjs /\ x.minjj = Least(c.end - c.jjs, GEMM_UNROLL_N)
      /\ x.ls = ls /\ x.minL = Least(a.K - ls, GEMM_Q)
  BY DEF BlockAt, MinI, MinL
<1> HIDE DEF x, to
<1>5. y[1] \in Int /\ y[2] \in Int /\ y[3] \in Int /\ y = <<y[1], y[2], y[3]>>
  OBVIOUS
<1>6. y[1] \in RowsOf(x) <=> InStep(y[1], is, to, GEMM_P)
  BY <1>2, <1>3, <1>4, <1>5 DEF RowsOf, InStep, Least
<1>7. y[2] \in ColumnsOf(x) <=> InColumns(y[2], c)
  BY <1>1, <1>2, <1>4, <1>5 DEF ColumnsOf, InColumns, InStep, Least
<1>8. y[3] \in TermsOf(x) <=> InStep(y[3], ls, a.K, GEMM_Q)
  BY <1>2, <1>3, <1>4, <1>5 DEF TermsOf, InStep, Least
<1>9. y \in Products(x) <=> y[1] \in RowsOf(x) /\ y[2] \in ColumnsOf(x) /\ y[3] \in TermsOf(x)
  BY <1>5 DEF Products
<1> QED
  BY <1>6, <1>7, <1>8, <1>9 DEF InLoops, x, to

(* Every product is in a block.                                            *)
LEMMA BlocksCover ==
  ASSUME NEW a \in Args, NEW y \in (0 .. a.M - 1) \X (0 .. a.N - 1) \X (0 .. a.K - 1)
  PROVE  \E t \in Threads(a) : \E x \in Blocks(a, t) : y \in Products(x)
<1>1. /\ y[1] \in 0 .. a.M - 1 /\ y[2] \in 0 .. a.N - 1 /\ y[3] \in 0 .. a.K - 1
      /\ y \in Int \X Int \X Int
  OBVIOUS
<1>2. PICK t \in Threads(a) : InRange(a, t, y[1])
  BY <1>1, RowHasThread
<1> DEFINE from == RangeM(a.M, a.threads)[t]
           to == RangeM(a.M, a.threads)[t + 1]
<1>3. /\ t \in Nat /\ from \in Nat /\ to \in Nat /\ a.K \in Nat /\ a.N \in Nat
      /\ GEMM_P \in Nat \ {0} /\ GEMM_Q \in Nat \ {0} /\ GEMM_R \in Nat \ {0}
  BY LoopBounds
<1>4. y[1] \in from .. to - 1
  BY <1>1, <1>2, <1>3 DEF InRange
<1> HIDE DEF from, to
<1>5. PICK is \in Steps(from, to, GEMM_P) : InStep(y[1], is, to, GEMM_P)
  BY <1>3, <1>4, StepsCover
<1>6. PICK ls \in Steps(0, a.K, GEMM_Q) : InStep(y[3], ls, a.K, GEMM_Q)
  BY <1>1, <1>3, StepsCover
<1>7. PICK js \in Steps(0, a.N, GEMM_R) : InStep(y[2], js, a.N, GEMM_R)
  BY <1>1, <1>3, StepsCover
<1>8. PICK c \in ColumnSteps(a, t, js) : InColumns(y[2], c)
  BY <1>1, <1>3, <1>7, ColumnsCover
<1>9. InLoops(a, t, ls, is, js, c, y)
  BY <1>5, <1>6, <1>8 DEF InLoops, to
<1>10. y \in Products(BlockAt(a, t, ls, is, js, c))
  BY <1>1, <1>9, ProductsOfBlock DEF from, to
<1>11. BlockAt(a, t, ls, is, js, c) \in Blocks(a, t)
  BY BlocksAre DEF from, to
<1> QED
  BY <1>10, <1>11

(* A block stays within the rows of its thread.                            *)
LEMMA BlockWithinRange ==
  ASSUME NEW a \in Args, NEW t \in Threads(a), NEW x \in Blocks(a, t), NEW row \in RowsOf(x)
  PROVE  row \in Int /\ InRange(a, t, row)
<1> DEFINE from == RangeM(a.M, a.threads)[t]
           to == RangeM(a.M, a.threads)[t + 1]
<1>1. from \in Nat /\ to \in Nat /\ GEMM_P \in Nat \ {0}
  BY LoopBounds
<1>2. PICK ls \in Steps(0, a.K, GEMM_Q) : \E is \in Steps(from, to, GEMM_P) :
        \E js \in Steps(0, a.N, GEMM_R) : \E c \in ColumnSteps(a, t, js) :
          x = BlockAt(a, t, ls, is, js, c)
  BY BlocksAre
<1>3. PICK is \in Steps(from, to, GEMM_P) :
        \E js \in Steps(0, a.N, GEMM_R) : \E c \in ColumnSteps(a, t, js) :
          x = BlockAt(a, t, ls, is, js, c)
  BY <1>2
<1>4. x.is = is /\ x.minI = Least(to - is, GEMM_P)
  BY <1>3 DEF BlockAt, MinI
<1> HIDE DEF from, to
<1>5. is \in from .. to - 1
  BY DEF Steps
<1>6. row \in Int /\ from <= row /\ row < to
  BY <1>1, <1>4, <1>5 DEF RowsOf, Least
<1> QED
  BY <1>6 DEF InRange, from, to

(* A product is in one block of one thread.                                *)
LEMMA BlocksApart ==
  ASSUME NEW a \in Args, NEW t \in Threads(a), NEW u \in Threads(a),
         NEW x \in Blocks(a, t), NEW z \in Blocks(a, u),
         NEW y \in Int \X Int \X Int, y \in Products(x), y \in Products(z)
  PROVE  t = u /\ x = z
<1>1. y[1] \in RowsOf(x) /\ y[1] \in RowsOf(z) /\ y[1] \in Int /\ y[2] \in Int /\ y[3] \in Int
  BY DEF Products
<1>2. InRange(a, t, y[1]) /\ InRange(a, u, y[1])
  BY <1>1, BlockWithinRange
<1>3. t = u
  BY <1>1, <1>2, RowHasOneThread
<1> DEFINE from == RangeM(a.M, a.threads)[t]
           to == RangeM(a.M, a.threads)[t + 1]
           A == Steps(0, a.K, GEMM_Q)
           B == Steps(from, to, GEMM_P)
           D == Steps(0, a.N, GEMM_R)
           InOne(ls, is, js, c) == InLoops(a, t, ls, is, js, c, y)
<1>4. /\ t \in Nat /\ from \in Nat /\ to \in Nat /\ a.K \in Nat /\ a.N \in Nat
      /\ GEMM_P \in Nat \ {0} /\ GEMM_Q \in Nat \ {0} /\ GEMM_R \in Nat \ {0}
  BY LoopBounds
<1>5. ASSUME NEW w \in Blocks(a, t), y \in Products(w)
      PROVE  \E ls \in A : \E is \in B : \E js \in D : \E c \in ColumnSteps(a, t, js) :
               w = BlockAt(a, t, ls, is, js, c) /\ InOne(ls, is, js, c)
  <2>1. PICK ls \in A : \E is \in B : \E js \in D : \E c \in ColumnSteps(a, t, js) :
          w = BlockAt(a, t, ls, is, js, c)
    BY <1>5, BlocksAre
  <2>2. PICK is \in B : \E js \in D : \E c \in ColumnSteps(a, t, js) :
          w = BlockAt(a, t, ls, is, js, c)
    BY <2>1
  <2>3. PICK js \in D : \E c \in ColumnSteps(a, t, js) : w = BlockAt(a, t, ls, is, js, c)
    BY <2>2
  <2>4. PICK c \in ColumnSteps(a, t, js) : w = BlockAt(a, t, ls, is, js, c)
    BY <2>3
  <2>5. InOne(ls, is, js, c)
    BY <1>5, <2>4, ProductsOfBlock
  <2> QED
    BY <2>4, <2>5
<1>6. ASSUME NEW ls \in A, NEW is \in B, NEW js \in D, NEW c \in ColumnSteps(a, t, js),
             NEW lz \in A, NEW iz \in B, NEW jz \in D, NEW d \in ColumnSteps(a, t, jz),
             InOne(ls, is, js, c), InOne(lz, iz, jz, d)
      PROVE  BlockAt(a, t, ls, is, js, c) = BlockAt(a, t, lz, iz, jz, d)
  <2>1. /\ InStep(y[1], is, to, GEMM_P) /\ InColumns(y[2], c) /\ InStep(y[3], ls, a.K, GEMM_Q)
        /\ InStep(y[1], iz, to, GEMM_P) /\ InColumns(y[2], d) /\ InStep(y[3], lz, a.K, GEMM_Q)
    BY <1>6 DEF InLoops
  <2> HIDE DEF from, to
  <2>2. is = iz
    BY <1>1, <1>4, <2>1, StepsApart
  <2>3. ls = lz
    BY <1>1, <1>4, <2>1, StepsApart
  <2>4. InStep(y[2], js, a.N, GEMM_R) /\ InStep(y[2], jz, a.N, GEMM_R)
    BY <1>1, <1>4, <2>1, ColumnsApart
  <2>5. js = jz
    BY <1>1, <1>4, <2>4, StepsApart
  <2>6. c = d
    BY <1>1, <1>4, <2>1, <2>5, ColumnsApart
  <2> QED
    BY <2>2, <2>3, <2>5, <2>6
<1> HIDE DEF A, B, D, InOne
<1>7. PICK ls \in A : \E is \in B : \E js \in D : \E c \in ColumnSteps(a, t, js) :
        x = BlockAt(a, t, ls, is, js, c) /\ InOne(ls, is, js, c)
  BY <1>5
<1>8. PICK is \in B : \E js \in D : \E c \in ColumnSteps(a, t, js) :
        x = BlockAt(a, t, ls, is, js, c) /\ InOne(ls, is, js, c)
  BY <1>7
<1>9. PICK js \in D : \E c \in ColumnSteps(a, t, js) :
        x = BlockAt(a, t, ls, is, js, c) /\ InOne(ls, is, js, c)
  BY <1>8
<1>10. PICK c \in ColumnSteps(a, t, js) : x = BlockAt(a, t, ls, is, js, c) /\ InOne(ls, is, js, c)
  BY <1>9
<1>11. PICK lz \in A : \E iz \in B : \E jz \in D : \E d \in ColumnSteps(a, t, jz) :
        z = BlockAt(a, t, lz, iz, jz, d) /\ InOne(lz, iz, jz, d)
  BY <1>3, <1>5
<1>12. PICK iz \in B : \E jz \in D : \E d \in ColumnSteps(a, t, jz) :
        z = BlockAt(a, t, lz, iz, jz, d) /\ InOne(lz, iz, jz, d)
  BY <1>11
<1>13. PICK jz \in D : \E d \in ColumnSteps(a, t, jz) :
        z = BlockAt(a, t, lz, iz, jz, d) /\ InOne(lz, iz, jz, d)
  BY <1>12
<1>14. PICK d \in ColumnSteps(a, t, jz) : z = BlockAt(a, t, lz, iz, jz, d) /\ InOne(lz, iz, jz, d)
  BY <1>13
<1> QED
  BY <1>3, <1>6, <1>10, <1>14

-----------------------------------------------------------------------------
(* The block a thread computes next is one of those it has left.           *)
Numbered(x) == x.ls \in Nat /\ x.is \in Nat /\ x.js \in Nat /\ x.half \in Nat /\ x.jjs \in Nat

LEMMA BlocksNumbered ==
  ASSUME NEW a \in Args, NEW t \in Threads(a), NEW x \in Blocks(a, t) PROVE Numbered(x)
<1> DEFINE from == RangeM(a.M, a.threads)[t]
           to == RangeM(a.M, a.threads)[t + 1]
<1>1. t \in Nat /\ from \in Nat /\ to \in Nat
  BY LoopBounds
<1>2. PICK ls \in Steps(0, a.K, GEMM_Q) : \E is \in Steps(from, to, GEMM_P) :
        \E js \in Steps(0, a.N, GEMM_R) : \E c \in ColumnSteps(a, t, js) :
          x = BlockAt(a, t, ls, is, js, c)
  BY BlocksAre
<1>3. PICK is \in Steps(from, to, GEMM_P) :
        \E js \in Steps(0, a.N, GEMM_R) : \E c \in ColumnSteps(a, t, js) :
          x = BlockAt(a, t, ls, is, js, c)
  BY <1>2
<1>4. PICK js \in Steps(0, a.N, GEMM_R) : \E c \in ColumnSteps(a, t, js) :
          x = BlockAt(a, t, ls, is, js, c)
  BY <1>3
<1>5. PICK c \in ColumnSteps(a, t, js) : x = BlockAt(a, t, ls, is, js, c)
  BY <1>4
<1>6. ls \in Nat /\ is \in Nat /\ js \in Nat
  BY <1>1 DEF Steps
<1>7. c.jjs \in Nat /\ c.half \in Nat
  BY <1>1, ColumnNumbers
<1>8. x.ls = ls /\ x.is = is /\ x.js = js /\ x.half = c.half /\ x.jjs = c.jjs
  BY <1>5 DEF BlockAt
<1> QED
  BY <1>6, <1>7, <1>8 DEF Numbered

LEMMA FirstBlock ==
  ASSUME NEW T, T # {}, \A x \in T : Numbered(x)
  PROVE  \E x \in T : \A y \in T : NoLater(x, y)
<1>1. PICK l \in {x.ls : x \in T} : \A k \in {x.ls : x \in T} : l <= k
  <2>1. {x.ls : x \in T} \in SUBSET Nat /\ {x.ls : x \in T} # {}
    BY DEF Numbered
  <2> QED
    BY <2>1, LeastOne
<1> DEFINE T1 == {x \in T : x.ls = l}
<1>2. PICK i \in {x.is : x \in T1} : \A k \in {x.is : x \in T1} : i <= k
  <2>1. {x.is : x \in T1} \in SUBSET Nat /\ {x.is : x \in T1} # {}
    BY <1>1 DEF Numbered
  <2> QED
    BY <2>1, LeastOne
<1> DEFINE T2 == {x \in T1 : x.is = i}
<1>3. PICK j \in {x.js : x \in T2} : \A k \in {x.js : x \in T2} : j <= k
  <2>1. {x.js : x \in T2} \in SUBSET Nat /\ {x.js : x \in T2} # {}
    BY <1>2 DEF Numbered
  <2> QED
    BY <2>1, LeastOne
<1> DEFINE T3 == {x \in T2 : x.js = j}
<1>4. PICK h \in {x.half : x \in T3} : \A k \in {x.half : x \in T3} : h <= k
  <2>1. {x.half : x \in T3} \in SUBSET Nat /\ {x.half : x \in T3} # {}
    BY <1>3 DEF Numbered
  <2> QED
    BY <2>1, LeastOne
<1> DEFINE T4 == {x \in T3 : x.half = h}
<1>5. PICK g \in {x.jjs : x \in T4} : \A k \in {x.jjs : x \in T4} : g <= k
  <2>1. {x.jjs : x \in T4} \in SUBSET Nat /\ {x.jjs : x \in T4} # {}
    BY <1>4 DEF Numbered
  <2> QED
    BY <2>1, LeastOne
<1>6. PICK x \in T4 : x.jjs = g
  BY <1>5
<1>7. x \in T /\ x.ls = l /\ x.is = i /\ x.js = j /\ x.half = h /\ x.jjs = g
  BY <1>6
<1>8. ASSUME NEW y \in T PROVE NoLater(x, y)
  <2>1. Numbered(x) /\ Numbered(y)
    BY <1>7
  <2>2. /\ l <= y.ls
        /\ y.ls = l => i <= y.is
        /\ y.ls = l /\ y.is = i => j <= y.js
        /\ y.ls = l /\ y.is = i /\ y.js = j => h <= y.half
        /\ y.ls = l /\ y.is = i /\ y.js = j /\ y.half = h => g <= y.jjs
    BY <1>1, <1>2, <1>3, <1>4, <1>5
  <2> QED
    BY <1>7, <2>1, <2>2 DEF NoLater, Numbered
<1> QED
  BY <1>7, <1>8

-----------------------------------------------------------------------------
(* The inductive invariant.  What a thread has loaded are rows of its      *)
(* range; what has gone into r are the products of the blocks computed.    *)

Pending(y) == \E t \in Threads(args) : \E x \in todo[t] : y \in Products(x)

BlocksLeft ==
  /\ args \in Args
  /\ DOMAIN todo = Threads(args)
  /\ \A t \in Threads(args) : todo[t] \subseteq Blocks(args, t)

RowsLoaded ==
  /\ DOMAIN loaded = Threads(args)
  /\ \A t \in Threads(args) : loaded[t] # NoRows => todo[t] # {}
  /\ \A t \in Threads(args) : \A row \in DOMAIN loaded[t] : row \in Int /\ InRange(args, t, row)

AddedSoFar ==
  /\ DOMAIN added = Row \X Column \X Term
  /\ \A y \in DOMAIN added : added[y] = IF Pending(y) THEN 0 ELSE 1

Inductive == BlocksLeft /\ RowsLoaded /\ AddedSoFar

LEMMA CurrentIsLeft ==
  ASSUME BlocksLeft, NEW t \in Threads(args), todo[t] # {}
  PROVE  Current(t) \in todo[t] /\ Current(t) \in Blocks(args, t)
<1>1. \A x \in todo[t] : Numbered(x)
  BY BlocksNumbered DEF BlocksLeft
<1>2. \E x \in todo[t] : \A y \in todo[t] : NoLater(x, y)
  BY <1>1, FirstBlock
<1>3. Current(t) \in todo[t]
  BY <1>2 DEF Current
<1> QED
  BY <1>3 DEF BlocksLeft

LEMMA ProductsAreInts ==
  ASSUME BlocksLeft, NEW y \in Row \X Column \X Term
  PROVE  /\ y \in (0 .. args.M - 1) \X (0 .. args.N - 1) \X (0 .. args.K - 1)
         /\ y \in Int \X Int \X Int
BY DEF Row, Column, Term

LEMMA InductiveInit == Init => Inductive
<1> SUFFICES ASSUME Init PROVE Inductive
  OBVIOUS
<1>1. BlocksLeft
  BY DEF Init, BlocksLeft, Args
<1>2. RowsLoaded
  <2>1. DOMAIN NoRows = {}
    BY DEF NoRows
  <2> QED
    BY <2>1 DEF Init, RowsLoaded
<1>3. \A y \in Row \X Column \X Term : Pending(y)
  <2> SUFFICES ASSUME NEW y \in Row \X Column \X Term PROVE Pending(y)
    OBVIOUS
  <2>1. \E t \in Threads(args) : \E x \in Blocks(args, t) : y \in Products(x)
    BY <1>1, ProductsAreInts, BlocksCover DEF BlocksLeft
  <2>2. \A t \in Threads(args) : todo[t] = Blocks(args, t)
    BY DEF Init
  <2> QED
    BY <2>1, <2>2 DEF Pending
<1>4. AddedSoFar
  BY <1>3 DEF Init, AddedSoFar
<1> QED
  BY <1>1, <1>2, <1>4 DEF Inductive

LEMMA LoadRowsStep ==
  ASSUME Inductive, NEW t \in DOMAIN todo, LoadRows(t) PROVE Inductive'
<1>1. BlocksLeft /\ RowsLoaded /\ AddedSoFar
  BY DEF Inductive
<1>2. args' = args /\ todo' = todo /\ added' = added /\ todo[t] # {} /\ t \in Threads(args)
  BY <1>1 DEF LoadRows, BlocksLeft
<1>3. BlocksLeft'
  BY <1>1, <1>2 DEF BlocksLeft
<1>4. RowsLoaded'
  <2> DEFINE rows == [m \in RowsOf(Current(t)) |-> r[m]]
  <2>1. loaded' = [loaded EXCEPT ![t] = rows] /\ DOMAIN rows = RowsOf(Current(t))
    BY DEF LoadRows
  <2>2. Current(t) \in Blocks(args, t) /\ args \in Args
    BY <1>1, <1>2, CurrentIsLeft DEF BlocksLeft
  <2> HIDE DEF rows
  <2>3. \A row \in DOMAIN rows : row \in Int /\ InRange(args, t, row)
    BY <1>2, <2>1, <2>2, BlockWithinRange
  <2>4. /\ DOMAIN loaded' = Threads(args) /\ loaded'[t] = rows
        /\ \A u \in Threads(args) : u # t => loaded'[u] = loaded[u]
    BY <1>1, <1>2, <2>1 DEF RowsLoaded
  <2>5. \A u \in Threads(args) : loaded'[u] # NoRows => todo'[u] # {}
    BY <1>1, <1>2, <2>4 DEF RowsLoaded
  <2>6. \A u \in Threads(args) : \A row \in DOMAIN loaded'[u] : row \in Int /\ InRange(args, u, row)
    BY <1>1, <1>2, <2>3, <2>4 DEF RowsLoaded
  <2> QED
    BY <1>2, <2>4, <2>5, <2>6 DEF RowsLoaded
<1>5. AddedSoFar'
  BY <1>1, <1>2 DEF AddedSoFar, Pending, Row, Column, Term
<1> QED
  BY <1>3, <1>4, <1>5 DEF Inductive

LEMMA AddBlockStep ==
  ASSUME Inductive, NEW t \in DOMAIN todo, AddBlock(t) PROVE Inductive'
<1> DEFINE x == Current(t)
<1>1. BlocksLeft /\ RowsLoaded /\ AddedSoFar
  BY DEF Inductive
<1>2. t \in Threads(args) /\ args' = args /\ args \in Args
  BY <1>1 DEF AddBlock, BlocksLeft
<1>3. loaded[t] # NoRows /\ todo[t] # {}
  BY <1>1, <1>2 DEF AddBlock, RowsLoaded
<1>4. x \in todo[t] /\ x \in Blocks(args, t)
  BY <1>1, <1>2, <1>3, CurrentIsLeft
<1>5. /\ added' = [y \in DOMAIN added |-> IF y \in Products(x) THEN added[y] + 1 ELSE added[y]]
      /\ todo' = [todo EXCEPT ![t] = @ \ {x}]
      /\ loaded' = [loaded EXCEPT ![t] = NoRows]
  BY DEF AddBlock, Products
<1> HIDE DEF x
<1>6. /\ DOMAIN todo' = Threads(args) /\ todo'[t] = todo[t] \ {x}
      /\ \A u \in Threads(args) : u # t => todo'[u] = todo[u]
  BY <1>1, <1>2, <1>5 DEF BlocksLeft
<1>7. BlocksLeft'
  BY <1>1, <1>2, <1>6 DEF BlocksLeft
<1>8. RowsLoaded'
  <2>1. DOMAIN NoRows = {}
    BY DEF NoRows
  <2>2. /\ DOMAIN loaded' = Threads(args) /\ loaded'[t] = NoRows
        /\ \A u \in Threads(args) : u # t => loaded'[u] = loaded[u]
    BY <1>1, <1>2, <1>5 DEF RowsLoaded
  <2>3. \A u \in Threads(args) : loaded'[u] # NoRows => todo'[u] # {}
    BY <1>1, <1>6, <2>2 DEF RowsLoaded
  <2>4. \A u \in Threads(args) : \A row \in DOMAIN loaded'[u] : row \in Int /\ InRange(args, u, row)
    BY <1>1, <2>1, <2>2 DEF RowsLoaded
  <2> QED
    BY <1>2, <2>2, <2>3, <2>4 DEF RowsLoaded
<1>9. Row' = Row /\ Column' = Column /\ Term' = Term
  BY <1>2 DEF Row, Column, Term
<1>10. DOMAIN added' = Row \X Column \X Term /\ DOMAIN added = Row \X Column \X Term
  BY <1>1, <1>5 DEF AddedSoFar
<1>11. ASSUME NEW y \in DOMAIN added PROVE added'[y] = IF Pending(y)' THEN 0 ELSE 1
  <2>1. y \in Int \X Int \X Int
    BY <1>1, <1>10, ProductsAreInts
  <2>2. added[y] = IF Pending(y) THEN 0 ELSE 1
    BY <1>1 DEF AddedSoFar
  <2>3. Pending(y)' <=> \E u \in Threads(args) : \E z \in todo'[u] : y \in Products(z)
    BY <1>2 DEF Pending
  <2>4. CASE y \in Products(x)
    <3>1. Pending(y)
      BY <1>2, <1>4, <2>4 DEF Pending
    <3>2. ASSUME NEW u \in Threads(args), NEW z \in todo'[u] PROVE y \notin Products(z)
      <4>1. z \in todo[u] /\ (u = t => z # x)
        BY <1>6
      <4>2. z \in Blocks(args, u)
        BY <1>1, <4>1 DEF BlocksLeft
      <4> QED
        BY <1>2, <1>4, <2>1, <2>4, <4>1, <4>2, BlocksApart
    <3> QED
      BY <1>5, <2>2, <2>3, <2>4, <3>1, <3>2
  <2>5. CASE y \notin Products(x)
    <3>1. Pending(y)' <=> Pending(y)
      BY <1>2, <1>6, <2>3, <2>5 DEF Pending
    <3>2. added'[y] = added[y]
      BY <1>5, <2>5
    <3> QED
      BY <2>2, <3>1, <3>2
  <2> QED
    BY <2>4, <2>5
<1>12. AddedSoFar'
  BY <1>9, <1>10, <1>11 DEF AddedSoFar
<1> QED
  BY <1>7, <1>8, <1>12 DEF Inductive

THEOREM Invariance == Spec => []Inductive
<1>1. Inductive /\ [Next]_vars => Inductive'
  <2> SUFFICES ASSUME Inductive, [Next]_vars PROVE Inductive'
    OBVIOUS
  <2>1. ASSUME NEW t \in DOMAIN todo, LoadRows(t) PROVE Inductive'
    BY <2>1, LoadRowsStep
  <2>2. ASSUME NEW t \in DOMAIN todo, AddBlock(t) PROVE Inductive'
    BY <2>2, AddBlockStep
  <2>3. CASE UNCHANGED vars
    BY <2>3 DEF vars, Inductive, BlocksLeft, RowsLoaded, AddedSoFar, Pending, Row, Column, Term
  <2> QED
    BY <2>1, <2>2, <2>3 DEF Next
<1> QED
  BY <1>1, InductiveInit, PTL DEF Spec

(* No two threads of zgemm_restrain hold values of the same row of r, for  *)
(* every size of the matrices and every number of threads, so that no      *)
(* r[m] += is lost.                                                        *)
THEOREM RowsOfOneThread == Spec => []RowsNotShared
<1>1. Inductive => RowsNotShared
  <2> SUFFICES ASSUME Inductive, NEW t \in Threads(args), NEW u \in Threads(args), t # u,
                      NEW row \in DOMAIN loaded[t], row \in DOMAIN loaded[u]
               PROVE  FALSE
    BY DEF RowsNotShared, Inductive, RowsLoaded
  <2>1. row \in Int /\ InRange(args, t, row) /\ InRange(args, u, row) /\ args \in Args
    BY DEF Inductive, RowsLoaded, BlocksLeft
  <2> QED
    BY <2>1, RowHasOneThread
<1> QED
  BY <1>1, Invariance, PTL

(* The ranges of rows, the two loops over columns and the blocks of K take *)
(* every product once, for every size and every number of threads.         *)
THEOREM TermsOnce == Spec => []EveryTermOnce
<1>1. Inductive => EveryTermOnce
  <2> SUFFICES ASSUME Inductive PROVE EveryTermOnce
    OBVIOUS
  <2>1. \A y \in DOMAIN added : added[y] = IF Pending(y) THEN 0 ELSE 1
    BY DEF Inductive, AddedSoFar
  <2>2. Finished => \A y : ~Pending(y)
    BY DEF Finished, Pending, Inductive, BlocksLeft
  <2> QED
    BY <2>1, <2>2 DEF EveryTermOnce
<1> QED
  BY <1>1, Invariance, PTL

-----------------------------------------------------------------------------
(* A set of parts of S that has the empty one, and with a part all that    *)
(* have one element more, has all.                                         *)
LEMMA PartsInduction ==
  ASSUME NEW S, IsFiniteSet(S), NEW F, {} \in F,
         \A T \in SUBSET S : T \in F => \A x \in S \ T : T \cup {x} \in F
  PROVE  SUBSET S \subseteq F
<1> DEFINE K == {k \in Nat : \A T \in SUBSET S : Cardinality(T) = k => T \in F}
<1>1. \A T \in SUBSET S : IsFiniteSet(T) /\ Cardinality(T) \in Nat
  BY FS_Subset, FS_CardinalityType
<1>2. 0 \in K
  BY <1>1, FS_EmptySet
<1>3. ASSUME NEW k \in Nat, k \in K PROVE k + 1 \in K
  <2> SUFFICES ASSUME NEW T \in SUBSET S, Cardinality(T) = k + 1 PROVE T \in F
    OBVIOUS
  <2>1. PICK x \in T : TRUE
    BY <1>1, FS_EmptySet
  <2>2. Cardinality(T \ {x}) = k
    <3>1. IsFiniteSet(T) /\ x \in T
      BY <1>1
    <3>2. Cardinality(T \ {x}) = Cardinality(T) - 1
      BY <3>1, FS_RemoveElement
    <3> QED
      BY <3>2
  <2>3. T \ {x} \in F /\ x \in S \ (T \ {x}) /\ T = (T \ {x}) \cup {x}
    BY <1>3, <2>1, <2>2
  <2> QED
    BY <2>3
<1>4. Nat \subseteq K
  BY <1>2, <1>3, SetInduction
<1> QED
  BY <1>1, <1>4

-----------------------------------------------------------------------------
(* Sums.  Some(s) is the element MapThenSumSet takes out of s first; f     *)
(* gives, for every part of S, the sum of g over it.                       *)
Some(s) == CHOOSE x \in s : TRUE

Sums(f, g, S) ==
  /\ IsFiniteSet(S) /\ g \in [S -> Int]
  /\ f = [s \in SUBSET S |-> IF s = {} THEN 0 ELSE g[Some(s)] + f[s \ {Some(s)}]]

LEMMA SomeIsIn == \A s : s # {} => Some(s) \in s
BY DEF Some

(* The recursion has a solution on every finite set.                       *)
LEMMA SumsExist ==
  ASSUME NEW S, IsFiniteSet(S), NEW g \in [S -> Int]
  PROVE  \E f : Sums(f, g, S)
<1> DEFINE Up(k) == {s \in SUBSET S : Cardinality(s) <= k}
           Stage(f, k) == /\ f \in [Up(k) -> Int]
                          /\ \A s \in Up(k) :
                               f[s] = IF s = {} THEN 0 ELSE g[Some(s)] + f[s \ {Some(s)}]
           K == {k \in Nat : \E f : Stage(f, k)}
<1>1. \A s \in SUBSET S : IsFiniteSet(s) /\ Cardinality(s) \in Nat
  BY FS_Subset, FS_CardinalityType
<1>2. \A s \in SUBSET S : s # {} => Some(s) \in S /\ Cardinality(s \ {Some(s)}) = Cardinality(s) - 1
  BY <1>1, SomeIsIn, FS_RemoveElement
<1>3. 0 \in K
  <2> DEFINE h == [s \in Up(0) |-> 0]
  <2>1. \A s \in Up(0) : s = {}
    BY <1>1, FS_EmptySet
  <2>2. h \in [Up(0) -> Int] /\ \A s \in Up(0) : h[s] = 0
    OBVIOUS
  <2> HIDE DEF h
  <2>3. Stage(h, 0)
    BY <2>1, <2>2
  <2> QED
    BY <2>3
<1>4. ASSUME NEW k \in Nat, k \in K PROVE k + 1 \in K
  <2>1. PICK f : Stage(f, k)
    BY <1>4
  <2> DEFINE h == [s \in Up(k + 1) |-> IF s = {} THEN 0 ELSE g[Some(s)] + f[s \ {Some(s)}]]
  <2>2. \A s \in Up(k + 1) : s # {} => s \ {Some(s)} \in Up(k) /\ g[Some(s)] \in Int
    BY <1>1, <1>2
  <2>3. h \in [Up(k + 1) -> Int]
    BY <2>1, <2>2
  <2>4. \A s \in Up(k) : s \in Up(k + 1) /\ h[s] = f[s]
    <3>1. \A s \in Up(k) : s \in Up(k + 1)
      BY <1>1
    <3> QED
      BY <2>1, <3>1
  <2>5. \A s \in Up(k + 1) : h[s] = IF s = {} THEN 0 ELSE g[Some(s)] + h[s \ {Some(s)}]
    BY <2>2, <2>4
  <2> HIDE DEF h
  <2>6. Stage(h, k + 1)
    BY <2>3, <2>5
  <2>7. \E e : Stage(e, k + 1)
    BY <2>6
  <2>8. k + 1 \in Nat
    OBVIOUS
  <2> HIDE DEF Stage
  <2> QED
    BY <2>7, <2>8
<1>5. PICK f : Stage(f, Cardinality(S))
  <2>1. Cardinality(S) \in K
    BY <1>1, <1>3, <1>4, SetInduction
  <2> QED
    BY <2>1
<1>6. Up(Cardinality(S)) = SUBSET S
  BY <1>1, FS_Subset
<1> HIDE DEF Up
<1>7. f = [s \in SUBSET S |-> f[s]]
  BY <1>5, <1>6
<1>8. \A s \in SUBSET S : f[s] = IF s = {} THEN 0 ELSE g[Some(s)] + f[s \ {Some(s)}]
  BY <1>5, <1>6
<1>9. Sums(f, g, S)
  BY <1>7, <1>8 DEF Sums
<1> QED
  BY <1>9

(* What can be said of the parts of a finite set by their size.            *)
LEMMA SizeInduction ==
  ASSUME NEW S, IsFiniteSet(S), NEW F,
         \A s \in SUBSET S :
           (\A t \in SUBSET S : Cardinality(t) + 1 = Cardinality(s) => t \in F) => s \in F
  PROVE  SUBSET S \subseteq F
<1> DEFINE K == {k \in Nat : \A s \in SUBSET S : Cardinality(s) = k => s \in F}
<1>1. \A s \in SUBSET S : Cardinality(s) \in Nat
  BY FS_Subset, FS_CardinalityType
<1>2. 0 \in K
  BY <1>1
<1>3. ASSUME NEW k \in Nat, k \in K PROVE k + 1 \in K
  BY <1>1, <1>3
<1>4. Nat \subseteq K
  BY <1>2, <1>3, SetInduction
<1> QED
  BY <1>1, <1>4

LEMMA OneLess ==
  ASSUME NEW S, IsFiniteSet(S), NEW s \in SUBSET S, NEW y \in s
  PROVE  s \ {y} \in SUBSET S /\ Cardinality(s \ {y}) + 1 = Cardinality(s)
<1>1. IsFiniteSet(s) /\ Cardinality(s) \in Nat
  BY FS_Subset, FS_CardinalityType
<1>2. Cardinality(s \ {y}) = Cardinality(s) - 1
  BY <1>1, FS_RemoveElement
<1> QED
  BY <1>1, <1>2

(* A sum is a number.                                                      *)
LEMMA SumsAreInts ==
  ASSUME NEW S, NEW g, NEW f, Sums(f, g, S), NEW s \in SUBSET S
  PROVE  f[s] \in Int
<1>0. IsFiniteSet(S) /\ g \in [S -> Int]
  BY DEF Sums
<1> DEFINE F == {t \in SUBSET S : f[t] \in Int}
<1>1. ASSUME NEW t \in SUBSET S,
             \A u \in SUBSET S : Cardinality(u) + 1 = Cardinality(t) => u \in F
      PROVE  t \in F
  <2>1. CASE t = {}
    BY <2>1 DEF Sums
  <2>2. CASE t # {}
    <3> DEFINE x == Some(t)
    <3>1. x \in t /\ g[x] \in Int
      BY <1>0, <2>2, SomeIsIn
    <3>2. f[t] = g[x] + f[t \ {x}]
      BY <2>2 DEF Sums
    <3> HIDE DEF x
    <3>3. t \ {x} \in F
      BY <1>0, <1>1, <3>1, OneLess
    <3> QED
      BY <3>1, <3>2, <3>3
  <2> QED
    BY <2>1, <2>2
<1> HIDE DEF F
<1>2. SUBSET S \subseteq F
  BY <1>0, <1>1, SizeInduction
<1> QED
  BY <1>2 DEF F

(* Any element may be taken out first.                                     *)
LEMMA SumsTakeOut ==
  ASSUME NEW S, NEW g, NEW f, Sums(f, g, S)
  PROVE  \A s \in SUBSET S : \A y \in s : f[s] = g[y] + f[s \ {y}]
<1>0. IsFiniteSet(S) /\ g \in [S -> Int]
  BY DEF Sums
<1> DEFINE F == {t \in SUBSET S : \A z \in t : f[t] = g[z] + f[t \ {z}]}
<1>1. ASSUME NEW t \in SUBSET S,
             \A u \in SUBSET S : Cardinality(u) + 1 = Cardinality(t) => u \in F
      PROVE  t \in F
  <2> SUFFICES ASSUME NEW z \in t PROVE f[t] = g[z] + f[t \ {z}]
    OBVIOUS
  <2> DEFINE x == Some(t)
  <2>1. x \in t /\ f[t] = g[x] + f[t \ {x}]
    BY SomeIsIn DEF Sums
  <2> HIDE DEF x
  <2>2. CASE x # z
    <3> DEFINE v == (t \ {x}) \ {z}
    <3>1. t \ {x} \in F /\ t \ {z} \in F
      BY <1>0, <1>1, <2>1, OneLess
    <3>2. v = (t \ {z}) \ {x} /\ v \in SUBSET S /\ z \in t \ {x} /\ x \in t \ {z}
      BY <2>1, <2>2
    <3>3. f[t \ {x}] = g[z] + f[v] /\ f[t \ {z}] = g[x] + f[v]
      BY <3>1, <3>2
    <3>4. f[v] \in Int /\ g[x] \in Int /\ g[z] \in Int
      BY <1>0, <2>1, <3>2, SumsAreInts
    <3> HIDE DEF v
    <3> QED
      BY <2>1, <3>3, <3>4
  <2> QED
    BY <2>1, <2>2
<1> HIDE DEF F
<1>2. SUBSET S \subseteq F
  BY <1>0, <1>1, SizeInduction
<1> QED
  BY <1>2 DEF F

(* A sum over a part is the same wherever the part is taken from.          *)
LEMMA SumsAgree ==
  ASSUME NEW S, NEW g, NEW f, Sums(f, g, S),
         NEW T \in SUBSET S, NEW h, NEW e, Sums(e, h, T),
         \A x \in T : h[x] = g[x]
  PROVE  e[T] = f[T]
<1>0. IsFiniteSet(S) /\ g \in [S -> Int] /\ IsFiniteSet(T) /\ h \in [T -> Int]
  BY DEF Sums
<1> DEFINE F == {s \in SUBSET T : e[s] = f[s]}
<1>2. {} \in F
  BY DEF Sums
<1>3. ASSUME NEW s \in SUBSET T, s \in F, NEW x \in T \ s PROVE s \cup {x} \in F
  <2>1. s = (s \cup {x}) \ {x} /\ x \in s \cup {x} /\ s \cup {x} \in SUBSET T /\ s \cup {x} \in SUBSET S
    OBVIOUS
  <2>2. e[s \cup {x}] = h[x] + e[s]
    <3> DEFINE t == s \cup {x}
    <3>1. t \in SUBSET T /\ x \in t /\ t \ {x} = s
      OBVIOUS
    <3> HIDE DEF t
    <3>2. e[t] = h[x] + e[t \ {x}]
      BY <3>1, SumsTakeOut
    <3> QED
      BY <3>1, <3>2 DEF t
  <2>3. f[s \cup {x}] = g[x] + f[s]
    BY <2>1, SumsTakeOut
  <2> QED
    BY <1>3, <2>1, <2>2, <2>3
<1> HIDE DEF F
<1>4. SUBSET T \subseteq F
  BY <1>0, <1>2, <1>3, PartsInduction
<1> QED
  BY <1>4 DEF F

(* Sums over two parts with nothing in common add up.                      *)
LEMMA SumsAdd ==
  ASSUME NEW S, NEW g, NEW f, Sums(f, g, S),
         NEW A \in SUBSET S, NEW B \in SUBSET S, A \cap B = {}
  PROVE  f[A \cup B] = f[A] + f[B]
<1>0. IsFiniteSet(S) /\ g \in [S -> Int]
  BY DEF Sums
<1> DEFINE F == {s \in SUBSET B : f[A \cup s] = f[A] + f[s]}
<1>1. IsFiniteSet(B)
  BY <1>0, FS_Subset
<1>2. {} \in F
  <2>1. f[{}] = 0 /\ A \cup {} = A
    BY DEF Sums
  <2>2. f[A] \in Int
    BY SumsAreInts
  <2> QED
    BY <2>1, <2>2
<1>3. ASSUME NEW s \in SUBSET B, s \in F, NEW x \in B \ s PROVE s \cup {x} \in F
  <2> DEFINE t == s \cup {x}
  <2>1. /\ s = t \ {x} /\ x \in t /\ t \in SUBSET S /\ t \in SUBSET B
        /\ A \cup s = (A \cup t) \ {x} /\ x \in A \cup t /\ A \cup t \in SUBSET S
    OBVIOUS
  <2> HIDE DEF t
  <2>2. f[t] = g[x] + f[s]
    BY <2>1, SumsTakeOut
  <2>3. f[A \cup t] = g[x] + f[A \cup s]
    BY <2>1, SumsTakeOut
  <2>4. f[A] \in Int /\ f[s] \in Int /\ g[x] \in Int
    BY <1>0, SumsAreInts
  <2>5. t \in F
    BY <1>3, <2>1, <2>2, <2>3, <2>4
  <2> QED
    BY <2>5 DEF t
<1> HIDE DEF F
<1>4. SUBSET B \subseteq F
  BY <1>0, <1>1, <1>2, <1>3, PartsInduction
<1> QED
  BY <1>4 DEF F

(* What SumOfSquares sums up.                                              *)
Squares(m, C, T) == [n \in C |-> Entry(m, n, T) * Entry(m, n, T)]

LEMMA EntryIsInt ==
  ASSUME NEW m \in Int, NEW n, NEW T \in SUBSET Int, IsFiniteSet(T), args.M \in Int
  PROVE  Entry(m, n, T) \in Int
<1> DEFINE F(f) == [s \in SUBSET T |-> IF s = {} THEN 0
                      ELSE 2 * (m + Some(s) * args.M) + f[s \ {Some(s)}]]
           E == CHOOSE f : f = F(f)
           g == [l \in T |-> 2 * (m + l * args.M)]
<1>1. Entry(m, n, T) = E[T]
  BY DEF Entry, MapThenSumSet, MapThenFoldSet, Some
<1>2. g \in [T -> Int]
  OBVIOUS
<1>3. ASSUME NEW f
      PROVE  F(f) = [s \in SUBSET T |-> IF s = {} THEN 0 ELSE g[Some(s)] + f[s \ {Some(s)}]]
  <2>1. \A s \in SUBSET T : s # {} => g[Some(s)] = 2 * (m + Some(s) * args.M)
    BY SomeIsIn
  <2> QED
    BY <2>1
<1> HIDE DEF F, g
<1>4. E = F(E)
  <2>1. PICK f : Sums(f, g, T)
    BY <1>2, SumsExist
  <2>2. f = F(f)
    BY <1>3, <2>1 DEF Sums
  <2> QED
    BY <2>2
<1> HIDE DEF E
<1>5. Sums(E, g, T)
  BY <1>2, <1>3, <1>4 DEF Sums
<1> QED
  BY <1>1, <1>5, SumsAreInts

LEMMA SquaresAreSums ==
  ASSUME NEW m \in Int, NEW C, IsFiniteSet(C),
         NEW T \in SUBSET Int, IsFiniteSet(T), args.M \in Int
  PROVE  \E f : Sums(f, Squares(m, C, T), C) /\ SumOfSquares(m, C, T) = f[C]
<1> DEFINE F(f) == [s \in SUBSET C |-> IF s = {} THEN 0
                      ELSE Entry(m, Some(s), T) * Entry(m, Some(s), T) + f[s \ {Some(s)}]]
           E == CHOOSE f : f = F(f)
           g == Squares(m, C, T)
<1>1. SumOfSquares(m, C, T) = E[C]
  BY DEF SumOfSquares, MapThenSumSet, MapThenFoldSet, Some
<1>2. g \in [C -> Int]
  <2>1. \A n \in C : Entry(m, n, T) \in Int
    BY EntryIsInt
  <2> QED
    BY <2>1 DEF Squares
<1>3. ASSUME NEW f
      PROVE  F(f) = [s \in SUBSET C |-> IF s = {} THEN 0 ELSE g[Some(s)] + f[s \ {Some(s)}]]
  <2>1. \A s \in SUBSET C : s # {} => g[Some(s)] = Entry(m, Some(s), T) * Entry(m, Some(s), T)
    BY SomeIsIn DEF Squares
  <2> QED
    BY <2>1
<1> HIDE DEF F, g
<1>4. E = F(E)
  <2>1. PICK f : Sums(f, g, C)
    BY <1>2, SumsExist
  <2>2. f = F(f)
    BY <1>3, <2>1 DEF Sums
  <2> QED
    BY <2>2
<1> HIDE DEF E
<1>5. Sums(E, g, C)
  BY <1>2, <1>3, <1>4 DEF Sums
<1> QED
  BY <1>1, <1>5 DEF g

(* Disjoint sets of columns give sums that add up.                         *)
LEMMA SquaresAdd ==
  ASSUME NEW m \in Int, NEW A, NEW B, IsFiniteSet(A), IsFiniteSet(B), A \cap B = {},
         NEW T \in SUBSET Int, IsFiniteSet(T), args.M \in Int
  PROVE  /\ SumOfSquares(m, A \cup B, T) = SumOfSquares(m, A, T) + SumOfSquares(m, B, T)
         /\ SumOfSquares(m, A, T) \in Int
<1> DEFINE S == A \cup B
           g == Squares(m, S, T)
           ga == Squares(m, A, T)
           gb == Squares(m, B, T)
<1>1. IsFiniteSet(S)
  BY FS_Union
<1>2. PICK f : Sums(f, g, S) /\ SumOfSquares(m, S, T) = f[S]
  BY <1>1, SquaresAreSums
<1>3. PICK fa : Sums(fa, ga, A) /\ SumOfSquares(m, A, T) = fa[A]
  BY SquaresAreSums
<1>4. PICK fb : Sums(fb, gb, B) /\ SumOfSquares(m, B, T) = fb[B]
  BY SquaresAreSums
<1>5. (\A x \in A : ga[x] = g[x]) /\ (\A x \in B : gb[x] = g[x])
  BY DEF Squares
<1>6. A \in SUBSET S /\ B \in SUBSET S /\ S = A \cup B
  OBVIOUS
<1> HIDE DEF g, ga, gb, S
<1>7. fa[A] = f[A]
  BY <1>2, <1>3, <1>5, <1>6, SumsAgree
<1>8. fb[B] = f[B]
  BY <1>2, <1>4, <1>5, <1>6, SumsAgree
<1>9. f[A \cup B] = f[A] + f[B]
  <2>1. Sums(f, g, S)
    BY <1>2
  <2> QED
    BY <1>6, <2>1, SumsAdd
<1>10. fa[A] \in Int
  BY <1>3, SumsAreInts
<1> QED
  BY <1>2, <1>3, <1>4, <1>6, <1>7, <1>8, <1>9, <1>10

LEMMA NoSquares ==
  ASSUME NEW m \in Int, NEW T \in SUBSET Int, IsFiniteSet(T), args.M \in Int
  PROVE  SumOfSquares(m, {}, T) = 0
<1>1. PICK f : Sums(f, Squares(m, {}, T), {}) /\ SumOfSquares(m, {}, T) = f[{}]
  BY SquaresAreSums, FS_EmptySet
<1> QED
  BY <1>1 DEF Sums

-----------------------------------------------------------------------------
(* A block stays within the matrices, and where K fits into one block,     *)
(* every block has all terms.                                              *)
LEMMA BlockWithinMatrices ==
  ASSUME NEW a \in Args, NEW t \in Threads(a), NEW x \in Blocks(a, t)
  PROVE  /\ RowsOf(x) \subseteq 0 .. a.M - 1 /\ ColumnsOf(x) \subseteq 0 .. a.N - 1
         /\ a.K <= GEMM_Q => TermsOf(x) = 0 .. a.K - 1
<1> DEFINE from == RangeM(a.M, a.threads)[t]
           to == RangeM(a.M, a.threads)[t + 1]
<1>1. /\ t \in Nat /\ from \in Nat /\ to \in Nat /\ a.K \in Nat /\ a.N \in Nat
      /\ GEMM_P \in Nat \ {0} /\ GEMM_Q \in Nat \ {0} /\ GEMM_R \in Nat \ {0}
      /\ GEMM_UNROLL_N \in Nat \ {0}
  BY LoopBounds
<1>2. a.M \in Nat /\ a.K \in Nat \ {0}
  BY ArgsPositive
<1>3. from \in 0 .. a.M /\ to \in 0 .. a.M
  <2>1. t \in 0 .. a.threads - 1 /\ a.threads \in Nat
    BY ThreadsHaveRanges, ArgsPositive
  <2>2. t \in 0 .. a.threads /\ t + 1 \in 0 .. a.threads
    BY <2>1
  <2>3. RangeM(a.M, a.threads) \in [0 .. a.threads -> 0 .. a.M]
    BY RangesRise
  <2> QED
    BY <2>2, <2>3
<1>4. RowsOf(x) \subseteq 0 .. a.M - 1
  <2> SUFFICES ASSUME NEW row \in RowsOf(x) PROVE row \in 0 .. a.M - 1
    OBVIOUS
  <2>1. row \in Int /\ from <= row /\ row < to
    BY BlockWithinRange DEF InRange
  <2> HIDE DEF from, to
  <2> QED
    BY <1>2, <1>3, <2>1
<1>5. PICK ls \in Steps(0, a.K, GEMM_Q) : \E is \in Steps(from, to, GEMM_P) :
        \E js \in Steps(0, a.N, GEMM_R) : \E c \in ColumnSteps(a, t, js) :
          x = BlockAt(a, t, ls, is, js, c)
  BY BlocksAre
<1>6. PICK is \in Steps(from, to, GEMM_P) :
        \E js \in Steps(0, a.N, GEMM_R) : \E c \in ColumnSteps(a, t, js) :
          x = BlockAt(a, t, ls, is, js, c)
  BY <1>5
<1>7. PICK js \in Steps(0, a.N, GEMM_R) : \E c \in ColumnSteps(a, t, js) :
          x = BlockAt(a, t, ls, is, js, c)
  BY <1>6
<1>8. PICK c \in ColumnSteps(a, t, js) : x = BlockAt(a, t, ls, is, js, c)
  BY <1>7
<1>9. /\ x.jjs = c.jjs /\ x.minjj = Least(c.end - c.jjs, GEMM_UNROLL_N)
      /\ x.ls = ls /\ x.minL = Least(a.K - ls, GEMM_Q)
  BY <1>8 DEF BlockAt, MinL
<1> HIDE DEF from, to
<1>10. ColumnsOf(x) \subseteq 0 .. a.N - 1
  <2> SUFFICES ASSUME NEW n \in ColumnsOf(x) PROVE n \in 0 .. a.N - 1
    OBVIOUS
  <2>1. c.jjs \in Nat /\ c.end \in Nat
    BY <1>1, ColumnNumbers
  <2>2. n \in Int /\ InColumns(n, c)
    BY <1>1, <1>9, <2>1 DEF ColumnsOf, InColumns, InStep, Least
  <2>3. InStep(n, js, a.N, GEMM_R)
    BY <1>1, <2>2, ColumnsApart
  <2> QED
    BY <1>1, <2>2, <2>3, StepsWithin
<1>11. ASSUME a.K <= GEMM_Q PROVE TermsOf(x) = 0 .. a.K - 1
  <2>1. ls \in 0 .. a.K - 1 /\ ls % GEMM_Q = 0
    BY DEF Steps
  <2>2. ls = 0
    BY <1>1, <1>2, <1>11, <2>1
  <2> QED
    BY <1>1, <1>2, <1>9, <1>11, <2>2 DEF TermsOf, Least
<1> QED
  BY <1>4, <1>10, <1>11

-----------------------------------------------------------------------------
(* While K fits into one block, an entry of r is the sum over the columns  *)
(* whose products have been added, and nothing changes it between the load *)
(* and the store of a thread.                                              *)
AddedTo(m) == {n \in Column : added[<<m, n, 0>>] = 1}

SumsSoFar ==
  args.K <= GEMM_Q =>
    /\ \A m \in Row : r[m] = SumOfSquares(m, AddedTo(m), Term)
    /\ \A t \in Threads(args) :
         loaded[t] # NoRows => loaded[t] = [m \in RowsOf(Current(t)) |-> r[m]]

(* Rows, columns and terms are finite ranges that are not empty.           *)
LEMMA SizesOfArgs ==
  ASSUME BlocksLeft
  PROVE  /\ Row \in SUBSET Int /\ args.M \in Int
         /\ IsFiniteSet(Column)
         /\ Term \in SUBSET Int /\ IsFiniteSet(Term)
         /\ 0 \in Term
<1>1. args.M \in Nat \ {0} /\ args.N \in Nat \ {0} /\ args.K \in Nat \ {0}
  BY ArgsPositive DEF BlocksLeft
<1>2. 0 \in Int /\ args.N - 1 \in Int /\ args.K - 1 \in Int
  BY <1>1
<1>3. IsFiniteSet(0 .. args.N - 1) /\ IsFiniteSet(0 .. args.K - 1)
  BY <1>2, FS_Interval
<1> QED
  BY <1>1, <1>3 DEF Row, Column, Term

(* Nothing is added in the beginning, and r is 0.                          *)
LEMMA SumsInit == ASSUME Init, Inductive PROVE SumsSoFar
<1>1. BlocksLeft
  BY DEF Inductive
<1>2. \A t \in Threads(args) : loaded[t] = NoRows
  BY DEF Init
<1>3. ASSUME NEW m \in Row PROVE r[m] = SumOfSquares(m, AddedTo(m), Term)
  <2>1. \A n \in Column : <<m, n, 0>> \in Row \X Column \X Term
    BY <1>1, SizesOfArgs
  <2>2. AddedTo(m) = {}
    BY <2>1 DEF AddedTo, Init
  <2>3. r[m] = 0
    BY DEF Init
  <2> QED
    BY <1>1, <2>2, <2>3, SizesOfArgs, NoSquares
<1> QED
  BY <1>2, <1>3 DEF SumsSoFar

(* Sums of squares depend on no variable but args.                         *)
LEMMA SameSquares ==
  ASSUME args' = args, NEW m, NEW C, NEW T
  PROVE  SumOfSquares(m, C, T)' = SumOfSquares(m, C, T)
BY DEF SumOfSquares, Entry, MapThenSumSet, MapThenFoldSet

(* A load changes neither r nor what has been added.                       *)
LEMMA SumsLoadRows ==
  ASSUME Inductive, SumsSoFar, NEW t \in DOMAIN todo, LoadRows(t) PROVE SumsSoFar'
<1> SUFFICES ASSUME args'.K <= GEMM_Q
             PROVE  /\ \A m \in Row' : r'[m] = SumOfSquares(m, AddedTo(m), Term)'
                    /\ \A u \in Threads(args)' :
                         loaded'[u] # NoRows => loaded'[u] = [m \in RowsOf(Current(u)') |-> r'[m]]
  BY DEF SumsSoFar
<1>1. /\ args' = args /\ todo' = todo /\ added' = added /\ r' = r
      /\ loaded' = [loaded EXCEPT ![t] = [m \in RowsOf(Current(t)) |-> r[m]]]
      /\ DOMAIN loaded = Threads(args)
  BY DEF LoadRows, Inductive, RowsLoaded
<1>2. /\ \A m \in Row : r[m] = SumOfSquares(m, AddedTo(m), Term)
      /\ \A u \in Threads(args) :
           loaded[u] # NoRows => loaded[u] = [m \in RowsOf(Current(u)) |-> r[m]]
  BY <1>1 DEF SumsSoFar
<1>3. ASSUME NEW m \in Row' PROVE r'[m] = SumOfSquares(m, AddedTo(m), Term)'
  <2>1. m \in Row /\ AddedTo(m)' = AddedTo(m) /\ Term' = Term
    BY <1>1 DEF Row, AddedTo, Column, Term
  <2>2. SumOfSquares(m, AddedTo(m), Term)' = SumOfSquares(m, AddedTo(m), Term)
    BY <1>1, <2>1, SameSquares
  <2> QED
    BY <1>1, <1>2, <2>1, <2>2
<1>4. ASSUME NEW u \in Threads(args)'
      PROVE  loaded'[u] # NoRows => loaded'[u] = [m \in RowsOf(Current(u)') |-> r'[m]]
  <2>1. u \in Threads(args) /\ Current(u)' = Current(u)
    BY <1>1 DEF Current
  <2> QED
    BY <1>1, <1>2, <2>1
<1> QED
  BY <1>3, <1>4

(* A store adds to the rows of its block the columns that were missing.    *)
LEMMA SumsAddBlock ==
  ASSUME Inductive, Inductive', SumsSoFar, NEW t \in DOMAIN todo, AddBlock(t) PROVE SumsSoFar'
<1> DEFINE x == Current(t)
<1> SUFFICES ASSUME args'.K <= GEMM_Q
             PROVE  /\ \A m \in Row' : r'[m] = SumOfSquares(m, AddedTo(m), Term)'
                    /\ \A u \in Threads(args)' :
                         loaded'[u] # NoRows => loaded'[u] = [m \in RowsOf(Current(u)') |-> r'[m]]
  BY DEF SumsSoFar
<1>1. BlocksLeft /\ RowsLoaded /\ AddedSoFar /\ AddedSoFar'
  BY DEF Inductive
<1>2. t \in Threads(args) /\ args' = args /\ args \in Args /\ args.K <= GEMM_Q
  BY <1>1 DEF AddBlock, BlocksLeft
<1>3. loaded[t] # NoRows /\ todo[t] # {}
  BY <1>1, <1>2 DEF AddBlock, RowsLoaded
<1>4. x \in Blocks(args, t)
  BY <1>1, <1>2, <1>3, CurrentIsLeft
<1>5. /\ r' = [m \in Row |-> IF m \in RowsOf(x)
                             THEN loaded[t][m] + SumOfSquares(m, ColumnsOf(x), TermsOf(x))
                             ELSE r[m]]
      /\ added' = [y \in DOMAIN added |-> IF y \in Products(x) THEN added[y] + 1 ELSE added[y]]
      /\ todo' = [todo EXCEPT ![t] = @ \ {x}]
      /\ loaded' = [loaded EXCEPT ![t] = NoRows]
  BY DEF AddBlock, Products
<1>6. /\ \A m \in Row : r[m] = SumOfSquares(m, AddedTo(m), Term)
      /\ \A u \in Threads(args) :
           loaded[u] # NoRows => loaded[u] = [m \in RowsOf(Current(u)) |-> r[m]]
  BY <1>2 DEF SumsSoFar
<1>7. loaded[t] = [m \in RowsOf(x) |-> r[m]]
  BY <1>2, <1>3, <1>6
<1> HIDE DEF x
<1>8. Row' = Row /\ Column' = Column /\ Term' = Term
  BY <1>2 DEF Row, Column, Term
<1>9. RowsOf(x) \subseteq Row /\ ColumnsOf(x) \subseteq Column /\ TermsOf(x) = Term
  BY <1>2, <1>4, BlockWithinMatrices DEF Row, Column, Term
<1>10. /\ DOMAIN added = Row \X Column \X Term /\ DOMAIN added' = Row \X Column \X Term
       /\ \A y \in DOMAIN added : added[y] \in {0, 1} /\ added'[y] \in {0, 1}
  BY <1>1, <1>8 DEF AddedSoFar
<1>11. /\ Row \in SUBSET Int /\ args.M \in Int /\ IsFiniteSet(Column)
       /\ Term \in SUBSET Int /\ IsFiniteSet(Term) /\ 0 \in Term
  BY <1>1, SizesOfArgs
<1>12. ASSUME NEW m \in Row' PROVE r'[m] = SumOfSquares(m, AddedTo(m), Term)'
  <2>1. m \in Row /\ m \in Int
    BY <1>8, <1>11
  <2>2. SumOfSquares(m, AddedTo(m), Term)' = SumOfSquares(m, AddedTo(m)', Term')
    BY <1>2 DEF SumOfSquares, Entry, MapThenSumSet, MapThenFoldSet
  <2>3. AddedTo(m)' = {n \in Column : added'[<<m, n, 0>>] = 1}
    BY <1>8 DEF AddedTo
  <2>4. \A n \in Column : <<m, n, 0>> \in DOMAIN added
    BY <1>10, <1>11, <2>1
  <2>5. \A n \in Column : <<m, n, 0>> \in Products(x) <=> m \in RowsOf(x) /\ n \in ColumnsOf(x)
    BY <1>9, <1>11, <2>1 DEF Products
  <2>6. CASE m \in RowsOf(x)
    <3>1. \A n \in ColumnsOf(x) : added[<<m, n, 0>>] = 0 /\ added'[<<m, n, 0>>] = 1
      BY <1>5, <1>9, <1>10, <2>4, <2>5, <2>6
    <3>2. \A n \in Column \ ColumnsOf(x) : added'[<<m, n, 0>>] = added[<<m, n, 0>>]
      BY <1>5, <2>4, <2>5
    <3>3. /\ AddedTo(m)' = AddedTo(m) \cup ColumnsOf(x) /\ AddedTo(m) \cap ColumnsOf(x) = {}
          /\ AddedTo(m) \subseteq Column
      BY <1>9, <2>3, <3>1, <3>2 DEF AddedTo
    <3>4. IsFiniteSet(AddedTo(m)) /\ IsFiniteSet(ColumnsOf(x))
      BY <1>9, <1>11, <3>3, FS_Subset
    <3>5. SumOfSquares(m, AddedTo(m) \cup ColumnsOf(x), Term)
            = SumOfSquares(m, AddedTo(m), Term) + SumOfSquares(m, ColumnsOf(x), Term)
      BY <1>11, <2>1, <3>3, <3>4, SquaresAdd
    <3>6. r'[m] = r[m] + SumOfSquares(m, ColumnsOf(x), Term)
      BY <1>5, <1>7, <1>9, <2>1, <2>6
    <3> QED
      BY <1>6, <1>8, <2>1, <2>2, <3>3, <3>5, <3>6
  <2>7. CASE m \notin RowsOf(x)
    <3>1. \A n \in Column : added'[<<m, n, 0>>] = added[<<m, n, 0>>]
      BY <1>5, <2>4, <2>5, <2>7
    <3>2. AddedTo(m)' = AddedTo(m)
      BY <2>3, <3>1 DEF AddedTo
    <3>3. r'[m] = r[m]
      BY <1>5, <2>1, <2>7
    <3> QED
      BY <1>6, <1>8, <2>1, <2>2, <3>2, <3>3
  <2> QED
    BY <2>6, <2>7
<1>13. ASSUME NEW u \in Threads(args)', loaded'[u] # NoRows
       PROVE  loaded'[u] = [m \in RowsOf(Current(u)') |-> r'[m]]
  <2>1. u \in Threads(args)
    BY <1>2
  <2>2. u # t /\ loaded'[u] = loaded[u] /\ todo'[u] = todo[u]
    BY <1>1, <1>2, <1>5, <1>13, <2>1 DEF RowsLoaded, BlocksLeft
  <2>3. Current(u)' = Current(u)
    BY <2>2 DEF Current
  <2>4. todo[u] # {}
    BY <1>1, <1>13, <2>1, <2>2 DEF RowsLoaded
  <2>5. Current(u) \in Blocks(args, u)
    BY <1>1, <2>1, <2>4, CurrentIsLeft
  <2>6. ASSUME NEW m \in RowsOf(Current(u)) PROVE r'[m] = r[m]
    <3>1. m \in Row
      BY <1>2, <2>1, <2>5, BlockWithinMatrices DEF Row
    <3>2. m \in Int /\ InRange(args, u, m)
      BY <1>2, <2>1, <2>5, BlockWithinRange
    <3>3. m \notin RowsOf(x)
      <4> SUFFICES ASSUME m \in RowsOf(x) PROVE FALSE
        OBVIOUS
      <4>1. InRange(args, t, m)
        BY <1>2, <1>4, BlockWithinRange
      <4> QED
        BY <1>2, <2>1, <2>2, <3>2, <4>1, RowHasOneThread
    <3> QED
      BY <1>5, <3>1, <3>3
  <2>7. loaded[u] = [m \in RowsOf(Current(u)) |-> r[m]]
    BY <1>6, <1>13, <2>1, <2>2
  <2> QED
    BY <2>2, <2>3, <2>6, <2>7
<1> QED
  BY <1>12, <1>13

LEMMA SumsStep ==
  ASSUME Inductive, Inductive', SumsSoFar, [Next]_vars PROVE SumsSoFar'
<1>1. ASSUME NEW t \in DOMAIN todo, LoadRows(t) PROVE SumsSoFar'
  BY <1>1, SumsLoadRows
<1>2. ASSUME NEW t \in DOMAIN todo, AddBlock(t) PROVE SumsSoFar'
  BY <1>2, SumsAddBlock
<1>3. CASE UNCHANGED vars
  <2>1. args' = args /\ todo' = todo /\ added' = added /\ r' = r /\ loaded' = loaded
    BY <1>3 DEF vars
  <2>2. /\ Row' = Row /\ Term' = Term
        /\ \A m : AddedTo(m)' = AddedTo(m) /\ SumOfSquares(m, AddedTo(m), Term)'
                                               = SumOfSquares(m, AddedTo(m), Term)
    BY <2>1 DEF Row, Column, Term, AddedTo, SumOfSquares, Entry, MapThenSumSet, MapThenFoldSet
  <2>3. \A t : Current(t)' = Current(t)
    BY <2>1 DEF Current
  <2> QED
    BY <2>1, <2>2, <2>3 DEF SumsSoFar
<1> QED
  BY <1>1, <1>2, <1>3 DEF Next

(* When a K that fits into one block is done, r is the vector that main    *)
(* computes for comparison, for every size of the matrices and every       *)
(* number of threads: loads and stores of r that interleave lose nothing,  *)
(* and the blocks' sums add up to the sums over all columns.               *)
THEOREM RightInOneBlock == Spec => []RightForOneBlock
<1>1. Inductive /\ Inductive' /\ SumsSoFar /\ [Next]_vars => SumsSoFar'
  BY SumsStep
<1>2. Inductive /\ SumsSoFar => RightForOneBlock
  <2> SUFFICES ASSUME Inductive, SumsSoFar, Finished, args.K <= GEMM_Q, NEW m \in Row
               PROVE  r[m] = Reference(m)
    BY DEF RightForOneBlock
  <2>1. BlocksLeft /\ AddedSoFar
    BY DEF Inductive
  <2>2. \A y : ~Pending(y)
    BY <2>1 DEF Finished, Pending, BlocksLeft
  <2>3. 0 \in Term
    BY <2>1, SizesOfArgs
  <2>4. \A n \in Column : <<m, n, 0>> \in DOMAIN added
    BY <2>1, <2>3 DEF AddedSoFar
  <2>5. AddedTo(m) = Column
    BY <2>1, <2>2, <2>4 DEF AddedSoFar, AddedTo
  <2>6. r[m] = SumOfSquares(m, AddedTo(m), Term)
    BY DEF SumsSoFar
  <2> QED
    BY <2>5, <2>6 DEF Reference
<1>3. Init => SumsSoFar
  BY InductiveInit, SumsInit
<1> QED
  BY <1>1, <1>2, <1>3, Invariance, PTL DEF Spec
=============================================================================
