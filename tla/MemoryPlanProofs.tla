--------------------------- MODULE MemoryPlanProofs ---------------------------
(***************************************************************************)
(* Theorems about plan_memory_artifact: its sizes are positive, the peaks  *)
(* it reports are those of the allocations, tiles fit the regions they are *)
(* cut to, and the storage it names is described and disjoint; then about  *)
(* plan_tiling_artifact, that what it ranks first is what was planned, and *)
(* that down its ranks nothing grows.  The first lemmas say of the model's *)
(* sums over lists what induction over a list would, from the least number *)
(* for which it would fail.                                                *)
(***************************************************************************)
EXTENDS TilePlan, FiniteSetTheorems, WellFoundedInduction, TLAPS

(* A nonempty set of naturals has a least element. *)
LEMMA LeastNatural ==
  ASSUME NEW S, S \subseteq Nat, S # {}
  PROVE  \E n \in S : \A m \in S : n <= m
<1>1. IsWellFoundedOn(OpToRel(<, Nat), Nat)
  BY NatLessThanWellFounded
<1>2. PICK n \in S : \A m \in S : ~ (<<m, n>> \in OpToRel(<, Nat))
  BY <1>1, WFMin, Zenon
<1>3. \A m \in S : ~ (m < n)
  BY <1>2 DEF OpToRel
<1> QED
  BY <1>3

(* And one with an upper bound a greatest. *)
LEMMA GreatestNatural ==
  ASSUME NEW S \in SUBSET Nat, S # {}, NEW bound \in Nat, \A n \in S : n <= bound
  PROVE  \E m \in S : \A n \in S : n <= m
<1> DEFINE T == {k \in Nat : \A n \in S : n <= k}
<1>1. PICK m \in T : \A k \in T : m <= k
  <2>1. T \subseteq Nat /\ bound \in T  OBVIOUS
  <2> HIDE DEF T
  <2> QED  BY <2>1, LeastNatural
<1>2. m \in S
  <2>1. SUFFICES ASSUME m \notin S PROVE FALSE
    OBVIOUS
  <2>2. \A n \in S : n \in Nat /\ n < m
    BY <1>1, <2>1
  <2>3. m - 1 \in T
    <3>1. PICK n \in S : TRUE  OBVIOUS
    <3>2. m \in Nat /\ m - 1 \in Nat  BY <2>2, <3>1
    <3>3. \A k \in S : k <= m - 1  BY <2>2, <3>2
    <3> QED  BY <3>2, <3>3
  <2> QED  BY <2>3, <1>1
<1> QED
  BY <1>1, <1>2

(* A function on 0..n, by its value at 0 and the step from each number to the next. *)
Recursion(f, n, base, step) ==
  f = [i \in 0..n |-> IF i = 0 THEN base ELSE step[i][f[i - 1]]]

(* There is one. *)
LEMMA RecursionExists ==
  ASSUME NEW n \in Nat, NEW X, NEW base \in X, NEW step \in [1..n -> [X -> X]]
  PROVE  \E f \in [0..n -> X] : Recursion(f, n, base, step)
<1> USE DEF Recursion
<1> DEFINE Fits(f, k) == f = [i \in 0..k |-> IF i = 0 THEN base ELSE step[i][f[i - 1]]]
           Missing == {k \in 0..n : ~ \E f \in [0..k -> X] : Fits(f, k)}
<1>1. SUFFICES ASSUME Missing # {} PROVE FALSE
  OBVIOUS
<1>m. Missing \subseteq Nat
  OBVIOUS
<1>2. PICK k \in Missing : \A m \in Missing : k <= m
  <2> HIDE DEF Missing
  <2> QED  BY <1>1, <1>m, LeastNatural
<1>3. k # 0
  <2> DEFINE f == [i \in 0..0 |-> base]
  <2>1. f \in [0..0 -> X]
    OBVIOUS
  <2>2. Fits(f, 0)
    OBVIOUS
  <2> QED  BY <2>1, <2>2
<1>4. k - 1 \in 0..n /\ k - 1 \notin Missing /\ k \in 1..n
  <2>1. k \in 0..n  OBVIOUS
  <2>2. k \in 1..n /\ k - 1 \in 0..n /\ ~ (k <= k - 1)  BY <2>1, <1>3
  <2> HIDE DEF Missing
  <2> QED  BY <2>2, <1>2
<1>5. PICK f \in [0..(k - 1) -> X] : Fits(f, k - 1)
  BY <1>4
<1> DEFINE g == [i \in 0..k |-> IF i = k THEN step[k][f[k - 1]] ELSE f[i]]
<1>6. g \in [0..k -> X]
  BY <1>4, <1>5
<1>7. ASSUME NEW i \in 0..k  PROVE g[i] = IF i = 0 THEN base ELSE step[i][g[i - 1]]
  <2>1. CASE i = k
    <3>1. g[i - 1] = f[k - 1]  BY <2>1, <1>4
    <3> QED  BY <3>1, <2>1, <1>4
  <2>2. CASE i # k
    <3>1. i \in 0..(k - 1) /\ g[i] = f[i] /\ (i # 0 => g[i - 1] = f[i - 1])  BY <2>2, <1>4
    <3>2. f[i] = IF i = 0 THEN base ELSE step[i][f[i - 1]]  BY <3>1, <1>5
    <3> QED  BY <3>1, <3>2
  <2> QED  BY <2>1, <2>2
<1>8. Fits(g, k)
  BY <1>7
<1> QED
  BY <1>2, <1>6, <1>8

(* What holds of 0 and is kept up to n holds up to n. *)
LEMMA UpTo ==
  ASSUME NEW n \in Nat, NEW S, 0 \in S,
         \A i \in 0..(n - 1) : i \in S => i + 1 \in S
  PROVE  \A i \in 0..n : i \in S
<1> DEFINE Missing == {i \in 0..n : i \notin S}
<1>1. SUFFICES ASSUME Missing # {} PROVE FALSE
  OBVIOUS
<1>m. Missing \subseteq Nat
  OBVIOUS
<1>2. PICK k \in Missing : \A m \in Missing : k <= m
  <2> HIDE DEF Missing
  <2> QED  BY <1>1, <1>m, LeastNatural
<1>3. k - 1 \in 0..(n - 1) /\ k - 1 \in S
  BY <1>2
<1>4. (k - 1) + 1 = k
  OBVIOUS
<1> QED
  BY <1>3, <1>4

-----------------------------------------------------------------------------
(* Sums and products over lists.                                           *)

(* The bytes of the first n allocations of a list. *)
Prefixed(f, placed, which) ==
  f = [n \in 0..Len(placed) |->
         IF n = 0 THEN 0
         ELSE f[n - 1] + (IF placed[n] \in which THEN placed[n].size ELSE 0)]

(* Total is the last of the sums over the beginnings of the list. *)
LEMMA TotalSteps ==
  ASSUME NEW A, \A a \in A : a.size \in Nat, NEW placed \in Seq(A), NEW which
  PROVE  \E f \in [0..Len(placed) -> Nat] :
           Prefixed(f, placed, which) /\ Total(placed, which) = f[Len(placed)]
<1> DEFINE N == Len(placed)
           amount(n) == IF placed[n] \in which THEN placed[n].size ELSE 0
           step == [n \in 1..N |-> [sum \in Nat |-> sum + amount(n)]]
           sums == CHOOSE f : Prefixed(f, placed, which)
<1>1. N \in Nat /\ \A n \in 1..N : amount(n) \in Nat
  <2>1. N \in Nat  OBVIOUS
  <2>2. ASSUME NEW n \in 1..N  PROVE amount(n) \in Nat
    <3>1. placed[n] \in A
      <4> HIDE DEF amount, step, sums
      <4>1. n \in 1..Len(placed)  OBVIOUS
      <4> QED  BY <4>1
    <3> QED  BY <3>1
  <2> QED  BY <2>1, <2>2
<1>2. step \in [1..N -> [Nat -> Nat]]
  BY <1>1
<1> HIDE DEF step
<1>3. PICK f \in [0..N -> Nat] : Recursion(f, N, 0, step)
  <2> HIDE DEF N
  <2>1. N \in Nat /\ 0 \in Nat  BY <1>1
  <2> QED  BY <2>1, <1>2, RecursionExists
<1>4. ASSUME NEW n \in 0..N, n # 0  PROVE step[n][f[n - 1]] = f[n - 1] + amount(n)
  <2>1. n \in 1..N /\ n - 1 \in 0..N  BY <1>1, <1>4
  <2>2. f[n - 1] \in Nat  BY <2>1
  <2>3. step[n] = [sum \in Nat |-> sum + amount(n)]  BY <2>1 DEF step
  <2> QED  BY <2>2, <2>3
<1>5. Prefixed(f, placed, which)
  BY <1>3, <1>4 DEF Prefixed, Recursion
<1>6. Prefixed(sums, placed, which)
  BY <1>5
<1>7. Total(placed, which) = sums[N]
  BY DEF Total, Prefixed
<1> HIDE DEF sums, amount, N
<1>8. sums = [n \in 0..N |-> IF n = 0 THEN 0 ELSE sums[n - 1] + amount(n)]
  BY <1>6 DEF Prefixed, amount, N
<1> DEFINE S == {i \in 0..N : sums[i] \in Nat}
<1>9. 0 \in S
  BY <1>1, <1>8
<1>10. ASSUME NEW i \in 0..(N - 1), i \in S  PROVE i + 1 \in S
  <2>1. i + 1 \in 0..N /\ i + 1 # 0 /\ i + 1 - 1 = i /\ i + 1 \in 1..N  BY <1>1
  <2>2. sums[i + 1] = sums[i] + amount(i + 1)
    <3> DEFINE j == i + 1
    <3>1. j \in 0..N /\ j # 0 /\ j - 1 = i  BY <2>1
    <3> HIDE DEF j
    <3>2. sums[j] = IF j = 0 THEN 0 ELSE sums[j - 1] + amount(j)
      BY <3>1, <1>8
    <3>3. sums[j] = sums[i] + amount(j)
      BY <3>1, <3>2
    <3> QED  BY <3>3 DEF j
  <2>3. sums[i] \in Nat /\ amount(i + 1) \in Nat  BY <2>1, <1>1, <1>10
  <2> QED  BY <2>1, <2>2, <2>3
<1>11. \A i \in 0..N : i \in S
  <2> HIDE DEF S
  <2> QED  BY <1>1, <1>9, <1>10, UpTo
<1>12. sums \in [0..N -> Nat]
  BY <1>8, <1>11
<1> QED
  BY <1>6, <1>7, <1>12 DEF N

(* A sum of sizes is a natural number. *)
LEMMA TotalType ==
  ASSUME NEW A, \A a \in A : a.size \in Nat, NEW placed \in Seq(A), NEW which
  PROVE  Total(placed, which) \in Nat
<1>1. PICK f \in [0..Len(placed) -> Nat] : Total(placed, which) = f[Len(placed)]
  BY TotalSteps
<1> QED
  BY <1>1

(* Sets that the list cannot tell apart have the same sum. *)
LEMMA TotalSame ==
  ASSUME NEW A, \A a \in A : a.size \in Nat, NEW placed \in Seq(A), NEW which, NEW others,
         \A n \in 1..Len(placed) : placed[n] \in which <=> placed[n] \in others
  PROVE  Total(placed, which) = Total(placed, others)
<1> DEFINE N == Len(placed)
<1>1. PICK f \in [0..N -> Nat] :
         Prefixed(f, placed, which) /\ Total(placed, which) = f[N]
  BY TotalSteps
<1>2. PICK g \in [0..N -> Nat] :
         Prefixed(g, placed, others) /\ Total(placed, others) = g[N]
  BY TotalSteps
<1> DEFINE S == {i \in 0..N : f[i] = g[i]}
<1>3. N \in Nat /\ 0 \in S
  BY <1>1, <1>2 DEF Prefixed
<1>4. ASSUME NEW i \in 0..(N - 1), i \in S  PROVE i + 1 \in S
  <2>1. i + 1 \in 0..N /\ i + 1 # 0 /\ i + 1 - 1 = i /\ i + 1 \in 1..N  BY <1>3
  <2> QED  BY <2>1, <1>1, <1>2, <1>4 DEF Prefixed
<1>5. \A i \in 0..N : i \in S
  <2> HIDE DEF S, N
  <2> QED  BY <1>3, <1>4, UpTo
<1> QED
  BY <1>1, <1>2, <1>3, <1>5

(* A set that the list has nothing of sums to 0. *)
LEMMA TotalNone ==
  ASSUME NEW A, \A a \in A : a.size \in Nat, NEW placed \in Seq(A), NEW which,
         \A n \in 1..Len(placed) : placed[n] \notin which
  PROVE  Total(placed, which) = 0
<1> DEFINE N == Len(placed)
<1>1. PICK f \in [0..N -> Nat] :
         Prefixed(f, placed, which) /\ Total(placed, which) = f[N]
  BY TotalSteps
<1> DEFINE S == {i \in 0..N : f[i] = 0}
<1>3. N \in Nat /\ 0 \in S
  BY <1>1 DEF Prefixed
<1>4. ASSUME NEW i \in 0..(N - 1), i \in S  PROVE i + 1 \in S
  <2>1. i + 1 \in 0..N /\ i + 1 # 0 /\ i + 1 - 1 = i /\ i + 1 \in 1..N  BY <1>3
  <2> QED  BY <2>1, <1>1, <1>4 DEF Prefixed
<1>5. \A i \in 0..N : i \in S
  <2> HIDE DEF S, N
  <2> QED  BY <1>3, <1>4, UpTo
<1> QED
  BY <1>1, <1>3, <1>5

(* A set of which the list has one element, and that once, sums to its size. *)
LEMMA TotalAtMostOne ==
  ASSUME NEW A, \A a \in A : a.size \in Nat, NEW placed \in Seq(A), NEW which, NEW p \in Nat,
         \A n \in 1..Len(placed) : placed[n] \in which => n = p,
         NEW most \in Nat, \A a \in which : a.size <= most
  PROVE  Total(placed, which) <= most
<1> DEFINE N == Len(placed)
<1>1. PICK f \in [0..N -> Nat] :
         Prefixed(f, placed, which) /\ Total(placed, which) = f[N]
  BY TotalSteps
<1> DEFINE S == {i \in 0..N : f[i] <= most /\ (i < p => f[i] = 0)}
<1>3. N \in Nat /\ 0 \in S
  BY <1>1 DEF Prefixed
<1>4. ASSUME NEW i \in 0..(N - 1), i \in S  PROVE i + 1 \in S
  <2>1. i \in 0..N /\ i + 1 \in 0..N /\ i + 1 # 0 /\ i + 1 - 1 = i /\ i + 1 \in 1..N  BY <1>3
  <2>2. f[i + 1] = f[i] + (IF placed[i + 1] \in which THEN placed[i + 1].size ELSE 0)
    BY <2>1, <1>1 DEF Prefixed
  <2>3. f[i] \in Nat /\ f[i + 1] \in Nat /\ f[i] <= most /\ (i < p => f[i] = 0)
    BY <2>1, <1>4
  <2>4. placed[i + 1] \in which => i + 1 = p /\ placed[i + 1].size <= most /\ placed[i + 1].size \in Nat
    BY <2>1
  <2>5. f[i + 1] <= most /\ (i + 1 < p => f[i + 1] = 0)
    BY <2>2, <2>3, <2>4
  <2> QED  BY <2>1, <2>5
<1>5. \A i \in 0..N : i \in S
  <2> HIDE DEF S, N
  <2> QED  BY <1>3, <1>4, UpTo
<1> QED
  BY <1>1, <1>3, <1>5

(* The sum over a list that another is put behind. *)
LEMMA TotalConcat ==
  ASSUME NEW A, \A a \in A : a.size \in Nat, NEW placed \in Seq(A), NEW more \in Seq(A), NEW which
  PROVE  Total(placed \o more, which) = Total(placed, which) + Total(more, which)
<1> DEFINE N == Len(placed)
           M == Len(more)
           all == placed \o more
<1>1. /\ all \in Seq(A) /\ Len(all) = N + M /\ N \in Nat /\ M \in Nat
      /\ \A n \in 1..N : all[n] = placed[n]
      /\ \A n \in 1..M : all[N + n] = more[n]
  OBVIOUS
<1>2. PICK f \in [0..N -> Nat] :
         Prefixed(f, placed, which) /\ Total(placed, which) = f[N]
  BY TotalSteps
<1>3. PICK g \in [0..M -> Nat] :
         Prefixed(g, more, which) /\ Total(more, which) = g[M]
  BY TotalSteps
<1>4. PICK h \in [0..(N + M) -> Nat] :
         Prefixed(h, all, which) /\ Total(all, which) = h[N + M]
  <2> HIDE DEF all
  <2> QED  BY <1>1, TotalSteps
<1> HIDE DEF all, N, M
<1> DEFINE S == {i \in 0..N : h[i] = f[i]}
           T == {i \in 0..M : h[N + i] = f[N] + g[i]}
<1>5. 0 \in S
  BY <1>1, <1>2, <1>4 DEF Prefixed, N
<1>6. ASSUME NEW i \in 0..(N - 1), i \in S  PROVE i + 1 \in S
  <2>1. /\ i + 1 \in 0..N /\ i + 1 # 0 /\ i + 1 - 1 = i /\ i + 1 \in 1..N
        /\ i + 1 \in 0..(N + M)
    BY <1>1
  <2> QED  BY <2>1, <1>1, <1>2, <1>4, <1>6 DEF Prefixed, N
<1>7. h[N] = f[N]
  <2>1. \A i \in 0..N : i \in S
    <3> HIDE DEF S
    <3> QED  BY <1>1, <1>5, <1>6, UpTo
  <2> QED  BY <2>1, <1>1
<1>8. 0 \in T
  <2>1. g[0] = 0  BY <1>1, <1>3 DEF Prefixed, M
  <2> QED  BY <2>1, <1>1, <1>7, <1>2
<1>9. ASSUME NEW i \in 0..(M - 1), i \in T  PROVE i + 1 \in T
  <2>0. N \in Nat /\ M \in Nat /\ i \in Nat /\ i + 1 <= M
    BY <1>1
  <2>1. /\ i + 1 \in 0..M /\ i + 1 # 0 /\ i + 1 - 1 = i /\ i + 1 \in 1..M /\ i \in 0..M
        /\ N + (i + 1) \in 0..(N + M) /\ N + (i + 1) # 0 /\ N + (i + 1) - 1 = N + i
        /\ N + i \in 0..(N + M) /\ N \in 0..N
    BY <2>0
  <2> DEFINE more1 == IF more[i + 1] \in which THEN more[i + 1].size ELSE 0
  <2>2. g[i + 1] = g[i] + more1
    <3>1. g = [n \in 0..M |-> IF n = 0 THEN 0
                ELSE g[n - 1] + (IF more[n] \in which THEN more[n].size ELSE 0)]
      BY <1>3 DEF Prefixed, M
    <3>2. g[i + 1] = IF i + 1 = 0 THEN 0
                ELSE g[i + 1 - 1] + (IF more[i + 1] \in which THEN more[i + 1].size ELSE 0)
      BY <3>1, <2>1
    <3> QED  BY <3>2, <2>1
  <2>3. h[N + (i + 1)] = h[N + i] + more1
    <3>1. h = [n \in 0..(N + M) |-> IF n = 0 THEN 0
                ELSE h[n - 1] + (IF all[n] \in which THEN all[n].size ELSE 0)]
      BY <1>1, <1>4 DEF Prefixed
    <3> DEFINE j == N + (i + 1)
    <3>2. j \in 0..(N + M) /\ j # 0 /\ j - 1 = N + i  BY <2>1
    <3>3. all[j] = more[i + 1]  BY <1>1, <2>1
    <3> HIDE DEF j
    <3>4. h[j] = IF j = 0 THEN 0
                 ELSE h[j - 1] + (IF all[j] \in which THEN all[j].size ELSE 0)
      BY <3>1, <3>2
    <3>5. h[j] = h[N + i] + more1  BY <3>2, <3>3, <3>4
    <3> QED  BY <3>5 DEF j
  <2>4. g[i] \in Nat /\ f[N] \in Nat /\ h[N + i] = f[N] + g[i] /\ more1 \in Nat
    <3>1. \A n \in 1..M : more[n] \in A  BY DEF M
    <3>2. more[i + 1] \in A  BY <3>1, <2>1
    <3> QED  BY <2>1, <1>9, <3>2
  <2>5. h[N + (i + 1)] = f[N] + g[i + 1]
    BY <2>2, <2>3, <2>4
  <2> QED  BY <2>1, <2>5
<1>10. \A i \in 0..M : i \in T
  <2> HIDE DEF T
  <2> QED  BY <1>1, <1>8, <1>9, UpTo
<1> QED
  BY <1>1, <1>2, <1>3, <1>4, <1>10 DEF all

(* The product of a shape's dimensions, each taken as at least one. *)
LEMMA ElementsPositive ==
  ASSUME NEW shape \in Seq(Int)
  PROVE  Elements(shape) \in Nat \ {0}
<1> DEFINE N == Len(shape)
           X == Nat \ {0}
           side(n) == AtLeast1(shape[n])
           step == [n \in 1..N |-> [size \in X |-> size * side(n)]]
           Grows(f) == f = [n \in 0..N |-> IF n = 0 THEN 1 ELSE f[n - 1] * side(n)]
           sizes == CHOOSE f : Grows(f)
<1>1. N \in Nat
  OBVIOUS
<1>2. ASSUME NEW n \in 1..N  PROVE side(n) \in X
  <2>1. shape[n] \in Int
    <3> HIDE DEF side, step, Grows, sizes
    <3> QED  OBVIOUS
  <2> QED  BY <2>1 DEF AtLeast1
<1>3. Elements(shape) = sizes[N]
  BY DEF Elements
<1> HIDE DEF N, side, sizes
<1>4. \A x, y \in X : x * y \in X
  OBVIOUS
<1> HIDE DEF X
<1>5. step \in [1..N -> [X -> X]]
  BY <1>2, <1>4
<1>6. 1 \in X
  BY DEF X
<1> HIDE DEF step
<1>7. PICK f \in [0..N -> X] : Recursion(f, N, 1, step)
  BY <1>1, <1>5, <1>6, RecursionExists
<1>8. ASSUME NEW n \in 0..N, n # 0  PROVE step[n][f[n - 1]] = f[n - 1] * side(n)
  <2>1. n \in 1..N /\ n - 1 \in 0..N  BY <1>1, <1>8
  <2>2. f[n - 1] \in X  BY <2>1
  <2>3. step[n] = [size \in X |-> size * side(n)]  BY <2>1 DEF step
  <2> QED  BY <2>2, <2>3
<1>9. Grows(f)
  BY <1>7, <1>8 DEF Recursion
<1>10. Grows(sizes)
  BY <1>9 DEF sizes
<1> HIDE DEF Grows
<1> DEFINE S == {i \in 0..N : sizes[i] \in X}
<1>11. 0 \in S
  BY <1>1, <1>6, <1>10 DEF Grows
<1>12. ASSUME NEW i \in 0..(N - 1), i \in S  PROVE i + 1 \in S
  <2> DEFINE j == i + 1
  <2>1. j \in 0..N /\ j # 0 /\ j - 1 = i /\ j \in 1..N  BY <1>1
  <2>2. sizes[i] \in X  BY <1>12
  <2> HIDE DEF j
  <2>3. sizes[j] = sizes[i] * side(j)  BY <2>1, <1>10 DEF Grows
  <2>4. sizes[j] \in X  BY <2>1, <2>2, <2>3, <1>2, <1>4
  <2> QED  BY <2>1, <2>4 DEF j
<1>13. \A i \in 0..N : i \in S
  <2> HIDE DEF S
  <2> QED  BY <1>1, <1>11, <1>12, UpTo
<1> QED
  BY <1>1, <1>3, <1>13 DEF X

-----------------------------------------------------------------------------
(* Sizes.                                                                  *)

(* SmallestOf is an element of its set, and no other is smaller. *)
LEMMA SmallestIs ==
  ASSUME NEW S, S \subseteq Nat \ {0}, S # {}
  PROVE  /\ SmallestOf(S) \in S /\ SmallestOf(S) \in Nat \ {0}
         /\ \A n \in S : SmallestOf(S) <= n
<1>1. \E n \in S : \A m \in S : n <= m
  BY LeastNatural
<1> QED
  BY <1>1 DEF SmallestOf

(* Whole bytes, and at least one. *)
LEMMA BytesPositive ==
  ASSUME NEW n \in Nat, NEW h \in Nat
  PROVE  Bytes(n, h) \in Nat \ {0}
<1>1. n * h \in Nat
  OBVIOUS
<1>2. (n * h + 1) \div 2 \in Int
  BY <1>1
<1> QED
  BY <1>2 DEF Bytes, AtLeast1

(* The arguments of the planner. *)
Arguments ==
  /\ nig \in Nigs /\ scenario \in Scenarios /\ capacity \in Profiles

(* They are what the assumptions say. *)
LEMMA ArgumentsAre ==
  ASSUME Arguments
  PROVE  /\ IsNig(nig) /\ IsScenario(scenario)
         /\ capacity \in [DOMAIN capacity -> Nat \ {0}]
         /\ Len(nig) \in Nat /\ DOMAIN nig = 1..Len(nig)
         /\ \A i \in 1..Len(nig) : IsBoundNode(nig[i])
<1>1. IsNig(nig) /\ IsScenario(scenario) /\ capacity \in [DOMAIN capacity -> Nat \ {0}]
  BY NigsAssumption, ScenariosAssumption, ProfilesAssumption DEF Arguments
<1>2. nig \in Seq(ToSet(nig))
  BY <1>1 DEF IsNig
<1>3. Len(nig) \in Nat /\ DOMAIN nig = 1..Len(nig)
  BY <1>2
<1> QED
  BY <1>1, <1>3 DEF IsNig

(* At least one row fits. *)
LEMMA RowsPositive ==
  ASSUME Arguments, NEW region, NEW halfBytes \in Nat \ {0}
  PROVE  MaxFitRows(region, halfBytes) \in Nat \ {0}
<1>1. CASE region \in DOMAIN capacity
  <2>1. capacity[region] \in Nat  BY <1>1, ArgumentsAre
  <2>2. (2 * capacity[region]) \div halfBytes \in Int  BY <2>1
  <2> QED  BY <1>1, <2>2 DEF MaxFitRows, AtLeast1
<1>2. CASE region \notin DOMAIN capacity
  BY <1>2 DEF MaxFitRows
<1> QED
  BY <1>1, <1>2

(* More than one row fits only where the region is, and then they fit. *)
LEMMA RowsFit ==
  ASSUME Arguments, NEW region, NEW halfBytes \in Nat \ {0}, NEW m \in Nat,
         1 < m, m <= MaxFitRows(region, halfBytes)
  PROVE  /\ region \in DOMAIN capacity /\ capacity[region] \in Nat
         /\ m * halfBytes <= 2 * capacity[region]
<1>1. region \in DOMAIN capacity
  BY DEF MaxFitRows
<1>2. capacity[region] \in Nat
  BY <1>1, ArgumentsAre
<1> DEFINE c == 2 * capacity[region]
           q == c \div halfBytes
<1>3. c \in Nat /\ q \in Int
  BY <1>2
<1>4. m <= q
  BY <1>1, <1>3 DEF MaxFitRows, AtLeast1
<1> HIDE DEF c
<1>5. q * halfBytes <= c
  BY <1>3
<1>6. m * halfBytes <= q * halfBytes
  BY <1>3, <1>4
<1>7. m * halfBytes \in Nat /\ q * halfBytes \in Int
  BY <1>3
<1>8. m * halfBytes <= c
  <2> HIDE DEF q
  <2> QED  BY <1>3, <1>5, <1>6, <1>7
<1> QED
  BY <1>1, <1>2, <1>8 DEF c

(* So many half bytes make that many bytes at most. *)
LEMMA BytesFit ==
  ASSUME NEW n \in Nat, NEW h \in Nat, NEW c \in Nat, c >= 1, n * h <= 2 * c
  PROVE  Bytes(n, h) <= c
<1>1. n * h \in Nat
  OBVIOUS
<1>2. (n * h + 1) \div 2 <= c
  BY <1>1
<1> QED
  BY <1>1, <1>2 DEF Bytes, AtLeast1

(* The measures of a node. *)
LEMMA MeasuresPositive ==
  ASSUME NEW v, IsBoundNode(v)
  PROVE  /\ LogicalM(v) \in Nat \ {0} /\ LogicalN(v) \in Nat \ {0}
         /\ ShapeBytes(v) \in Nat \ {0}
         /\ EffectiveWeights(v) \in Nat \ {0}
         /\ v.activations \in Nat \ {0} /\ v.group \in Nat \ {0}
<1>1. /\ v.shape \in Seq(Int) /\ v.weights \in Nat
      /\ v.activations \in Nat \ {0} /\ v.group \in Nat \ {0}
  BY DEF IsBoundNode
<1>2. Len(v.shape) \in Nat /\ (v.shape # <<>> => Len(v.shape) >= 1)
      /\ \A n \in 1..Len(v.shape) : v.shape[n] \in Int
  BY <1>1
<1>3. LogicalM(v) \in Nat \ {0}
  <2>1. CASE v.shape = <<>>
    BY <2>1 DEF LogicalM
  <2>2. CASE v.shape # <<>> /\ Len(v.shape) = 1
    <3>1. LogicalM(v) = AtLeast1(v.shape[1])  BY <2>2 DEF LogicalM
    <3> QED  BY <3>1, <2>2, <1>2 DEF AtLeast1
  <2>3. CASE Len(v.shape) > 1
    <3>1. v.shape # <<>>  BY <2>3
    <3>2. LogicalM(v) = Elements(Front(v.shape))  BY <2>3, <3>1, <1>2 DEF LogicalM
    <3>3. Front(v.shape) \in Seq(Int)  BY <1>1, <2>3 DEF Front
    <3> QED  BY <3>2, <3>3, ElementsPositive
  <2>4. Len(v.shape) = 0 \/ Len(v.shape) = 1 \/ Len(v.shape) > 1
    <3>1. \A n \in Nat : n = 0 \/ n = 1 \/ n > 1  OBVIOUS
    <3>2. Len(v.shape) \in Nat  BY <1>2
    <3> QED  BY <3>1, <3>2, Zenon
  <2>5. v.shape = <<>> \/ (v.shape # <<>> /\ Len(v.shape) = 1) \/ Len(v.shape) > 1
    <3>1. Len(v.shape) = 0 => ~ (Len(v.shape) >= 1)  OBVIOUS
    <3> QED  BY <3>1, <2>4, <1>2, Zenon
  <2> QED  BY <2>5, <2>1, <2>2, <2>3, Zenon
<1>4. LogicalN(v) \in Nat \ {0}
  <2>1. CASE v.shape = <<>>
    BY <2>1 DEF LogicalN
  <2>2. CASE v.shape # <<>>
    <3>1. Last(v.shape) \in Int  BY <1>2, <2>2 DEF Last
    <3> QED  BY <2>2, <3>1 DEF LogicalN, AtLeast1
  <2> QED  BY <2>1, <2>2
<1>5. ShapeBytes(v) \in Nat \ {0}
  <2>1. Elements(v.shape) \in Nat \ {0}  BY <1>1, ElementsPositive
  <2> QED  BY <2>1, <1>1, BytesPositive DEF ShapeBytes
<1>6. EffectiveWeights(v) \in Nat \ {0}
  BY <1>1 DEF EffectiveWeights, NoDtype
<1> QED
  BY <1>1, <1>3, <1>4, <1>5, <1>6

Tile == [m : Nat \ {0}, n : Nat \ {0}, k : Nat \ {0}]

LEMMA HeadDimPositive ==
  ASSUME Arguments, NEW v, IsBoundNode(v)
  PROVE  HeadDim(v, scenario) \in Nat \ {0}
<1>1. v.headDim \in Int  BY DEF IsBoundNode
<1>2. scenario.headDim \in Nat \ {0}  BY ArgumentsAre DEF IsScenario
<1> QED
  BY <1>1, <1>2 DEF HeadDim

(* The tile of a matrix product, and that it is cut to its three regions. *)
LEMMA GemmTileIs ==
  ASSUME Arguments, NEW v, IsBoundNode(v), NEW n
  PROVE  LET tile == GemmTile(v, n) IN
         /\ tile \in Tile /\ tile.k = 128 /\ tile.n = Smaller(128, LogicalN(v))
         /\ scenario.mode = "decode" => tile.m = 1
         /\ tile.m <= MaxFitRows("accum", tile.n * 8)
         /\ tile.m <= MaxFitRows(InRegion(n), tile.k * v.activations)
         /\ tile.m <= MaxFitRows(OutRegion(n), tile.n * v.activations)
<1> DEFINE width == Smaller(128, LogicalN(v))
           S == {IF scenario.mode = "decode" THEN 1 ELSE 64,
                 LogicalM(v),
                 MaxFitRows("accum", width * 8),
                 MaxFitRows(InRegion(n), 128 * v.activations),
                 MaxFitRows(OutRegion(n), width * v.activations)}
<1>1. width \in Nat \ {0} /\ LogicalM(v) \in Nat \ {0} /\ v.activations \in Nat \ {0}
  BY MeasuresPositive DEF Smaller
<1>2. /\ width * 8 \in Nat \ {0} /\ 128 * v.activations \in Nat \ {0}
      /\ width * v.activations \in Nat \ {0}
  <2> HIDE DEF width
  <2> QED  BY <1>1
<1>3. S \subseteq Nat \ {0} /\ S # {}
  <2> HIDE DEF width
  <2> QED  BY <1>1, <1>2, RowsPositive
<1>4. /\ SmallestOf(S) \in Nat \ {0}
      /\ \A r \in S : SmallestOf(S) <= r
  <2> HIDE DEF S
  <2> QED  BY <1>3, SmallestIs
<1>5. GemmTile(v, n) = [m |-> SmallestOf(S), n |-> width, k |-> 128]
  BY DEF GemmTile
<1> DEFINE m == SmallestOf(S)
<1>6. /\ m <= MaxFitRows("accum", width * 8)
      /\ m <= MaxFitRows(InRegion(n), 128 * v.activations)
      /\ m <= MaxFitRows(OutRegion(n), width * v.activations)
  BY <1>4
<1>7. m \in Nat \ {0} /\ (scenario.mode = "decode" => m <= 1)
  BY <1>4
<1>8. width = Smaller(128, LogicalN(v))
  OBVIOUS
<1> HIDE DEF m, width
<1>9. scenario.mode = "decode" => m = 1
  BY <1>7
<1> QED
  BY <1>1, <1>5, <1>6, <1>7, <1>8, <1>9 DEF Tile, m

(* The tile of a table lookup, and that it is cut to the two regions it uses. *)
LEMMA EmbeddingTileIs ==
  ASSUME Arguments, NEW v, IsBoundNode(v), NEW n
  PROVE  LET tile == EmbeddingTile(v, n) IN
         /\ tile \in Tile
         /\ tile.m <= MaxFitRows("weight", tile.n * EffectiveWeights(v))
         /\ tile.m <= MaxFitRows(OutRegion(n), tile.n * v.activations)
<1> DEFINE dim == LogicalN(v)
           S == {LogicalM(v), MaxFitRows("weight", dim * EffectiveWeights(v)),
                 MaxFitRows(OutRegion(n), dim * v.activations)}
<1>1. /\ dim \in Nat \ {0} /\ LogicalM(v) \in Nat \ {0} /\ v.activations \in Nat \ {0}
      /\ EffectiveWeights(v) \in Nat \ {0}
  BY MeasuresPositive
<1>2. dim * EffectiveWeights(v) \in Nat \ {0} /\ dim * v.activations \in Nat \ {0}
  <2> HIDE DEF dim
  <2> QED  BY <1>1
<1>3. S \subseteq Nat \ {0} /\ S # {}
  <2> HIDE DEF dim
  <2> QED  BY <1>1, <1>2, RowsPositive
<1>4. /\ SmallestOf(S) \in Nat \ {0}
      /\ \A r \in S : SmallestOf(S) <= r
  <2> HIDE DEF S
  <2> QED  BY <1>3, SmallestIs
<1>5. EmbeddingTile(v, n) = [m |-> SmallestOf(S), n |-> dim, k |-> dim]
  BY DEF EmbeddingTile
<1> DEFINE m == SmallestOf(S)
<1>6. /\ m <= MaxFitRows("weight", dim * EffectiveWeights(v))
      /\ m <= MaxFitRows(OutRegion(n), dim * v.activations)
  BY <1>4
<1>7. m \in Nat \ {0}
  BY <1>4
<1> HIDE DEF m, dim
<1> QED
  BY <1>1, <1>5, <1>6, <1>7 DEF Tile, m

(* Every tile has a row, a column and a depth. *)
LEMMA TilePositive ==
  ASSUME Arguments, NEW v, IsBoundNode(v), NEW n
  PROVE  TileShape(v, n) \in Tile
<1>1. CASE v.macro \in GemmLikeMacros
  BY <1>1, GemmTileIs DEF TileShape, GemmLikeMacros, StreamingMacros, SdpaMacros
<1>2. CASE v.macro = "EMBEDDING_LOOKUP"
  BY <1>2, EmbeddingTileIs DEF TileShape, GemmLikeMacros, StreamingMacros, SdpaMacros
<1>3. ASSUME NEW m \in Int, NEW width \in Int  PROVE Square(m, width) \in Tile
  BY DEF Square, Tile, AtLeast1
<1>4. /\ LogicalM(v) \in Nat \ {0} /\ LogicalN(v) \in Nat \ {0}
      /\ scenario.query \in Int /\ HeadDim(v, scenario) \in Int
  BY MeasuresPositive, ArgumentsAre, HeadDimPositive DEF IsScenario
<1>5. CASE v.macro \in {"KVLOAD", "KVSTORE"}
  <2> DEFINE rows == IF scenario.mode = "decode" THEN scenario.query ELSE Smaller(scenario.query, 16)
             width == Smaller(HeadDim(v, scenario), 128)
  <2>1. TileShape(v, n) = Square(rows, width)
    BY <1>5 DEF TileShape, GemmLikeMacros, StreamingMacros, SdpaMacros
  <2>2. rows \in Int /\ width \in Int
    BY <1>4 DEF Smaller
  <2> QED  BY <2>1, <2>2, <1>3
<1>6. CASE v.macro \in StreamingMacros \cup {"LAYOUT_FALLBACK"}
  <2> DEFINE rows == Smaller(LogicalM(v), IF scenario.mode = "decode" THEN 1 ELSE 16)
             width == Smaller(LogicalN(v), 128)
  <2>1. TileShape(v, n) = Square(rows, width)
    BY <1>6 DEF TileShape, GemmLikeMacros, StreamingMacros, SdpaMacros
  <2>2. rows \in Int /\ width \in Int
    BY <1>4 DEF Smaller
  <2> QED  BY <2>1, <2>2, <1>3
<1>7. CASE v.macro \notin GemmLikeMacros \cup StreamingMacros
             \cup {"EMBEDDING_LOOKUP", "KVLOAD", "KVSTORE", "LAYOUT_FALLBACK"}
  <2>1. TileShape(v, n) = [m |-> LogicalM(v), n |-> LogicalN(v), k |-> 128]
    BY <1>7 DEF TileShape
  <2> QED  BY <2>1, <1>4 DEF Tile
<1> QED
  BY <1>1, <1>2, <1>5, <1>6, <1>7

(* Every size is positive. *)
LEMMA SizesPositive ==
  ASSUME Arguments, NEW v, IsBoundNode(v), NEW tile \in Tile, NEW t
  PROVE  /\ InputBytes(v, tile) \in Nat \ {0} /\ OutputBytes(v, tile) \in Nat \ {0}
         /\ WeightBytes(v, t, tile) \in Nat \ {0} /\ MiscBytes(v, tile) \in Nat \ {0}
         /\ QuantBytes(v, tile) \in Nat \ {0} /\ KvBytes(v) \in Nat \ {0}
         /\ AtLeast1(tile.m * tile.n * 4) \in Nat \ {0}
<1>1. /\ tile.m \in Nat \ {0} /\ tile.n \in Nat \ {0} /\ tile.k \in Nat \ {0}
  BY DEF Tile
<1>2. /\ tile.m * tile.k \in Nat /\ tile.m * tile.n \in Nat /\ tile.k * tile.n \in Nat
      /\ tile.m * tile.k * 2 \in Nat \ {0} /\ tile.m * tile.n * 4 \in Nat
  BY <1>1
<1>3. /\ ShapeBytes(v) \in Nat \ {0} /\ v.activations \in Nat \ {0} /\ v.group \in Nat \ {0}
      /\ EffectiveWeights(v) \in Nat \ {0}
  BY MeasuresPositive
<1>4. InputBytes(v, tile) \in Nat \ {0}
  <2>1. /\ Bytes(tile.m * tile.k, v.activations) \in Nat \ {0}
        /\ Bytes(tile.m * tile.n, v.activations) \in Nat \ {0}
    BY <1>2, <1>3, BytesPositive
  <2> QED  BY <2>1, <1>3 DEF InputBytes, GemmLikeMacros, TiledInput, StreamingMacros, SdpaMacros
<1>5. OutputBytes(v, tile) \in Nat \ {0}
  <2>1. Bytes(tile.m * tile.n, v.activations) \in Nat \ {0}
    BY <1>2, <1>3, BytesPositive
  <2>2. Smaller(ShapeBytes(v), tile.m * tile.k * 2) \in Nat \ {0}
    BY <1>2, <1>3 DEF Smaller
  <2> QED
    BY <2>1, <2>2, <1>3 DEF OutputBytes, GemmLikeMacros, TiledInput, StreamingMacros, SdpaMacros
<1>6. WeightBytes(v, t, tile) \in Nat \ {0}
  <2>1. /\ Bytes(tile.m * tile.n, EffectiveWeights(v)) \in Nat \ {0}
        /\ Bytes(1, v.activations) \in Nat \ {0}
        /\ Bytes(tile.k, EffectiveWeights(v)) \in Nat \ {0}
        /\ Bytes(tile.k * tile.n, EffectiveWeights(v)) \in Nat \ {0}
    BY <1>1, <1>2, <1>3, BytesPositive
  <2>2. TableWidth(v) \in Int
    <3>1. v.headDim \in Int /\ v.shape \in Seq(Int)  BY DEF IsBoundNode
    <3>2. v.shape # <<>> => Last(v.shape) \in Int  BY <3>1 DEF Last
    <3> QED  BY <3>1, <3>2 DEF TableWidth
  <2>3. AtLeast1(TableWidth(v)) \div 2 \in Nat
    <3>1. AtLeast1(TableWidth(v)) \in Nat  BY <2>2 DEF AtLeast1
    <3> QED  BY <3>1
  <2>4. Bytes(AtLeast1(TableWidth(v)) \div 2, EffectiveWeights(v)) \in Nat \ {0}
    BY <2>3, <1>3, BytesPositive
  <2> QED  BY <2>1, <2>4 DEF WeightBytes, IsNormScale
<1>7. MiscBytes(v, tile) \in Nat \ {0}
  <2>1. tile.m * tile.n * v.activations \in Nat
    BY <1>2, <1>3
  <2>2. (tile.m * tile.n * v.activations) \div 2 \in Int
    BY <2>1
  <2> QED  BY <2>2, <1>3 DEF MiscBytes, Greater, Smaller
<1>8. QuantBytes(v, tile) \in Nat \ {0}
  <2>1. (tile.k + v.group - 1) \div v.group \in Int
    BY <1>1, <1>3
  <2> QED  BY <2>1 DEF QuantBytes, AtLeast1
<1>9. KvBytes(v) \in Nat \ {0}
  <2>1. /\ scenario.query \in Nat /\ scenario.pastLen \in Nat /\ scenario.kvHeads \in Nat
        /\ HeadDim(v, scenario) \in Nat
    BY ArgumentsAre, HeadDimPositive DEF IsScenario
  <2>2. KvLen(scenario) \in Nat /\ TokenStride(v) \in Nat
    BY <2>1 DEF KvLen, TokenStride
  <2>3. KvLen(scenario) * TokenStride(v) \in Nat
    BY <2>2
  <2> QED  BY <2>3 DEF KvBytes, AtLeast1
<1>10. AtLeast1(tile.m * tile.n * 4) \in Nat \ {0}
  BY <1>2 DEF AtLeast1
<1> QED
  BY <1>4, <1>5, <1>6, <1>7, <1>8, <1>9, <1>10

-----------------------------------------------------------------------------
(* Memory classes.                                                         *)

(* The last place of a tensor among the inputs. *)
LastPlace(v, t) == SelectLastInSeq(v.inputs, LAMBDA u : u = t)

LEMMA LastPlaceIs ==
  ASSUME NEW v, v.inputs \in Seq(Tensor), NEW t, t \in ToSet(v.inputs)
  PROVE  /\ LastPlace(v, t) \in 1..Len(v.inputs)
         /\ v.inputs[LastPlace(v, t)] = t
         /\ \A i \in 1..Len(v.inputs) : v.inputs[i] = t => i <= LastPlace(v, t)
<1> DEFINE ins == v.inputs
           I == {i \in 1..Len(ins) : ins[i] = t}
<1>1. LastPlace(v, t) = IF I # {} THEN Max(I) ELSE 0
  BY DEF LastPlace, SelectLastInSeq
<1>2. PICK p \in 1..Len(ins) : ins[p] = t
  BY DEF ToSet
<1>3. I # {} /\ I \in SUBSET Nat /\ Len(ins) \in Nat /\ \A i \in I : i <= Len(ins)
  BY <1>2
<1>4. PICK m \in I : \A i \in I : i <= m
  <2> HIDE DEF I
  <2> QED  BY <1>3, GreatestNatural
<1>5. Max(I) \in I /\ \A i \in I : Max(I) >= i
  <2>1. m \in I /\ \A i \in I : m >= i
    <3>1. \A i \in I : i \in Nat  BY <1>3
    <3> HIDE DEF I
    <3> QED  BY <1>4, <3>1
  <2> HIDE DEF I
  <2> QED  BY <2>1 DEF Max
<1>6. LastPlace(v, t) = Max(I)
  BY <1>1, <1>3
<1> QED
  BY <1>5, <1>6

(* Every tensor of a node has a memory class. *)
LEMMA ClassesAre ==
  ASSUME NEW v, IsBoundNode(v)
  PROVE  /\ \A t \in ToSet(v.inputs) : InputClass(v, t) \in MemoryClass
         /\ \A t : OutputClass(v, t) \in MemoryClass
<1>1. v.fallback \in MemoryClass /\ v.inputs \in Seq(Tensor)
  BY DEF IsBoundNode
<1>2. ASSUME NEW i \in Nat \ {0}  PROVE ClassAt(v, i) \in MemoryClass
  <2>1. v.macro = "WDQ_GEMM" => ClassAt(v, i) \in MemoryClass
    <3>1. (IF i > 3 THEN 3 ELSE i) \in {1, 2, 3}  OBVIOUS
    <3> QED  BY <3>1 DEF ClassAt, MemoryClass, SdpaMacros
  <2>2. v.macro = "RMSNORM_GEMM" => ClassAt(v, i) \in MemoryClass
    <3>1. (IF i > 4 THEN 4 ELSE i) \in {1, 2, 3, 4}  OBVIOUS
    <3> QED  BY <3>1 DEF ClassAt, MemoryClass, SdpaMacros
  <2>3. v.macro \in SdpaMacros => ClassAt(v, i) \in MemoryClass
    BY DEF ClassAt, MemoryClass, SdpaMacros, SdpaInputClass
  <2>4. v.macro \notin {"WDQ_GEMM", "RMSNORM_GEMM"} \cup SdpaMacros => ClassAt(v, i) \in MemoryClass
    BY <1>1 DEF ClassAt, MemoryClass, SdpaMacros
  <2> QED  BY <2>1, <2>2, <2>3, <2>4
<1>3. ASSUME NEW t \in ToSet(v.inputs)  PROVE InputClass(v, t) \in MemoryClass
  <2>1. LastPlace(v, t) \in Nat \ {0}
    BY <1>1, LastPlaceIs
  <2>2. InputClass(v, t) = ClassAt(v, LastPlace(v, t))
    BY DEF InputClass, LastPlace
  <2> QED  BY <2>1, <2>2, <1>2
<1>4. ASSUME NEW t  PROVE OutputClass(v, t) \in MemoryClass
  BY <1>1 DEF OutputClass, MemoryClass, SdpaMacros
<1> QED
  BY <1>3, <1>4

-----------------------------------------------------------------------------
(* The allocations of one node.                                            *)

LEMMA BucketsAre == ToSet(Buckets) = {"preload", "compute", "store", "persist"}
<1>1. DOMAIN Buckets = {1, 2, 3, 4}
  BY DEF Buckets
<1>2. /\ Buckets[1] = "preload" /\ Buckets[2] = "compute"
      /\ Buckets[3] = "store" /\ Buckets[4] = "persist"
  BY DEF Buckets
<1>3. ToSet(Buckets) = {Buckets[n] : n \in {1, 2, 3, 4}}
  BY <1>1 DEF ToSet
<1> QED
  BY <1>2, <1>3

(* The binding an allocation names says what the allocation is: which node's, which
   role it has, and which slice or symbol. *)
NamesItsBinding(v, a) ==
  \/ a.binding = NoBinding /\ a.role \in {"input", "output", "metadata", "temp"}
  \/ a.role = "kv_cache" /\ a.binding = StorageId("kv", v, TensorKind(v, a.tensor))
  \/ a.role = "weight" /\ a.binding = StorageId("weight", v, Sanitize[a.tensor])
  \/ a.role = "quant_param" /\ a.binding = StorageId("quant", v, Sanitize[a.tensor])

IsAllocation(v, a) ==
  /\ a.node = v.id
  /\ a.size \in Nat \ {0}
  /\ a.region \in Region \cup {"no region"}
  /\ a.bucket \in ToSet(Buckets)
  /\ a.class \in MemoryClass
  /\ a.role = "kv_cache" => a.size = KvBytes(v)
  /\ NamesItsBinding(v, a)

(* A slice of the cache. *)
IsKvSlice(v, t, a) ==
  /\ IsAllocation(v, a) /\ a.tensor = t
  /\ a.bucket = "persist" /\ a.region = "no region" /\ a.role = "kv_cache"

LEMMA KvSliceIs ==
  ASSUME Arguments, NEW v, IsBoundNode(v), NEW prefix, NEW t
  PROVE  IsKvSlice(v, t, KvSlice(v, prefix, t))
<1> DEFINE a == KvSlice(v, prefix, t)
           size == KvBytes(v)
           binding == StorageId("kv", v, TensorKind(v, t))
<1>1. a = Place(v, prefix, t, "kv_cache", "persist", "KV_CACHE", "no region", size, binding)
  BY DEF KvSlice
<1>2. size \in Nat \ {0}
  <2>1. [m |-> 1, n |-> 1, k |-> 1] \in Tile  BY DEF Tile
  <2> QED  BY <2>1, SizesPositive
<1> HIDE DEF size, binding, a
<1>3. a.node = v.id /\ a.tensor = t /\ a.role = "kv_cache"
  BY <1>1 DEF Place
<1>4. a.bucket = "persist" /\ a.class = "KV_CACHE" /\ a.region = "no region"
  BY <1>1 DEF Place
<1>5. a.size = size /\ a.binding = binding
  BY <1>1 DEF Place
<1>6. IsAllocation(v, a)
  BY <1>2, <1>3, <1>4, <1>5, BucketsAre
     DEF size, binding, IsAllocation, NamesItsBinding, MemoryClass
<1> QED
  BY <1>3, <1>4, <1>6 DEF a, IsKvSlice

LEMMA RegionsAre ==
  ASSUME NEW n
  PROVE  InRegion(n) \in {"ping", "pong"} /\ OutRegion(n) \in {"ping", "pong"}
BY DEF InRegion, OutRegion

(* An input is staged before the node computes, or is a slice of the cache. *)
IsInput(v, t, tile, a) ==
  /\ IsAllocation(v, a) /\ a.tensor = t
  /\ a.bucket \in {"preload", "persist"}
  /\ a.region \in {"ping", "pong"} => InputClass(v, t) = "ACTIVATION" /\ a.size = InputBytes(v, tile)
  /\ a.region # "accum"
  /\ a.role = "weight" => InputClass(v, t) = "WEIGHT" /\ a.size = WeightBytes(v, t, tile)

LEMMA InputAllocationIs ==
  ASSUME Arguments, NEW v, IsBoundNode(v), NEW n, NEW tile \in Tile,
         NEW t, InputClass(v, t) \in MemoryClass
  PROVE  IsInput(v, t, tile, InputAllocation(v, t, n, tile))
<1> DEFINE class == InputClass(v, t)
           a == InputAllocation(v, t, n, tile)
<1> SUFFICES IsInput(v, t, tile, a)
  OBVIOUS
<1>1. InRegion(n) \in {"ping", "pong"}
  BY RegionsAre
<1>2. /\ InputBytes(v, tile) \in Nat \ {0} /\ WeightBytes(v, t, tile) \in Nat \ {0}
      /\ QuantBytes(v, tile) \in Nat \ {0} /\ KvBytes(v) \in Nat \ {0}
  BY SizesPositive
<1>3. CASE class = "ACTIVATION"
  <2>1. a = Place(v, "input", t, "input", "preload", "ACTIVATION", InRegion(n),
                  InputBytes(v, tile), NoBinding)
    BY <1>3 DEF InputAllocation
  <2> HIDE DEF a
  <2>2. /\ a.node = v.id /\ a.tensor = t /\ a.role = "input"
        /\ a.bucket = "preload" /\ a.class = "ACTIVATION"
        /\ a.region = InRegion(n)
        /\ a.size = InputBytes(v, tile) /\ a.binding = NoBinding
    BY <2>1 DEF Place
  <2> QED
    BY <2>2, <1>1, <1>2, <1>3, BucketsAre DEF IsInput, IsAllocation, NamesItsBinding, Region,
       MemoryClass
<1>4. CASE class = "WEIGHT"
  <2>1. a = Place(v, "weight", t, "weight", "preload", "WEIGHT",
                  IF IsNormScale(v, t) THEN "misc" ELSE "weight",
                  WeightBytes(v, t, tile), StorageId("weight", v, Sanitize[t]))
    BY <1>4 DEF InputAllocation
  <2> HIDE DEF a
  <2>2. /\ a.node = v.id /\ a.tensor = t /\ a.role = "weight"
        /\ a.bucket = "preload" /\ a.class = "WEIGHT"
        /\ a.region = (IF IsNormScale(v, t) THEN "misc" ELSE "weight")
        /\ a.size = WeightBytes(v, t, tile) /\ a.binding = StorageId("weight", v, Sanitize[t])
    BY <2>1 DEF Place
  <2> QED
    BY <2>2, <1>2, <1>4, BucketsAre DEF IsInput, IsAllocation, NamesItsBinding, Region,
       MemoryClass
<1>5. CASE class = "QUANT_PARAM"
  <2>1. a = Place(v, "quant", t, "quant_param", "preload", "QUANT_PARAM", "quant",
                  QuantBytes(v, tile), StorageId("quant", v, Sanitize[t]))
    BY <1>5 DEF InputAllocation
  <2> HIDE DEF a
  <2>2. /\ a.node = v.id /\ a.tensor = t /\ a.role = "quant_param"
        /\ a.bucket = "preload" /\ a.class = "QUANT_PARAM"
        /\ a.region = "quant"
        /\ a.size = QuantBytes(v, tile) /\ a.binding = StorageId("quant", v, Sanitize[t])
    BY <2>1 DEF Place
  <2> QED
    BY <2>2, <1>2, <1>5, BucketsAre DEF IsInput, IsAllocation, NamesItsBinding, Region,
       MemoryClass
<1>6. CASE class = "KV_CACHE"
  <2>1. a = KvSlice(v, "kv", t)
    BY <1>6 DEF InputAllocation
  <2> HIDE DEF a
  <2>2. IsKvSlice(v, t, a)
    BY <2>1, KvSliceIs
  <2> QED
    BY <2>2 DEF IsKvSlice, IsInput
<1>7. CASE class = "METADATA"
  <2>1. a = Place(v, "meta", t, "metadata", "preload", "METADATA", "misc", 256, NoBinding)
    BY <1>7 DEF InputAllocation
  <2> HIDE DEF a
  <2>2. /\ a.node = v.id /\ a.tensor = t /\ a.role = "metadata"
        /\ a.bucket = "preload" /\ a.class = "METADATA"
        /\ a.region = "misc"
        /\ a.size = 256 /\ a.binding = NoBinding
    BY <2>1 DEF Place
  <2> QED
    BY <2>2, <1>7, BucketsAre DEF IsInput, IsAllocation, NamesItsBinding, Region,
       MemoryClass
<1> QED
  BY <1>3, <1>4, <1>5, <1>6, <1>7 DEF MemoryClass

(* An output is stored behind it, or is a slice of the cache. *)
IsOutput(v, t, tile, a) ==
  /\ IsAllocation(v, a) /\ a.tensor = t
  /\ a.bucket \in {"store", "persist"}
  /\ a.region \in {"ping", "pong"} => a.size = OutputBytes(v, tile)
  /\ a.region # "accum" /\ a.role # "weight"

LEMMA OutputAllocationIs ==
  ASSUME Arguments, NEW v, IsBoundNode(v), NEW n, NEW tile \in Tile, NEW t
  PROVE  IsOutput(v, t, tile, OutputAllocation(v, t, n, tile))
<1> DEFINE class == OutputClass(v, t)
           a == OutputAllocation(v, t, n, tile)
<1> SUFFICES IsOutput(v, t, tile, a)
  OBVIOUS
<1>1. OutRegion(n) \in {"ping", "pong"}
  BY RegionsAre
<1>2. OutputBytes(v, tile) \in Nat \ {0} /\ KvBytes(v) \in Nat \ {0}
  BY SizesPositive
<1>3. CASE class = "ACTIVATION"
  <2>1. a = Place(v, "output", t, "output", "store", "ACTIVATION", OutRegion(n),
                  OutputBytes(v, tile), NoBinding)
    BY <1>3 DEF OutputAllocation
  <2> HIDE DEF a
  <2>2. /\ a.node = v.id /\ a.tensor = t /\ a.role = "output"
        /\ a.bucket = "store" /\ a.class = "ACTIVATION"
        /\ a.region = OutRegion(n)
        /\ a.size = OutputBytes(v, tile) /\ a.binding = NoBinding
    BY <2>1 DEF Place
  <2> QED
    BY <2>2, <1>1, <1>2, BucketsAre DEF IsOutput, IsAllocation, NamesItsBinding, Region,
       MemoryClass
<1>4. CASE class = "KV_CACHE"
  <2>1. a = KvSlice(v, "output", t)
    BY <1>4 DEF OutputAllocation
  <2> HIDE DEF a
  <2>2. IsKvSlice(v, t, a)
    BY <2>1, KvSliceIs
  <2> QED
    BY <2>2 DEF IsKvSlice, IsOutput
<1>5. CASE class \notin {"ACTIVATION", "KV_CACHE"}
  <2>1. a = Place(v, "output", t, "metadata", "store", class, "misc", 256, NoBinding)
    BY <1>5 DEF OutputAllocation
  <2> HIDE DEF a
  <2>2. /\ a.node = v.id /\ a.tensor = t /\ a.role = "metadata"
        /\ a.bucket = "store" /\ a.class = class
        /\ a.region = "misc"
        /\ a.size = 256 /\ a.binding = NoBinding
    BY <2>1 DEF Place
  <2>3. class \in MemoryClass
    BY ClassesAre
  <2> HIDE DEF class
  <2> QED
    BY <2>2, <2>3, BucketsAre DEF IsOutput, IsAllocation, NamesItsBinding, Region
<1> QED
  BY <1>3, <1>4, <1>5

(* A temporary lives while the node computes; the accumulator comes first. *)
IsTemp(v, i, tile, a) ==
  /\ IsAllocation(v, a)
  /\ a.bucket = "compute" /\ a.role = "temp"
  /\ a.region = "accum" => i = 1 /\ a.size = AtLeast1(tile.m * tile.n * 4)
  /\ a.region \notin {"ping", "pong"}

LEMMA TempsAre ==
  ASSUME Arguments, NEW v, IsBoundNode(v), NEW tile \in Tile
  PROVE  /\ Temps(v, tile) \in Seq(ToSet(Temps(v, tile)))
         /\ \A i \in 1..Len(Temps(v, tile)) : IsTemp(v, i, tile, Temps(v, tile)[i])
<1> DEFINE accum == Temp(v, "accum", "ACTIVATION", AtLeast1(tile.m * tile.n * 4))
           wdq == Temp(v, "wdq_reserved", "QUANT_PARAM", 1024)
           misc == Temp(v, "misc", "METADATA", MiscBytes(v, tile))
<1>1. AtLeast1(tile.m * tile.n * 4) \in Nat \ {0} /\ MiscBytes(v, tile) \in Nat \ {0}
  BY SizesPositive
<1>2. IsAllocation(v, accum) /\ IsAllocation(v, wdq) /\ IsAllocation(v, misc)
  BY <1>1, BucketsAre DEF Temp, Place, IsAllocation, NamesItsBinding, Region, MemoryClass
<1>3. /\ accum.bucket = "compute" /\ accum.role = "temp" /\ accum.region = "accum"
      /\ accum.size = AtLeast1(tile.m * tile.n * 4)
      /\ wdq.bucket = "compute" /\ wdq.role = "temp" /\ wdq.region = "wdq_reserved"
      /\ misc.bucket = "compute" /\ misc.role = "temp" /\ misc.region = "misc"
  BY DEF Temp, Place
<1>4. Temps(v, tile) = (IF v.macro \in GemmLikeMacros THEN <<accum>> ELSE <<>>)
                       \o (IF v.quantised THEN <<wdq>> ELSE <<>>)
                       \o (IF v.macro \in VpuTempMacros THEN <<misc>> ELSE <<>>)
  BY DEF Temps
<1> HIDE DEF accum, wdq, misc
<1> DEFINE first == IF v.macro \in GemmLikeMacros THEN <<accum>> ELSE <<>>
           second == IF v.quantised THEN <<wdq>> ELSE <<>>
           third == IF v.macro \in VpuTempMacros THEN <<misc>> ELSE <<>>
           All == {accum, wdq, misc}
<1>a. ASSUME NEW c \in BOOLEAN, NEW x \in All
      PROVE  LET one == IF c THEN <<x>> ELSE <<>> IN
             /\ one \in Seq(All) /\ Len(one) \in {0, 1}
             /\ \A i \in 1..Len(one) : one[i] = x /\ i = 1
  <2> HIDE DEF All
  <2>1. CASE c
    BY <2>1
  <2>2. CASE ~ c
    BY <2>2
  <2> QED  BY <2>1, <2>2
<1>5. /\ first \in Seq(All) /\ Len(first) \in {0, 1}
      /\ \A i \in 1..Len(first) : first[i] = accum /\ i = 1
  BY <1>a
<1>6. /\ second \in Seq(All) /\ Len(second) \in {0, 1}
      /\ \A i \in 1..Len(second) : second[i] = wdq
  BY <1>a DEF IsBoundNode
<1>7. /\ third \in Seq(All) /\ Len(third) \in {0, 1}
      /\ \A i \in 1..Len(third) : third[i] = misc
  BY <1>a
<1> HIDE DEF first, second, third
<1> DEFINE both == first \o second
           all == both \o third
<1>8. /\ both \in Seq(All) /\ Len(both) \in Nat
      /\ \A i \in 1..Len(both) : (both[i] = accum /\ i = 1) \/ both[i] = wdq
  BY <1>5, <1>6
<1> HIDE DEF both
<1>9. /\ all \in Seq(All)
      /\ \A i \in 1..Len(all) : (all[i] = accum /\ i = 1) \/ all[i] \in {wdq, misc}
  BY <1>7, <1>8
<1>10. Temps(v, tile) = all
  BY <1>4 DEF first, second, third, both
<1> HIDE DEF all
<1>11. all \in Seq(ToSet(all))
  BY <1>9 DEF ToSet
<1> QED
  BY <1>2, <1>3, <1>9, <1>10, <1>11 DEF IsTemp

(* What stands where in the allocations of a node: its inputs, its outputs, its
   temporaries. *)
StandsAt(v, n, k, a) ==
  LET ins == Len(v.inputs)
      outs == Len(v.outputs)
      tile == TileShape(v, n)
  IN  \/ k <= ins /\ IsInput(v, v.inputs[k], tile, a)
      \/ k > ins /\ k - ins <= outs /\ IsOutput(v, v.outputs[k - ins], tile, a)
      \/ k > ins + outs /\ IsTemp(v, k - (ins + outs), tile, a)

LEMMA NodeAllocationsAre ==
  ASSUME Arguments, NEW v, IsBoundNode(v), NEW n
  PROVE  /\ NodeAllocations(v, n) \in Seq(ToSet(NodeAllocations(v, n)))
         /\ \A k \in 1..Len(NodeAllocations(v, n)) : StandsAt(v, n, k, NodeAllocations(v, n)[k])
<1> DEFINE tile == TileShape(v, n)
           ins == [i \in DOMAIN v.inputs |-> InputAllocation(v, v.inputs[i], n, tile)]
           outs == [i \in DOMAIN v.outputs |-> OutputAllocation(v, v.outputs[i], n, tile)]
           temps == Temps(v, tile)
           I == Len(v.inputs)
           O == Len(v.outputs)
           All == ToSet(ins) \cup ToSet(outs) \cup ToSet(temps)
<1>1. NodeAllocations(v, n) = ins \o outs \o temps
  BY DEF NodeAllocations
<1>2. v.inputs \in Seq(Tensor) /\ v.outputs \in Seq(Tensor)
  BY DEF IsBoundNode
<1>3. I \in Nat /\ O \in Nat /\ DOMAIN v.inputs = 1..I /\ DOMAIN v.outputs = 1..O
  BY <1>2
<1>4. tile \in Tile
  BY TilePositive
<1> HIDE DEF tile
<1>5. /\ ins \in Seq(ToSet(ins)) /\ Len(ins) = I
      /\ \A k \in 1..I : ins[k] = InputAllocation(v, v.inputs[k], n, tile)
  BY <1>3 DEF ToSet
<1>6. /\ outs \in Seq(ToSet(outs)) /\ Len(outs) = O
      /\ \A k \in 1..O : outs[k] = OutputAllocation(v, v.outputs[k], n, tile)
  BY <1>3 DEF ToSet
<1>7. /\ temps \in Seq(ToSet(temps))
      /\ \A k \in 1..Len(temps) : IsTemp(v, k, tile, temps[k])
  BY <1>4, TempsAre
<1>8. ASSUME NEW k \in 1..I  PROVE IsInput(v, v.inputs[k], tile, ins[k])
  <2>1. v.inputs[k] \in ToSet(v.inputs)  BY <1>3 DEF ToSet
  <2>2. InputClass(v, v.inputs[k]) \in MemoryClass  BY <2>1, ClassesAre
  <2> QED  BY <2>2, <1>4, <1>5, InputAllocationIs
<1>9. ASSUME NEW k \in 1..O  PROVE IsOutput(v, v.outputs[k], tile, outs[k])
  BY <1>4, <1>6, OutputAllocationIs
<1> HIDE DEF ins, outs, temps, I, O
<1> DEFINE both == ins \o outs
           all == both \o temps
<1>10. ins \in Seq(All) /\ outs \in Seq(All) /\ temps \in Seq(All)
  BY <1>5, <1>6, <1>7
<1> HIDE DEF All
<1>11. /\ both \in Seq(All) /\ Len(both) = I + O
       /\ \A k \in 1..(I + O) : both[k] = IF k <= I THEN ins[k] ELSE outs[k - I]
  BY <1>3, <1>5, <1>6, <1>10
<1> HIDE DEF both
<1>12. /\ all \in Seq(All) /\ Len(all) = I + O + Len(temps) /\ Len(temps) \in Nat
       /\ \A k \in 1..Len(all) : all[k] = IF k <= I + O THEN both[k] ELSE temps[k - (I + O)]
  <2>1. Len(temps) \in Nat /\ Len(both) \in Nat /\ I + O \in Nat  BY <1>3, <1>10, <1>11
  <2>0. both \in Seq(All) /\ temps \in Seq(All)  BY <1>10, <1>11
  <2>2. all \in Seq(All) /\ Len(all) = Len(both) + Len(temps)  BY <2>0
  <2>3. \A k \in 1..Len(all) : all[k] = IF k <= Len(both) THEN both[k] ELSE temps[k - Len(both)]
    BY <1>10, <1>11
  <2> QED  BY <1>11, <2>1, <2>2, <2>3
<1>13. NodeAllocations(v, n) = all
  BY <1>1 DEF both
<1> HIDE DEF all
<1>14. ASSUME NEW k \in 1..Len(all)  PROVE StandsAt(v, n, k, all[k])
  <2>1. k \in Nat /\ 1 <= k /\ k <= I + O + Len(temps)
    BY <1>3, <1>12
  <2>2. CASE k <= I
    <3>1. k \in 1..I /\ k \in 1..(I + O) /\ k <= I + O  BY <2>1, <2>2, <1>3
    <3>2. all[k] = ins[k]  BY <3>1, <2>2, <1>11, <1>12
    <3>3. IsInput(v, v.inputs[k], tile, all[k])  BY <3>1, <3>2, <1>8
    <3> QED  BY <3>3, <2>2 DEF StandsAt, tile, I
  <2>3. CASE k > I /\ k <= I + O
    <3>1. k - I \in 1..O /\ k \in 1..(I + O) /\ ~ (k <= I) /\ k - I <= O
      BY <2>1, <2>3, <1>3
    <3>2. all[k] = outs[k - I]  BY <3>1, <2>3, <1>11, <1>12
    <3>3. IsOutput(v, v.outputs[k - I], tile, all[k])  BY <3>1, <3>2, <1>9
    <3> QED  BY <3>1, <3>3, <2>3 DEF StandsAt, tile, I, O
  <2>4. CASE k > I + O
    <3>1. k - (I + O) \in 1..Len(temps) /\ ~ (k <= I + O)
      BY <2>1, <2>4, <1>3, <1>12
    <3>2. all[k] = temps[k - (I + O)]  BY <3>1, <1>12
    <3>3. IsTemp(v, k - (I + O), tile, all[k])  BY <3>1, <3>2, <1>7
    <3> QED  BY <3>3, <2>4 DEF StandsAt, tile, I, O
  <2>5. k <= I \/ (k > I /\ k <= I + O) \/ k > I + O
    BY <2>1, <1>3
  <2> QED  BY <2>2, <2>3, <2>4, <2>5
<1>15. all \in Seq(ToSet(all))
  BY <1>12 DEF ToSet
<1> QED
  BY <1>13, <1>14, <1>15

(* So all of them are allocations of the node. *)
LEMMA NodeAllocationsOf ==
  ASSUME Arguments, NEW v, IsBoundNode(v), NEW n, NEW a \in ToSet(NodeAllocations(v, n))
  PROVE  IsAllocation(v, a)
<1> DEFINE placed == NodeAllocations(v, n)
<1>1. PICK k \in DOMAIN placed : a = placed[k]
  BY DEF ToSet
<1>2. DOMAIN placed = 1..Len(placed)
  BY NodeAllocationsAre
<1>3. StandsAt(v, n, k, placed[k])
  BY <1>2, NodeAllocationsAre
<1> QED
  BY <1>1, <1>3 DEF StandsAt, IsInput, IsOutput, IsTemp

-----------------------------------------------------------------------------
(* What a node registers.                                                  *)

KvKind == {"key", "value"}

LEMMA KvKindsAre ==
  ASSUME NEW v
  PROVE  KvKinds(v) \in Seq(KvKind)
<1>1. \A t : TensorKind(v, t) \in KvKind
  BY DEF TensorKind, KvKind
<1>2. CASE v.macro \in {"KVSTORE", "KVLOAD"}
  <2> DEFINE kind == IF KvTensors(v) # <<>> THEN TensorKind(v, Head(KvTensors(v)))
                     ELSE IF v.kvKind = "value" THEN "value" ELSE "key"
  <2>1. kind \in KvKind
    BY <1>1 DEF KvKind
  <2>2. KvKinds(v) = <<kind>>
    BY <1>2 DEF KvKinds, SdpaMacros
  <2> HIDE DEF kind
  <2> QED  BY <2>1, <2>2
<1>3. CASE v.macro \in SdpaMacros
  <2>1. KvKinds(v) = <<"key", "value">>
    BY <1>3 DEF KvKinds, SdpaMacros
  <2> QED  BY <2>1 DEF KvKind
<1>4. CASE v.macro \notin {"KVSTORE", "KVLOAD"} \cup SdpaMacros
  <2>1. KvKinds(v) = <<>>
    BY <1>4 DEF KvKinds
  <2> QED  BY <2>1
<1> QED
  BY <1>2, <1>3, <1>4

(* A descriptor says what its id says. *)
Describes(id, d) ==
  \/ id[1] = "kv" /\ d.role = "kv_cache" /\ d.kind = id[3]
  \/ id[1] = "weight" /\ d.role = "weight" /\ Sanitize[d.tensor] = id[3]
  \/ id[1] = "quant" /\ d.role = "quant_param" /\ Sanitize[d.tensor] = id[3]

LEMMA DescriptorIs ==
  ASSUME NEW role, NEW t, NEW kind
  PROVE  /\ Descriptor(role, t, kind).role = role /\ Descriptor(role, t, kind).tensor = t
         /\ Descriptor(role, t, kind).kind = kind
BY DEF Descriptor

LEMMA StorageIdIs ==
  ASSUME NEW role, NEW v, NEW part
  PROVE  /\ StorageId(role, v, part)[1] = role /\ StorageId(role, v, part)[3] = part
         /\ StorageId(role, v, part) # NoBinding
BY DEF StorageId, NoBinding

(* An entry of what is registered describes its id; all that a node refers to has one. *)
EntryDescribes(e) == e.id = NoBinding \/ Describes(e.id, e.is)

LEMMA EntriesAre ==
  ASSUME NEW v, NEW placed, placed \in Seq(ToSet(placed)),
         \A a \in ToSet(placed) : IsAllocation(v, a)
  PROVE  /\ DOMAIN Entries(v, placed) \subseteq Nat \ {0}
         /\ \A i \in DOMAIN Entries(v, placed) : EntryDescribes(Entries(v, placed)[i])
         /\ \A a \in ToSet(placed) :
              \E i \in DOMAIN Entries(v, placed) : Entries(v, placed)[i].id = a.binding
         /\ \A kind \in ToSet(KvKinds(v)) :
              \E i \in DOMAIN Entries(v, placed) :
                Entries(v, placed)[i].id = StorageId("kv", v, kind)
<1> DEFINE kinds == KvKinds(v)
           ofAllocation(a) ==
             Entry(a.binding, Descriptor(a.role, a.tensor,
               IF a.role = "kv_cache" THEN TensorKind(v, a.tensor) ELSE "no kind"))
           ofKind(kind) ==
             Entry(StorageId("kv", v, kind), Descriptor("kv_cache", NamedAfter(v, kind), kind))
           first == [i \in DOMAIN placed |-> ofAllocation(placed[i])]
           second == [i \in DOMAIN kinds |-> ofKind(kinds[i])]
           all == first \o second
           N == Len(placed)
           M == Len(kinds)
<1>1. Entries(v, placed) = all
  BY DEF Entries
<1>2. /\ N \in Nat /\ DOMAIN placed = 1..N
      /\ M \in Nat /\ DOMAIN kinds = 1..M
  BY KvKindsAre
<1>3. \A id, d : Entry(id, d).id = id /\ Entry(id, d).is = d
  BY DEF Entry
<1>4. ASSUME NEW a \in ToSet(placed)
      PROVE  ofAllocation(a).id = a.binding /\ EntryDescribes(ofAllocation(a))
  <2> DEFINE d == Descriptor(a.role, a.tensor,
                    IF a.role = "kv_cache" THEN TensorKind(v, a.tensor) ELSE "no kind")
  <2>1. ofAllocation(a).id = a.binding /\ ofAllocation(a).is = d
    BY <1>3
  <2>2. /\ d.role = a.role /\ d.tensor = a.tensor
        /\ a.role = "kv_cache" => d.kind = TensorKind(v, a.tensor)
    <3> DEFINE kind == IF a.role = "kv_cache" THEN TensorKind(v, a.tensor) ELSE "no kind"
    <3>1. a.role = "kv_cache" => kind = TensorKind(v, a.tensor)
      OBVIOUS
    <3>2. d = Descriptor(a.role, a.tensor, kind)
      OBVIOUS
    <3> HIDE DEF kind, d
    <3>3. d.role = a.role /\ d.tensor = a.tensor /\ d.kind = kind
      BY <3>2, DescriptorIs
    <3> QED  BY <3>1, <3>3
  <2>3. NamesItsBinding(v, a)
    BY DEF IsAllocation
  <2> HIDE DEF d, ofAllocation
  <2>4. a.binding = NoBinding \/ Describes(a.binding, d)
    BY <2>2, <2>3, StorageIdIs DEF NamesItsBinding, Describes
  <2> QED  BY <2>1, <2>4 DEF EntryDescribes
<1>5. ASSUME NEW kind
      PROVE  ofKind(kind).id = StorageId("kv", v, kind) /\ EntryDescribes(ofKind(kind))
  <2> DEFINE d == Descriptor("kv_cache", NamedAfter(v, kind), kind)
  <2>1. ofKind(kind).id = StorageId("kv", v, kind) /\ ofKind(kind).is = d
    BY <1>3
  <2>2. d.role = "kv_cache" /\ d.kind = kind
    BY DescriptorIs
  <2> HIDE DEF d, ofKind
  <2>3. Describes(StorageId("kv", v, kind), d)
    BY <2>2, StorageIdIs DEF Describes
  <2> QED  BY <2>1, <2>3 DEF EntryDescribes
<1> HIDE DEF ofAllocation, ofKind, N, M, kinds
<1>6. first \in Seq(ToSet(first)) /\ Len(first) = N /\ \A i \in 1..N : first[i] = ofAllocation(placed[i])
  BY <1>2 DEF ToSet
<1>7. second \in Seq(ToSet(second)) /\ Len(second) = M /\ \A i \in 1..M : second[i] = ofKind(kinds[i])
  BY <1>2 DEF ToSet
<1> HIDE DEF first, second
<1>8. /\ DOMAIN all = 1..(N + M)
      /\ \A i \in 1..N : all[i] = first[i]
      /\ \A i \in 1..M : all[N + i] = second[i]
  <2> DEFINE A == ToSet(first) \cup ToSet(second)
  <2>1. first \in Seq(A) /\ second \in Seq(A)
    BY <1>6, <1>7
  <2> HIDE DEF A
  <2>2. all \in Seq(A) /\ Len(all) = Len(first) + Len(second)
    BY <2>1
  <2>3. DOMAIN all = 1..(N + M)
    BY <2>2, <1>6, <1>7
  <2>4. ASSUME NEW i \in 1..N  PROVE all[i] = first[i]
    BY <2>1, <1>6
  <2>5. ASSUME NEW i \in 1..M  PROVE all[N + i] = second[i]
    BY <2>1, <1>2, <1>6, <1>7
  <2> QED  BY <2>3, <2>4, <2>5
<1> HIDE DEF all
<1>9. ASSUME NEW i \in DOMAIN all  PROVE EntryDescribes(all[i])
  <2>1. i \in 1..N \/ (i - N \in 1..M /\ N + (i - N) = i)
    BY <1>2, <1>8
  <2>2. CASE i \in 1..N
    <3>1. placed[i] \in ToSet(placed)  BY <1>2, <2>2 DEF ToSet
    <3> QED  BY <3>1, <2>2, <1>4, <1>6, <1>8
  <2>3. CASE i - N \in 1..M /\ N + (i - N) = i
    <3>1. all[i] = ofKind(kinds[i - N])  BY <2>3, <1>7, <1>8
    <3> QED  BY <3>1, <1>5
  <2> QED  BY <2>1, <2>2, <2>3
<1>10. ASSUME NEW a \in ToSet(placed)
       PROVE  \E i \in DOMAIN all : all[i].id = a.binding
  <2>1. PICK i \in 1..N : a = placed[i]
    BY <1>2 DEF ToSet
  <2>2. i \in DOMAIN all /\ all[i] = ofAllocation(a)
    BY <2>1, <1>2, <1>6, <1>8
  <2> QED  BY <2>2, <1>4
<1>11. ASSUME NEW kind \in ToSet(kinds)
       PROVE  \E i \in DOMAIN all : all[i].id = StorageId("kv", v, kind)
  <2>1. PICK i \in 1..M : kind = kinds[i]
    BY <1>2 DEF ToSet
  <2>2. N + i \in DOMAIN all /\ all[N + i] = ofKind(kind)
    BY <2>1, <1>2, <1>7, <1>8
  <2> QED  BY <2>2, <1>5
<1>12. DOMAIN all \subseteq Nat \ {0}
  BY <1>2, <1>8
<1> QED
  BY <1>1, <1>9, <1>10, <1>11, <1>12 DEF kinds

(* Registering keeps what was there, adds all the entries, and what is registered
   describes its id. *)
LEMMA RegisteredAre ==
  ASSUME NEW byId, \A id \in DOMAIN byId : Describes(id, byId[id]),
         NEW entries, DOMAIN entries \subseteq Nat \ {0},
         \A i \in DOMAIN entries : EntryDescribes(entries[i])
  PROVE  /\ DOMAIN byId \subseteq DOMAIN Registered(byId, entries)
         /\ \A i \in DOMAIN entries :
              entries[i].id # NoBinding => entries[i].id \in DOMAIN Registered(byId, entries)
         /\ \A id \in DOMAIN Registered(byId, entries) : Describes(id, Registered(byId, entries)[id])
<1> DEFINE ids == {e.id : e \in ToSet(entries)} \ {NoBinding}
           places(id) == {i \in DOMAIN entries : entries[i].id = id}
           m == Registered(byId, entries)
<1>1. m = [id \in DOMAIN byId \cup ids |->
             IF id \in DOMAIN byId THEN byId[id] ELSE entries[SmallestOf(places(id))].is]
  BY DEF Registered
<1>2. \A i \in DOMAIN entries : entries[i].id # NoBinding => entries[i].id \in ids
  BY DEF ToSet
<1>3. ASSUME NEW id \in ids  PROVE Describes(id, entries[SmallestOf(places(id))].is)
  <2>1. places(id) # {} /\ places(id) \subseteq Nat \ {0}
    BY DEF ToSet
  <2>2. SmallestOf(places(id)) \in places(id)
    <3> HIDE DEF places
    <3> QED  BY <2>1, SmallestIs
  <2>3. PICK i \in DOMAIN entries : i = SmallestOf(places(id)) /\ entries[i].id = id
    BY <2>2
  <2>4. EntryDescribes(entries[i]) /\ id # NoBinding
    BY <2>3
  <2> QED  BY <2>3, <2>4 DEF EntryDescribes
<1> HIDE DEF m, ids, places
<1>4. \A id \in DOMAIN m : Describes(id, m[id])
  BY <1>1, <1>3
<1>5. DOMAIN m = DOMAIN byId \cup ids
  BY <1>1
<1> QED
  BY <1>2, <1>4, <1>5 DEF m

-----------------------------------------------------------------------------
(* The arguments do not change, and neither does what depends on them.     *)

Of(i) == NodeAllocations(nig[i], i)
FormulaOf(i, kind) == Formula(nig[i], kind)

LEMMA ArgumentsStay ==
  ASSUME UNCHANGED <<nig, scenario, capacity>>, NEW i
  PROVE  /\ Of(i)' = Of(i)
         /\ TileShape(nig[i], i)' = TileShape(nig[i], i)
         /\ \A kind : FormulaOf(i, kind)' = FormulaOf(i, kind)
<1>1. TileShape(nig[i], i)' = TileShape(nig[i], i)
  BY DEF TileShape, GemmTile, EmbeddingTile, MaxFitRows
<1>2. Of(i)' = Of(i)
  BY <1>1 DEF Of, NodeAllocations, InputAllocation, OutputAllocation, KvSlice, KvBytes, TokenStride
<1>3. \A kind : FormulaOf(i, kind)' = FormulaOf(i, kind)
  BY DEF FormulaOf, Formula, TokenStride
<1> QED
  BY <1>1, <1>2, <1>3

-----------------------------------------------------------------------------
(* The inductive invariant.                                                *)

Everything == UNION {ToSet(Of(i)) : i \in 1..Len(nig)}
EveryFormula == {FormulaOf(p[1], p[2]) : p \in (1..Len(nig)) \X KvKind}

(* The allocations are those of the nodes planned, each counted once in any sum. *)
ListInv ==
  /\ allocations \in Seq(Everything)
  /\ ToSet(allocations) = UNION {ToSet(Of(i)) : i \in Planned}
  /\ \A i \in Planned : \A S \in SUBSET ToSet(Of(i)) : Total(allocations, S) = Total(Of(i), S)

(* The formulas are of nodes, and what is referred to is registered and described. *)
StorageInv ==
  /\ formulas \in Seq(EveryFormula)
  /\ \A a \in ToSet(allocations) : a.binding # NoBinding => a.binding \in DOMAIN bindings
  /\ \A d \in addresses : d.binding \in DOMAIN bindings
  /\ \A id \in DOMAIN bindings : Describes(id, bindings[id])

(* A region's peak is the greatest of the loads of the nodes and buckets in J; load,
   ids and name are of a node and a bucket. *)
PeakOf(p, J, load, ids, name) ==
  /\ DOMAIN p = {"bytes", "bucket", "ids", "offenders"}
  /\ p.bytes \in Nat
  /\ p.bucket \in ToSet(Buckets) \cup {NoBucket}
  /\ \A j \in J : load[j] <= p.bytes
  /\ p.bytes > 0 =>
       /\ \E j \in J : load[j] = p.bytes /\ p.bucket = j[2] /\ p.ids = ids[j]
       /\ p.offenders = {name[j] : j \in {i \in J : load[i] = p.bytes}}
  /\ p.bytes = 0 => p.offenders = {} /\ p.ids = {}

Places == (1..Len(nig)) \X ToSet(Buckets)
LoadAt(r) == [p \in Places |-> Total(Of(p[1]), In(Of(p[1]), r, p[2]))]
IdsAt(r) == [p \in Places |-> {a.id : a \in In(Of(p[1]), r, p[2])}]
NameAt == [p \in Places |-> nig[p[1]].id]

PeakInv ==
  \A r \in Region :
    /\ PeakOf(peak[r], Planned \X ToSet(Buckets), LoadAt(r), IdsAt(r), NameAt)
    /\ bucketPeak[r] \in [ToSet(Buckets) -> Nat]
    /\ \A k \in ToSet(Buckets) :
         /\ \A i \in Planned : LoadAt(r)[<<i, k>>] <= bucketPeak[r][k]
         /\ bucketPeak[r][k] = 0 \/ \E i \in Planned : LoadAt(r)[<<i, k>>] = bucketPeak[r][k]

MemInv ==
  /\ Arguments
  /\ phase \in {"plan", "done", "refused"}
  /\ index \in 1..(Len(nig) + 1)
  /\ phase = "refused" => index <= Len(nig) /\ ~ nig[index].bound
  /\ ListInv /\ StorageInv /\ PeakInv

(* What the invariant is about does not change with the arguments. *)
LEMMA MeasuresStay ==
  ASSUME UNCHANGED <<nig, scenario, capacity>>
  PROVE  /\ Everything' = Everything /\ EveryFormula' = EveryFormula
         /\ Places' = Places /\ NameAt' = NameAt
         /\ \A r : LoadAt(r)' = LoadAt(r) /\ IdsAt(r)' = IdsAt(r)
<1>1. \A i : Of(i)' = Of(i)
  BY ArgumentsStay
<1>2. \A i, kind : FormulaOf(i, kind)' = FormulaOf(i, kind)
  BY ArgumentsStay
<1>3. Everything' = Everything
  BY <1>1 DEF Everything
<1>4. EveryFormula' = EveryFormula
  BY <1>2 DEF EveryFormula
<1>5. Places' = Places
  BY DEF Places
<1>6. NameAt' = NameAt
  BY <1>5 DEF NameAt
<1>7. ASSUME NEW r  PROVE LoadAt(r)' = LoadAt(r) /\ IdsAt(r)' = IdsAt(r)
  BY <1>1, <1>5 DEF LoadAt, IdsAt
<1> QED
  BY <1>3, <1>4, <1>5, <1>6, <1>7

(* The allocations of the nodes of the list. *)
LEMMA OfAre ==
  ASSUME Arguments
  PROVE  /\ \A i \in 1..Len(nig) : Of(i) \in Seq(ToSet(Of(i))) /\ Of(i) \in Seq(Everything)
         /\ \A i \in 1..Len(nig) : \A a \in ToSet(Of(i)) : IsAllocation(nig[i], a)
         /\ \A a \in Everything : a.size \in Nat
         /\ \A i, j \in 1..Len(nig) : i # j => ToSet(Of(i)) \cap ToSet(Of(j)) = {}
<1>1. ASSUME NEW i \in 1..Len(nig)
      PROVE  /\ Of(i) \in Seq(ToSet(Of(i)))
             /\ \A a \in ToSet(Of(i)) : IsAllocation(nig[i], a)
  <2>1. IsBoundNode(nig[i])
    BY ArgumentsAre
  <2> QED  BY <2>1, NodeAllocationsAre, NodeAllocationsOf DEF Of
<1>2. ASSUME NEW i \in 1..Len(nig)  PROVE Of(i) \in Seq(Everything)
  <2>1. ToSet(Of(i)) \subseteq Everything
    BY DEF Everything
  <2> QED  BY <1>1, <2>1
<1>3. ASSUME NEW a \in Everything  PROVE a.size \in Nat
  <2>1. PICK i \in 1..Len(nig) : a \in ToSet(Of(i))
    BY DEF Everything
  <2> QED  BY <2>1, <1>1 DEF IsAllocation
<1>4. ASSUME NEW i \in 1..Len(nig), NEW j \in 1..Len(nig), NEW a \in ToSet(Of(i)), a \in ToSet(Of(j))
      PROVE  i = j
  <2>1. a.node = nig[i].id /\ a.node = nig[j].id
    BY <1>1, <1>4 DEF IsAllocation
  <2> QED  BY <2>1, ArgumentsAre DEF IsNig
<1> QED
  BY <1>1, <1>2, <1>3, <1>4

(* Loads are natural numbers. *)
LEMMA LoadsAre ==
  ASSUME Arguments, NEW r
  PROVE  LoadAt(r) \in [Places -> Nat]
<1>1. ASSUME NEW p \in Places  PROVE Total(Of(p[1]), In(Of(p[1]), r, p[2])) \in Nat
  <2>1. p[1] \in 1..Len(nig)
    BY DEF Places
  <2> QED  BY <2>1, OfAre, TotalType
<1> QED
  BY <1>1 DEF LoadAt

(* The calculation of a peak, one bucket of one node at a time. *)
LEMMA RaisedIs ==
  ASSUME NEW old, NEW J, NEW load, NEW ids, NEW name, PeakOf(old, J, load, ids, name),
         NEW v, NEW r, NEW k \in ToSet(Buckets), NEW placed, NEW x,
         x[2] = k, v.id = name[x], Total(placed, In(placed, r, k)) = load[x], load[x] \in Nat,
         {a.id : a \in In(placed, r, k)} = ids[x], \A j \in J : load[j] \in Nat
  PROVE  PeakOf(Raised(old, v, r, k, placed), J \cup {x}, load, ids, name)
<1> DEFINE held == In(placed, r, k)
           new == Raised(old, v, r, k, placed)
           higher == [bytes |-> load[x], bucket |-> k, ids |-> ids[x], offenders |-> {name[x]}]
<1>1. new = CASE load[x] > old.bytes -> higher
              [] load[x] = old.bytes /\ load[x] > 0 -> [old EXCEPT !.offenders = @ \cup {v.id}]
              [] OTHER -> old
  BY DEF Raised, Higher
<1>2. old.bytes \in Nat
  BY DEF PeakOf
<1> SUFFICES PeakOf(new, J \cup {x}, load, ids, name)
  OBVIOUS
<1> HIDE DEF new
<1>3. CASE load[x] > old.bytes
  <2>1. new = higher
    BY <1>1, <1>2, <1>3
  <2>2. /\ DOMAIN new = {"bytes", "bucket", "ids", "offenders"}
        /\ new.bytes = load[x] /\ new.bucket = k /\ new.ids = ids[x] /\ new.offenders = {name[x]}
    BY <2>1
  <2>3. \A j \in J : load[j] < load[x]
    BY <1>2, <1>3 DEF PeakOf
  <2>4. {i \in J \cup {x} : load[i] = load[x]} = {x}
    BY <2>3
  <2>5. {name[j] : j \in {i \in J \cup {x} : load[i] = load[x]}} = {name[x]}
    BY <2>4
  <2>6. \A j \in J \cup {x} : load[j] <= load[x]
    BY <2>3
  <2>7. load[x] > 0
    BY <1>2, <1>3
  <2> QED  BY <2>2, <2>5, <2>6, <2>7 DEF PeakOf
<1>4. CASE load[x] = old.bytes /\ load[x] > 0
  <2>1. new = [old EXCEPT !.offenders = @ \cup {v.id}]
    BY <1>1, <1>2, <1>4
  <2>2. /\ DOMAIN new = {"bytes", "bucket", "ids", "offenders"}
        /\ new.bytes = old.bytes /\ new.bucket = old.bucket /\ new.ids = old.ids
        /\ new.offenders = old.offenders \cup {name[x]}
    BY <2>1 DEF PeakOf
  <2>3. old.offenders = {name[j] : j \in {i \in J : load[i] = old.bytes}}
    BY <1>4 DEF PeakOf
  <2>4. new.offenders = {name[j] : j \in {i \in J \cup {x} : load[i] = new.bytes}}
    BY <2>2, <2>3, <1>4
  <2>5. \E j \in J \cup {x} : load[j] = new.bytes /\ new.bucket = j[2] /\ new.ids = ids[j]
    BY <2>2, <1>4 DEF PeakOf
  <2>6. new.bytes \in Nat /\ new.bucket \in ToSet(Buckets) \cup {NoBucket} /\ new.bytes > 0
    BY <2>2, <1>4 DEF PeakOf
  <2>7. \A j \in J \cup {x} : load[j] <= new.bytes
    BY <2>2, <1>4 DEF PeakOf
  <2> QED  BY <2>2, <2>4, <2>5, <2>6, <2>7 DEF PeakOf
<1>5. CASE ~ (load[x] > old.bytes) /\ ~ (load[x] = old.bytes /\ load[x] > 0)
  <2>1. new = old
    BY <1>1, <1>5
  <2>2. load[x] <= old.bytes /\ (old.bytes > 0 => load[x] # old.bytes)
    BY <1>2, <1>5
  <2>3. old.bytes > 0 => {i \in J \cup {x} : load[i] = old.bytes} = {i \in J : load[i] = old.bytes}
    BY <2>2
  <2>4. /\ old.bytes > 0 =>
             /\ \E j \in J : load[j] = old.bytes /\ old.bucket = j[2] /\ old.ids = ids[j]
             /\ old.offenders = {name[j] : j \in {i \in J : load[i] = old.bytes}}
        /\ old.bytes = 0 => old.offenders = {} /\ old.ids = {}
        /\ \A j \in J : load[j] <= old.bytes
        /\ DOMAIN old = {"bytes", "bucket", "ids", "offenders"}
        /\ old.bucket \in ToSet(Buckets) \cup {NoBucket}
    BY DEF PeakOf
  <2>5. old.bytes > 0 => old.offenders = {name[j] : j \in {i \in J \cup {x} : load[i] = old.bytes}}
    BY <2>3, <2>4
  <2>6. \A j \in J \cup {x} : load[j] <= old.bytes
    BY <2>2, <2>4
  <2>7. PeakOf(old, J \cup {x}, load, ids, name)
    BY <1>2, <2>4, <2>5, <2>6 DEF PeakOf
  <2> QED  BY <2>1, <2>7
<1> QED
  BY <1>3, <1>4, <1>5

-----------------------------------------------------------------------------
(* Each action keeps the invariant.                                        *)

(* Planning a node keeps the list. *)
LEMMA ListStep ==
  ASSUME MemInv, PlanNode
  PROVE  ListInv'
<1> DEFINE more == Of(index)
<1>1. /\ index \in 1..Len(nig) /\ Len(nig) \in Nat /\ index' = index + 1
      /\ allocations' = allocations \o more
      /\ UNCHANGED <<nig, scenario, capacity>>
  BY ArgumentsAre DEF MemInv, PlanNode, Of
<1>2. /\ allocations \in Seq(Everything) /\ more \in Seq(Everything)
      /\ \A a \in Everything : a.size \in Nat
      /\ ToSet(allocations) = UNION {ToSet(Of(i)) : i \in Planned}
  BY <1>1, OfAre DEF MemInv, ListInv
<1>3. Planned' = Planned \cup {index} /\ Planned \subseteq 1..Len(nig) /\ index \notin Planned
  BY <1>1 DEF Planned
<1>4. Everything' = Everything /\ \A i : Of(i)' = Of(i)
  BY <1>1, MeasuresStay, ArgumentsStay
<1>5. ToSet(allocations \o more) = ToSet(allocations) \cup ToSet(more)
  <2> HIDE DEF more
  <2>1. \A s, t \in Seq(Everything) : ToSet(s \o t) = ToSet(s) \cup ToSet(t)
    <3> SUFFICES ASSUME NEW s \in Seq(Everything), NEW t \in Seq(Everything)
                 PROVE  ToSet(s \o t) = ToSet(s) \cup ToSet(t)
      OBVIOUS
    <3>1. ToSet(s) = {s[i] : i \in 1..Len(s)} /\ ToSet(t) = {t[i] : i \in 1..Len(t)}
      BY DEF ToSet
    <3>2. ToSet(s \o t) = {(s \o t)[i] : i \in 1..(Len(s) + Len(t))}
      BY DEF ToSet
    <3>3. \A i \in 1..Len(s) : i \in 1..(Len(s) + Len(t)) /\ (s \o t)[i] = s[i]
      OBVIOUS
    <3>4. \A i \in 1..Len(t) : Len(s) + i \in 1..(Len(s) + Len(t)) /\ (s \o t)[Len(s) + i] = t[i]
      OBVIOUS
    <3>5. \A i \in 1..(Len(s) + Len(t)) : i \in 1..Len(s) \/ i - Len(s) \in 1..Len(t)
      OBVIOUS
    <3>6. \A i \in 1..(Len(s) + Len(t)) : i - Len(s) \in 1..Len(t) => (s \o t)[i] = t[i - Len(s)]
      OBVIOUS
    <3> QED  BY <3>1, <3>2, <3>3, <3>4, <3>5, <3>6
  <2> QED  BY <2>1, <1>2
<1>6. ToSet(allocations') = UNION {ToSet(Of(i)') : i \in Planned'}
  BY <1>1, <1>2, <1>3, <1>4, <1>5
<1>7. allocations' \in Seq(Everything')
  BY <1>1, <1>2, <1>4
<1>8. ASSUME NEW i \in Planned', NEW S \in SUBSET ToSet(Of(i))
      PROVE  Total(allocations', S) = Total(Of(i), S)
  <2>1. Total(allocations', S) = Total(allocations, S) + Total(more, S)
    <3> HIDE DEF more
    <3> QED  BY <1>1, <1>2, TotalConcat
  <2>2. Total(allocations, S) \in Nat /\ Total(more, S) \in Nat
    <3> HIDE DEF more
    <3> QED  BY <1>2, TotalType
  <2>3. CASE i \in Planned
    <3>1. ToSet(Of(i)) \cap ToSet(more) = {}
      BY <1>1, <1>3, <2>3, OfAre DEF MemInv
    <3>2. \A n \in 1..Len(more) : more[n] \in ToSet(more)
      BY <1>2 DEF ToSet
    <3>3. Total(more, S) = 0
      <4>1. \A n \in 1..Len(more) : more[n] \notin S  BY <3>1, <3>2
      <4> HIDE DEF more
      <4> QED  BY <1>2, <4>1, TotalNone
    <3>4. Total(allocations, S) = Total(Of(i), S)
      BY <2>3 DEF MemInv, ListInv
    <3> QED  BY <2>1, <2>2, <3>3, <3>4
  <2>4. CASE i = index
    <3>1. \A n \in 1..Len(allocations) : allocations[n] \in ToSet(allocations)
      BY <1>2 DEF ToSet
    <3>2. ASSUME NEW n \in 1..Len(allocations)  PROVE allocations[n] \notin S
      <4>1. PICK j \in Planned : allocations[n] \in ToSet(Of(j))
        BY <3>1, <1>2
      <4>2. ToSet(Of(j)) \cap ToSet(Of(index)) = {}
        BY <1>1, <1>3, OfAre DEF MemInv
      <4> QED  BY <4>1, <4>2, <2>4
    <3>3. Total(allocations, S) = 0
      BY <1>2, <3>2, TotalNone
    <3> QED  BY <2>1, <2>2, <2>4, <3>3
  <2> QED  BY <1>3, <2>3, <2>4
<1> QED
  BY <1>4, <1>6, <1>7, <1>8 DEF ListInv

(* Planning a node registers all it refers to. *)
LEMMA StorageStep ==
  ASSUME MemInv, PlanNode
  PROVE  StorageInv'
<1> DEFINE v == nig[index]
           placed == NodeAllocations(v, index)
           entries == Entries(v, placed)
           kinds == KvKinds(v)
           more == NodeFormulas(v)
<1>1. /\ index \in 1..Len(nig) /\ IsBoundNode(v) /\ Arguments
      /\ allocations' = allocations \o placed
      /\ bindings' = Registered(bindings, entries)
      /\ formulas' = formulas \o more
      /\ addresses' = addresses \cup NodeAddresses(v, placed)
      /\ UNCHANGED <<nig, scenario, capacity>>
  BY ArgumentsAre DEF MemInv, PlanNode
<1>2. /\ placed \in Seq(ToSet(placed)) /\ \A a \in ToSet(placed) : IsAllocation(v, a)
  BY <1>1, NodeAllocationsAre, NodeAllocationsOf
<1>3. kinds \in Seq(KvKind) /\ DOMAIN kinds = 1..Len(kinds)
  BY KvKindsAre
<1>4. formulas \o more \in Seq(EveryFormula)
  <2>1. \A kind \in KvKind : Formula(v, kind) \in EveryFormula
    <3>1. \A kind : Formula(v, kind) = FormulaOf(index, kind)
      BY DEF FormulaOf
    <3>2. ASSUME NEW kind \in KvKind  PROVE FormulaOf(index, kind) \in EveryFormula
      <4>1. <<index, kind>> \in (1..Len(nig)) \X KvKind  BY <1>1
      <4> QED  BY <4>1 DEF EveryFormula
    <3> QED  BY <3>1, <3>2
  <2>2. more = [i \in 1..Len(kinds) |-> Formula(v, kinds[i])]
    BY <1>3 DEF NodeFormulas
  <2>3. more \in Seq(EveryFormula)
    <3>1. \A i \in 1..Len(kinds) : kinds[i] \in KvKind /\ Len(kinds) \in Nat
      BY <1>3
    <3>2. Len(kinds) \in Nat  BY <1>3
    <3> HIDE DEF kinds, v
    <3> QED  BY <2>1, <2>2, <3>1, <3>2
  <2>4. formulas \in Seq(EveryFormula)
    BY DEF MemInv, StorageInv
  <2> HIDE DEF more
  <2> QED  BY <2>3, <2>4
<1> HIDE DEF placed, kinds, more
<1>5. /\ DOMAIN entries \subseteq Nat \ {0}
      /\ \A i \in DOMAIN entries : EntryDescribes(entries[i])
      /\ \A a \in ToSet(placed) : \E i \in DOMAIN entries : entries[i].id = a.binding
      /\ \A kind \in ToSet(kinds) : \E i \in DOMAIN entries : entries[i].id = StorageId("kv", v, kind)
  BY <1>2, EntriesAre DEF kinds
<1> HIDE DEF entries
<1>6. \A id \in DOMAIN bindings : Describes(id, bindings[id])
  BY DEF MemInv, StorageInv
<1>7. /\ DOMAIN bindings \subseteq DOMAIN bindings'
      /\ \A i \in DOMAIN entries : entries[i].id # NoBinding => entries[i].id \in DOMAIN bindings'
      /\ \A id \in DOMAIN bindings' : Describes(id, bindings'[id])
  BY <1>1, <1>5, <1>6, RegisteredAre
<1>8. ASSUME NEW a \in ToSet(allocations'), a.binding # NoBinding  PROVE a.binding \in DOMAIN bindings'
  <2>1. a \in ToSet(allocations) \/ a \in ToSet(placed)
    <3>1. allocations \in Seq(Everything)
      BY DEF MemInv, ListInv
    <3>2. PICK n \in DOMAIN (allocations \o placed) : a = (allocations \o placed)[n]
      BY <1>1 DEF ToSet
    <3>3. n \in 1..(Len(allocations) + Len(placed)) /\ Len(allocations) \in Nat /\ Len(placed) \in Nat
      BY <1>2, <3>1, <3>2
    <3>4. CASE n <= Len(allocations)
      <4>1. n \in DOMAIN allocations /\ a = allocations[n]  BY <1>2, <3>1, <3>2, <3>3, <3>4
      <4> QED  BY <4>1 DEF ToSet
    <3>5. CASE n > Len(allocations)
      <4>1. n - Len(allocations) \in DOMAIN placed /\ a = placed[n - Len(allocations)]
        BY <1>2, <3>1, <3>2, <3>3, <3>5
      <4> QED  BY <4>1 DEF ToSet
    <3> QED  BY <3>3, <3>4, <3>5
  <2>2. CASE a \in ToSet(allocations)
    BY <2>2, <1>7, <1>8 DEF MemInv, StorageInv
  <2>3. CASE a \in ToSet(placed)
    BY <2>3, <1>5, <1>7, <1>8
  <2> QED  BY <2>1, <2>2, <2>3
<1>9. ASSUME NEW d \in addresses'  PROVE d.binding \in DOMAIN bindings'
  <2>1. CASE d \in addresses
    BY <2>1, <1>7 DEF MemInv, StorageInv
  <2>2. \A b, res : Address(v, b, res).binding = b
    BY DEF Address
  <2>3. CASE d \in NodeAddresses(v, placed)
    <3>1. \/ \E a \in ToSet(placed) : a.role \in {"weight", "quant_param"} /\ d.binding = a.binding
          \/ \E kind \in ToSet(kinds) : d.binding = StorageId("kv", v, kind)
      <4>1. \/ \E b \in {c \in ToSet(placed) : c.role \in {"weight", "quant_param"}} :
                 d = Address(v, b.binding, TRUE)
            \/ \E kind \in ToSet(kinds) : d = Address(v, StorageId("kv", v, kind), v.layer # NoLayer)
        BY <2>3 DEF NodeAddresses, kinds
      <4>2. CASE \E b \in {c \in ToSet(placed) : c.role \in {"weight", "quant_param"}} :
                   d = Address(v, b.binding, TRUE)
        <5>1. PICK b \in {c \in ToSet(placed) : c.role \in {"weight", "quant_param"}} :
                     d = Address(v, b.binding, TRUE)
          BY <4>2
        <5>2. d.binding = b.binding
          BY <5>1, <2>2
        <5>3. b \in ToSet(placed) /\ b.role \in {"weight", "quant_param"}
          BY <5>1
        <5> QED  BY <5>2, <5>3
      <4>3. CASE \E kind \in ToSet(kinds) : d = Address(v, StorageId("kv", v, kind), v.layer # NoLayer)
        <5>1. PICK kind \in ToSet(kinds) : d = Address(v, StorageId("kv", v, kind), v.layer # NoLayer)
          BY <4>3
        <5>2. d.binding = StorageId("kv", v, kind)
          BY <5>1, <2>2
        <5> QED  BY <5>2
      <4> QED  BY <4>1, <4>2, <4>3
    <3>2. CASE \E a \in ToSet(placed) : a.role \in {"weight", "quant_param"} /\ d.binding = a.binding
      <4>1. PICK a \in ToSet(placed) : a.role \in {"weight", "quant_param"} /\ d.binding = a.binding
        BY <3>2
      <4>2. NamesItsBinding(v, a)
        BY <1>2 DEF IsAllocation
      <4>3. a.binding # NoBinding
        <5> HIDE DEF v
        <5> QED  BY <4>1, <4>2, StorageIdIs DEF NamesItsBinding
      <4> QED  BY <4>1, <4>3, <1>5, <1>7
    <3>3. CASE \E kind \in ToSet(kinds) : d.binding = StorageId("kv", v, kind)
      BY <3>3, <1>5, <1>7, StorageIdIs
    <3> QED  BY <3>1, <3>2, <3>3
  <2> QED  BY <2>1, <2>3, <1>1
<1>10. EveryFormula' = EveryFormula
  BY <1>1, MeasuresStay
<1> QED
  BY <1>1, <1>4, <1>7, <1>8, <1>9, <1>10 DEF StorageInv
(* Planning a node keeps the peaks. *)
LEMMA PeakStep ==
  ASSUME MemInv, PlanNode
  PROVE  PeakInv'
<1> DEFINE v == nig[index]
           placed == NodeAllocations(v, index)
           B == ToSet(Buckets)
           J == Planned \X B
<1>1. /\ index \in 1..Len(nig) /\ Len(nig) \in Nat /\ Arguments /\ index' = index + 1
      /\ placed = Of(index)
      /\ peak' = [r \in Region |-> RaisedByNode(peak[r], v, r, placed)]
      /\ bucketPeak' = [r \in Region |-> [k \in B |->
                           Greater(bucketPeak[r][k], Total(placed, In(placed, r, k)))]]
      /\ UNCHANGED <<nig, scenario, capacity>>
  BY ArgumentsAre DEF MemInv, PlanNode, Of
<1>2. Planned' = Planned \cup {index} /\ Planned \subseteq 1..Len(nig)
  BY <1>1 DEF Planned
<1>3. B = {"preload", "compute", "store", "persist"}
  BY BucketsAre
<1> HIDE DEF placed, B
<1>4. ASSUME NEW k \in B, NEW r
      PROVE  /\ <<index, k>> \in Places /\ v.id = NameAt[<<index, k>>]
             /\ Total(placed, In(placed, r, k)) = LoadAt(r)[<<index, k>>]
             /\ {a.id : a \in In(placed, r, k)} = IdsAt(r)[<<index, k>>]
             /\ LoadAt(r)[<<index, k>>] \in Nat
  <2>1. <<index, k>> \in Places
    BY <1>1 DEF Places, B
  <2>2. v.id = NameAt[<<index, k>>]
    BY <2>1 DEF NameAt
  <2>3. LoadAt(r)[<<index, k>>] = Total(placed, In(placed, r, k))
    BY <1>1, <2>1 DEF LoadAt
  <2>4. IdsAt(r)[<<index, k>>] = {a.id : a \in In(placed, r, k)}
    BY <1>1, <2>1 DEF IdsAt
  <2>5. LoadAt(r)[<<index, k>>] \in Nat
    BY <1>1, <2>1, LoadsAre
  <2> QED  BY <2>1, <2>2, <2>3, <2>4, <2>5
<1>5. \A j \in J : j \in Places
  BY <1>2 DEF Places, B
<1>6. ASSUME NEW r \in Region
      PROVE  PeakOf(RaisedByNode(peak[r], v, r, placed), (Planned \cup {index}) \X B,
                    LoadAt(r), IdsAt(r), NameAt)
  <2> DEFINE x(k) == <<index, k>>
             P(p, K) == PeakOf(p, K, LoadAt(r), IdsAt(r), NameAt)
             one == Raised(peak[r], v, r, "preload", placed)
             two == Raised(one, v, r, "compute", placed)
             three == Raised(two, v, r, "store", placed)
             four == Raised(three, v, r, "persist", placed)
             J1 == J \cup {x("preload")}
             J2 == J1 \cup {x("compute")}
             J3 == J2 \cup {x("store")}
             J4 == J3 \cup {x("persist")}
  <2>1. RaisedByNode(peak[r], v, r, placed) = four
    BY DEF RaisedByNode, Buckets
  <2>2. (Planned \cup {index}) \X B = J4
    BY <1>3
  <2>3. P(peak[r], J)
    BY DEF MemInv, PeakInv, B
  <2>4. ASSUME NEW p, NEW K \in SUBSET Places, P(p, K), NEW k \in B
        PROVE  P(Raised(p, v, r, k, placed), K \cup {x(k)})
    <3>1. /\ Total(placed, In(placed, r, k)) = LoadAt(r)[x(k)]
          /\ {a.id : a \in In(placed, r, k)} = IdsAt(r)[x(k)]
          /\ v.id = NameAt[x(k)] /\ LoadAt(r)[x(k)] \in Nat
      BY <1>4
    <3>2. \A j \in K : LoadAt(r)[j] \in Nat
      BY <1>1, LoadsAre
    <3>3. k \in ToSet(Buckets) /\ x(k)[2] = k
      BY DEF B
    <3> DEFINE y == x(k)
    <3>4. P(Raised(p, v, r, k, placed), K \cup {y})
      <4>1. PeakOf(p, K, LoadAt(r), IdsAt(r), NameAt)
        BY <2>4
      <4>2. /\ y[2] = k /\ v.id = NameAt[y] /\ Total(placed, In(placed, r, k)) = LoadAt(r)[y]
            /\ LoadAt(r)[y] \in Nat /\ {a.id : a \in In(placed, r, k)} = IdsAt(r)[y]
        BY <3>1, <3>3
      <4> HIDE DEF y, v
      <4> QED  BY <4>1, <4>2, <3>2, <3>3, RaisedIs
    <3> QED  BY <3>4
  <2>5. J1 \in SUBSET Places /\ J2 \in SUBSET Places /\ J3 \in SUBSET Places
    BY <1>3, <1>4, <1>5
  <2> HIDE DEF P, x, J
  <2>6. P(one, J1)
    BY <2>3, <2>4, <1>3, <1>5
  <2>7. P(two, J2)
    <3> HIDE DEF one, J1
    <3> QED  BY <2>4, <2>5, <2>6, <1>3
  <2>8. P(three, J3)
    <3> HIDE DEF two, J2
    <3> QED  BY <2>4, <2>5, <2>7, <1>3
  <2>9. P(four, J4)
    <3> HIDE DEF three, J3
    <3> QED  BY <2>4, <2>5, <2>8, <1>3
  <2> HIDE DEF four, J4
  <2> QED  BY <2>1, <2>2, <2>9 DEF P
<1>7. ASSUME NEW r \in Region
      PROVE  /\ bucketPeak'[r] \in [B -> Nat]
             /\ \A k \in B :
                  /\ \A i \in Planned \cup {index} : LoadAt(r)[<<i, k>>] <= bucketPeak'[r][k]
                  /\ \/ bucketPeak'[r][k] = 0
                     \/ \E i \in Planned \cup {index} : LoadAt(r)[<<i, k>>] = bucketPeak'[r][k]
  <2> DEFINE new(k) == Greater(bucketPeak[r][k], LoadAt(r)[<<index, k>>])
  <2>1. bucketPeak'[r] = [k \in B |-> new(k)]
    BY <1>1, <1>4
  <2>2. /\ bucketPeak[r] \in [B -> Nat]
        /\ \A k \in B :
             /\ \A i \in Planned : LoadAt(r)[<<i, k>>] <= bucketPeak[r][k]
             /\ bucketPeak[r][k] = 0 \/ \E i \in Planned : LoadAt(r)[<<i, k>>] = bucketPeak[r][k]
    BY DEF MemInv, PeakInv, B
  <2>3. ASSUME NEW k \in B
        PROVE  /\ new(k) \in Nat
               /\ \A i \in Planned \cup {index} : LoadAt(r)[<<i, k>>] <= new(k)
               /\ new(k) = 0 \/ \E i \in Planned \cup {index} : LoadAt(r)[<<i, k>>] = new(k)
    <3> DEFINE was == bucketPeak[r][k]
               load == [i \in Planned \cup {index} |-> LoadAt(r)[<<i, k>>]]
    <3>1. was \in Nat /\ load[index] \in Nat
      BY <1>4, <2>2
    <3>2. \A i \in Planned : load[i] \in Nat
      BY <1>1, <1>5, LoadsAre
    <3>3. \A i \in Planned : load[i] <= was
      BY <2>2
    <3>4. was = 0 \/ \E i \in Planned : load[i] = was
      BY <2>2
    <3>5. new(k) = IF was < load[index] THEN load[index] ELSE was
      BY DEF Greater
    <3>6. \A i \in Planned \cup {index} : LoadAt(r)[<<i, k>>] = load[i]
      OBVIOUS
    <3> HIDE DEF was, load, new
    <3>7. new(k) \in Nat /\ \A i \in Planned \cup {index} : load[i] <= new(k)
      BY <3>1, <3>2, <3>3, <3>5
    <3>8. new(k) = 0 \/ \E i \in Planned \cup {index} : load[i] = new(k)
      BY <3>1, <3>4, <3>5
    <3> QED  BY <3>6, <3>7, <3>8
  <2> HIDE DEF new
  <2> QED  BY <2>1, <2>3
<1>8. /\ NameAt' = NameAt /\ B = ToSet(Buckets)
      /\ \A r : LoadAt(r)' = LoadAt(r) /\ IdsAt(r)' = IdsAt(r)
  BY <1>1, MeasuresStay DEF B
<1>9. ASSUME NEW r \in Region
      PROVE  PeakOf(peak'[r], Planned' \X B, LoadAt(r)', IdsAt(r)', NameAt')
  BY <1>1, <1>2, <1>6, <1>8
<1>10. ASSUME NEW r \in Region
       PROVE  /\ bucketPeak'[r] \in [B -> Nat]
              /\ \A k \in B :
                   /\ \A i \in Planned' : LoadAt(r)'[<<i, k>>] <= bucketPeak'[r][k]
                   /\ \/ bucketPeak'[r][k] = 0
                      \/ \E i \in Planned' : LoadAt(r)'[<<i, k>>] = bucketPeak'[r][k]
  BY <1>2, <1>7, <1>8
<1> QED
  BY <1>8, <1>9, <1>10 DEF PeakInv
(* What is planned stays as it is when only the phase changes. *)
LEMMA PartsStay ==
  ASSUME ListInv, StorageInv, PeakInv,
         UNCHANGED <<nig, scenario, capacity, index, allocations, bindings, formulas, addresses,
                     peak, bucketPeak>>
  PROVE  ListInv' /\ StorageInv' /\ PeakInv'
<1>1. /\ Everything' = Everything /\ EveryFormula' = EveryFormula
      /\ NameAt' = NameAt /\ Planned' = Planned
      /\ \A r : LoadAt(r)' = LoadAt(r) /\ IdsAt(r)' = IdsAt(r)
      /\ \A i : Of(i)' = Of(i)
  BY MeasuresStay, ArgumentsStay DEF Planned
<1>2. ListInv'
  BY <1>1 DEF ListInv
<1>3. StorageInv'
  BY <1>1 DEF StorageInv
<1>4. PeakInv'
  BY <1>1 DEF PeakInv
<1> QED
  BY <1>2, <1>3, <1>4

LEMMA InitInv ==
  ASSUME Init
  PROVE  MemInv
<1>1. Arguments /\ phase = "plan" /\ index = 1 /\ allocations = <<>> /\ formulas = <<>>
      /\ addresses = {} /\ bindings = <<>>
      /\ peak = [r \in Region |-> [bytes |-> 0, bucket |-> NoBucket, ids |-> {}, offenders |-> {}]]
      /\ bucketPeak = [r \in Region |-> [k \in ToSet(Buckets) |-> 0]]
  BY DEF Init, Arguments
<1>2. Len(nig) \in Nat
  BY <1>1, ArgumentsAre
<1>3. Planned = {}
  BY <1>1 DEF Planned
<1>4. ToSet(allocations) = {} /\ allocations \in Seq(Everything)
  BY <1>1 DEF ToSet
<1>5. ListInv
  BY <1>3, <1>4 DEF ListInv
<1>6. StorageInv
  BY <1>1, <1>4 DEF StorageInv
<1>7. PeakInv
  BY <1>1, <1>3 DEF PeakInv, PeakOf
<1> QED
  BY <1>1, <1>2, <1>5, <1>6, <1>7 DEF MemInv

LEMMA NextInv ==
  ASSUME MemInv, [Next]_vars
  PROVE  MemInv'
<1>1. CASE PlanNode
  <2>1. ListInv' /\ StorageInv' /\ PeakInv'
    BY <1>1, ListStep, StorageStep, PeakStep
  <2>2. /\ UNCHANGED <<nig, scenario, capacity, phase>> /\ phase = "plan"
        /\ index' = index + 1 /\ index <= Len(nig)
    BY <1>1 DEF PlanNode
  <2>3. Arguments' /\ phase' = "plan"
    BY <2>2 DEF MemInv, Arguments
  <2>4. index' \in 1..(Len(nig') + 1)
    <3>1. Len(nig) \in Nat  BY ArgumentsAre DEF MemInv
    <3> QED  BY <2>2, <3>1 DEF MemInv
  <2> QED  BY <2>1, <2>3, <2>4 DEF MemInv
<1>2. CASE Refuse
  <2>1. /\ UNCHANGED <<nig, scenario, capacity, index, allocations, bindings, formulas, addresses,
                       peak, bucketPeak>>
        /\ phase' = "refused" /\ index <= Len(nig) /\ ~ nig[index].bound
    BY <1>2 DEF Refuse
  <2>2. ListInv' /\ StorageInv' /\ PeakInv'
    BY <2>1, PartsStay DEF MemInv
  <2> QED  BY <2>1, <2>2 DEF MemInv, Arguments
<1>3. CASE Conclude
  <2>1. ReferencesKnown
    BY DEF MemInv, StorageInv, ReferencesKnown
  <2>2. /\ UNCHANGED <<nig, scenario, capacity, index, allocations, bindings, formulas, addresses,
                       peak, bucketPeak>>
        /\ phase' = "done"
    BY <1>3, <2>1 DEF Conclude
  <2>3. ListInv' /\ StorageInv' /\ PeakInv'
    BY <2>2, PartsStay DEF MemInv
  <2> QED  BY <2>2, <2>3 DEF MemInv, Arguments
<1>4. CASE UNCHANGED vars
  <2>1. ListInv' /\ StorageInv' /\ PeakInv'
    BY <1>4, PartsStay DEF MemInv, vars
  <2> QED  BY <1>4, <2>1 DEF MemInv, Arguments, vars
<1> QED
  BY <1>1, <1>2, <1>3, <1>4 DEF Next

LEMMA Invariance == Spec => []MemInv
<1>1. Init => MemInv
  BY InitInv
<1>2. MemInv /\ [Next]_vars => MemInv'
  BY NextInv
<1> QED
  BY <1>1, <1>2, PTL DEF Spec

-----------------------------------------------------------------------------
(* What the invariant says of the plan.                                    *)

(* The allocations listed are those of the nodes planned. *)
LEMMA AllocationsAre ==
  ASSUME MemInv, NEW a \in ToSet(allocations)
  PROVE  \E i \in Planned : a \in ToSet(Of(i)) /\ IsAllocation(nig[i], a)
<1>1. Planned \subseteq 1..Len(nig) /\ Arguments
  BY ArgumentsAre DEF MemInv, Planned
<1>2. PICK i \in Planned : a \in ToSet(Of(i))
  BY DEF MemInv, ListInv
<1>3. IsAllocation(nig[i], a)
  BY <1>1, <1>2, OfAre
<1> QED
  BY <1>2, <1>3

LEMMA TypesHold ==
  ASSUME MemInv
  PROVE  TypeOK
<1>1. /\ nig \in Nigs /\ scenario \in Scenarios /\ capacity \in Profiles
      /\ phase \in {"plan", "done", "refused"} /\ index \in 1..(Len(nig) + 1)
  BY DEF MemInv, Arguments
<1>2. ASSUME NEW i \in Planned
      PROVE  TileShape(nig[i], i) \in [m : Nat \ {0}, n : Nat \ {0}, k : Nat \ {0}]
  <2>1. i \in 1..Len(nig) /\ Arguments
    BY ArgumentsAre DEF MemInv, Planned
  <2>2. IsBoundNode(nig[i])
    BY <2>1, ArgumentsAre
  <2> QED  BY <2>1, <2>2, TilePositive DEF Tile
<1>3. ASSUME NEW a \in ToSet(allocations)
      PROVE  /\ a.size \in Nat \ {0} /\ a.region \in Region \cup {"no region"}
             /\ a.bucket \in ToSet(Buckets) /\ a.class \in MemoryClass
  BY AllocationsAre DEF IsAllocation
<1>4. ASSUME NEW r \in Region
      PROVE  /\ peak[r].bytes \in Nat
             /\ peak[r].bucket \in ToSet(Buckets) \cup {NoBucket}
             /\ bucketPeak[r] \in [ToSet(Buckets) -> Nat]
  BY DEF MemInv, PeakInv, PeakOf
<1> QED
  BY <1>1, <1>2, <1>3, <1>4 DEF TypeOK

LEMMA BindingsHold ==
  ASSUME MemInv
  PROVE  BindingsDescribe
<1>1. ASSUME NEW a \in ToSet(allocations), a.binding # NoBinding
      PROVE  /\ a.binding \in DOMAIN bindings
             /\ bindings[a.binding].role = a.role
             /\ a.role = "kv_cache" => a.binding[3] = bindings[a.binding].kind
             /\ a.role # "kv_cache" => Sanitize[a.tensor] = Sanitize[bindings[a.binding].tensor]
  <2> DEFINE id == a.binding
             d == bindings[id]
  <2>1. PICK i \in Planned : IsAllocation(nig[i], a)
    BY AllocationsAre
  <2>2. NamesItsBinding(nig[i], a)
    BY <2>1 DEF IsAllocation
  <2>3. id \in DOMAIN bindings /\ Describes(id, d)
    BY <1>1 DEF MemInv, StorageInv
  <2> HIDE DEF d
  <2>4. CASE a.role = "kv_cache" /\ id = StorageId("kv", nig[i], TensorKind(nig[i], a.tensor))
    <3>1. id[1] = "kv"  BY <2>4, StorageIdIs
    <3>2. d.role = "kv_cache" /\ d.kind = id[3]  BY <2>3, <3>1 DEF Describes
    <3> QED  BY <2>3, <2>4, <3>2 DEF d
  <2>5. CASE a.role = "weight" /\ id = StorageId("weight", nig[i], Sanitize[a.tensor])
    <3>1. id[1] = "weight" /\ id[3] = Sanitize[a.tensor]  BY <2>5, StorageIdIs
    <3>2. d.role = "weight" /\ Sanitize[d.tensor] = id[3]  BY <2>3, <3>1 DEF Describes
    <3> QED  BY <2>3, <2>5, <3>1, <3>2 DEF d
  <2>6. CASE a.role = "quant_param" /\ id = StorageId("quant", nig[i], Sanitize[a.tensor])
    <3>1. id[1] = "quant" /\ id[3] = Sanitize[a.tensor]  BY <2>6, StorageIdIs
    <3>2. d.role = "quant_param" /\ Sanitize[d.tensor] = id[3]  BY <2>3, <3>1 DEF Describes
    <3> QED  BY <2>3, <2>6, <3>1, <3>2 DEF d
  <2> QED  BY <1>1, <2>2, <2>4, <2>5, <2>6 DEF NamesItsBinding
<1>2. \A d \in addresses : d.binding \in DOMAIN bindings
  BY DEF MemInv, StorageInv
<1>3. phase = "refused" => index <= Len(nig) /\ ~ nig[index].bound
  BY DEF MemInv
<1> QED
  BY <1>1, <1>2, <1>3 DEF BindingsDescribe
(* Node ids tell the nodes apart, so what is held of a region is what the node's own
   allocations are. *)
LEMMA HeldAre ==
  ASSUME MemInv, NEW i \in Planned, NEW r, NEW k \in ToSet(Buckets)
  PROVE  /\ Held(i, r, k) = In(Of(i), r, k)
         /\ Load(i, r, k) = Total(Of(i), In(Of(i), r, k))
         /\ <<i, k>> \in Places
         /\ Load(i, r, k) = LoadAt(r)[<<i, k>>] /\ Load(i, r, k) \in Nat
         /\ {a.id : a \in Held(i, r, k)} = IdsAt(r)[<<i, k>>]
         /\ nig[i].id = NameAt[<<i, k>>]
<1>1. Planned \subseteq 1..Len(nig) /\ Arguments /\ IsNig(nig) /\ DOMAIN nig = 1..Len(nig)
  BY ArgumentsAre DEF MemInv, Planned
<1>2. ASSUME NEW a \in ToSet(allocations), a.node = nig[i].id  PROVE a \in ToSet(Of(i))
  <2>1. PICK j \in Planned : a \in ToSet(Of(j)) /\ IsAllocation(nig[j], a)
    BY AllocationsAre
  <2>2. nig[j].id = nig[i].id
    BY <2>1, <1>2 DEF IsAllocation
  <2>3. j = i
    BY <2>2, <1>1 DEF IsNig
  <2> QED  BY <2>1, <2>3
<1>3. ASSUME NEW a \in ToSet(Of(i))  PROVE a \in ToSet(allocations) /\ a.node = nig[i].id
  <2>1. a \in ToSet(allocations)
    BY DEF MemInv, ListInv
  <2>2. IsAllocation(nig[i], a)
    BY <1>1, OfAre
  <2> QED  BY <2>1, <2>2 DEF IsAllocation
<1>4. Held(i, r, k) = In(Of(i), r, k)
  BY <1>2, <1>3 DEF Held, In
<1>5. Load(i, r, k) = Total(Of(i), In(Of(i), r, k))
  <2>1. In(Of(i), r, k) \in SUBSET ToSet(Of(i))
    BY DEF In
  <2>2. Total(allocations, In(Of(i), r, k)) = Total(Of(i), In(Of(i), r, k))
    BY <2>1 DEF MemInv, ListInv
  <2> QED  BY <2>2, <1>4 DEF Load
<1>6. <<i, k>> \in Places
  BY <1>1 DEF Places
<1>7. Load(i, r, k) = LoadAt(r)[<<i, k>>]
  BY <1>5, <1>6 DEF LoadAt
<1>8. Load(i, r, k) \in Nat
  BY <1>1, <1>6, <1>7, LoadsAre
<1>9. {a.id : a \in Held(i, r, k)} = IdsAt(r)[<<i, k>>]
  BY <1>4, <1>6 DEF IdsAt
<1>10. nig[i].id = NameAt[<<i, k>>]
  BY <1>6 DEF NameAt
<1> QED
  BY <1>4, <1>5, <1>6, <1>7, <1>8, <1>9, <1>10

LEMMA MaxIs ==
  ASSUME NEW S, S \subseteq Nat, NEW m \in S, \A n \in S : n <= m
  PROVE  Max(S) = m
<1>1. \A x \in S : (\A y \in S : x >= y) => x = m
  OBVIOUS
<1>2. \A y \in S : m >= y
  OBVIOUS
<1> QED
  BY <1>1, <1>2 DEF Max

LEMMA PeaksHold ==
  ASSUME MemInv
  PROVE  PeaksExact
<1> DEFINE B == ToSet(Buckets)
<1>1. B = {"preload", "compute", "store", "persist"}
  BY BucketsAre
<1> HIDE DEF B
<1> SUFFICES ASSUME NEW r \in Region
             PROVE  /\ \A k \in B : bucketPeak[r][k] = Max({Load(i, r, k) : i \in Planned} \cup {0})
                    /\ peak[r].bytes = Max({bucketPeak[r][k] : k \in B})
                    /\ peak[r].bytes > 0 =>
                         /\ \E i \in Planned :
                              /\ Load(i, r, peak[r].bucket) = peak[r].bytes
                              /\ peak[r].ids = {a.id : a \in Held(i, r, peak[r].bucket)}
                         /\ peak[r].offenders =
                              {nig[i].id : i \in {n \in Planned : \E k \in B : Load(n, r, k) = peak[r].bytes}}
                    /\ peak[r].bytes = 0 => peak[r].offenders = {} /\ peak[r].ids = {}
  BY DEF PeaksExact, B
<1> DEFINE load == LoadAt(r)
           most == peak[r].bytes
           J == Planned \X B
<1>2. /\ most \in Nat
      /\ \A j \in J : load[j] <= most
      /\ most > 0 =>
           /\ \E j \in J : load[j] = most /\ peak[r].bucket = j[2] /\ peak[r].ids = IdsAt(r)[j]
           /\ peak[r].offenders = {NameAt[j] : j \in {i \in J : load[i] = most}}
      /\ most = 0 => peak[r].offenders = {} /\ peak[r].ids = {}
  BY DEF MemInv, PeakInv, PeakOf, B
<1>3. /\ bucketPeak[r] \in [B -> Nat]
      /\ \A k \in B :
           /\ \A i \in Planned : load[<<i, k>>] <= bucketPeak[r][k]
           /\ bucketPeak[r][k] = 0 \/ \E i \in Planned : load[<<i, k>>] = bucketPeak[r][k]
  BY DEF MemInv, PeakInv, B
<1>4. ASSUME NEW i \in Planned, NEW k \in B
      PROVE  /\ <<i, k>> \in J
             /\ Load(i, r, k) = load[<<i, k>>] /\ Load(i, r, k) \in Nat
             /\ {a.id : a \in Held(i, r, k)} = IdsAt(r)[<<i, k>>]
             /\ nig[i].id = NameAt[<<i, k>>]
  BY HeldAre DEF B
<1> HIDE DEF load, most
<1>5. ASSUME NEW k \in B
      PROVE  bucketPeak[r][k] = Max({Load(i, r, k) : i \in Planned} \cup {0})
  <2> DEFINE S == {Load(i, r, k) : i \in Planned} \cup {0}
             m == bucketPeak[r][k]
  <2>1. S \subseteq Nat
    <3>1. \A i \in Planned : Load(i, r, k) \in Nat  BY <1>4
    <3> QED  BY <3>1
  <2>2. m \in S /\ \A n \in S : n <= m
    <3>1. m \in Nat  BY <1>3
    <3>2. \A i \in Planned : Load(i, r, k) <= m  BY <1>3, <1>4
    <3>3. m = 0 \/ \E i \in Planned : Load(i, r, k) = m  BY <1>3, <1>4
    <3> QED  BY <3>1, <3>2, <3>3
  <2> HIDE DEF S, m
  <2>3. Max(S) = m
    BY <2>1, <2>2, MaxIs
  <2> QED  BY <2>3 DEF S, m
<1>6. most = Max({bucketPeak[r][k] : k \in B})
  <2> DEFINE S == {bucketPeak[r][k] : k \in B}
  <2>1. S \subseteq Nat
    BY <1>3
  <2>2. ASSUME NEW k \in B  PROVE bucketPeak[r][k] <= most /\ bucketPeak[r][k] \in Nat
    <3>1. bucketPeak[r][k] \in Nat  BY <1>3
    <3>2. bucketPeak[r][k] = 0 \/ \E i \in Planned : load[<<i, k>>] = bucketPeak[r][k]  BY <1>3
    <3>3. CASE \E i \in Planned : load[<<i, k>>] = bucketPeak[r][k]
      <4>1. PICK i \in Planned : load[<<i, k>>] = bucketPeak[r][k]  BY <3>3
      <4>2. load[<<i, k>>] <= most  BY <1>2, <1>4
      <4> QED  BY <3>1, <4>1, <4>2
    <3>4. CASE bucketPeak[r][k] = 0
      BY <3>4, <1>2
    <3> QED  BY <3>2, <3>3, <3>4
  <2>3. \E k \in B : bucketPeak[r][k] = most
    <3>1. CASE most > 0
      <4>1. PICK j \in J : load[j] = most  BY <1>2, <3>1
      <4>2. PICK i \in Planned, k \in B : j = <<i, k>>  OBVIOUS
      <4>3. most <= bucketPeak[r][k] /\ bucketPeak[r][k] <= most /\ bucketPeak[r][k] \in Nat
        BY <4>1, <4>2, <1>3, <2>2
      <4>4. bucketPeak[r][k] = most  BY <4>3, <1>2
      <4> QED  BY <4>4
    <3>2. CASE most = 0
      <4>1. "preload" \in B  BY <1>1
      <4>2. bucketPeak[r]["preload"] <= 0 /\ bucketPeak[r]["preload"] \in Nat  BY <4>1, <3>2, <2>2
      <4>3. bucketPeak[r]["preload"] = most  BY <4>2, <3>2
      <4> QED  BY <4>1, <4>3
    <3> QED  BY <3>1, <3>2, <1>2
  <2>4. most \in S /\ \A n \in S : n <= most
    BY <2>2, <2>3
  <2> HIDE DEF S
  <2>5. Max(S) = most
    BY <2>1, <2>4, MaxIs
  <2> QED  BY <2>5 DEF S
<1>7. ASSUME most > 0
      PROVE  \E i \in Planned : /\ Load(i, r, peak[r].bucket) = most
                                /\ peak[r].ids = {a.id : a \in Held(i, r, peak[r].bucket)}
  <2>1. PICK j \in J : load[j] = most /\ peak[r].bucket = j[2] /\ peak[r].ids = IdsAt(r)[j]
    BY <1>2, <1>7
  <2>2. PICK i \in Planned, k \in B : j = <<i, k>>
    OBVIOUS
  <2>3. peak[r].bucket = k
    BY <2>1, <2>2
  <2>4. Load(i, r, k) = most /\ peak[r].ids = {a.id : a \in Held(i, r, k)}
    BY <2>1, <2>2, <1>4
  <2> QED  BY <2>3, <2>4
<1>8. ASSUME most > 0
      PROVE  peak[r].offenders =
               {nig[i].id : i \in {n \in Planned : \E k \in B : Load(n, r, k) = most}}
  <2> DEFINE L == {NameAt[j] : j \in {i \in J : load[i] = most}}
             R == {nig[i].id : i \in {n \in Planned : \E k \in B : Load(n, r, k) = most}}
  <2>1. ASSUME NEW x \in L  PROVE x \in R
    <3>1. PICK j \in J : load[j] = most /\ x = NameAt[j]  OBVIOUS
    <3>2. PICK i \in Planned, k \in B : j = <<i, k>>  OBVIOUS
    <3>3. x = nig[i].id /\ Load(i, r, k) = most  BY <3>1, <3>2, <1>4
    <3> QED  BY <3>3
  <2>2. ASSUME NEW x \in R  PROVE x \in L
    <3>1. PICK i \in Planned : x = nig[i].id /\ \E k \in B : Load(i, r, k) = most  OBVIOUS
    <3>2. PICK k \in B : Load(i, r, k) = most  BY <3>1
    <3>3. <<i, k>> \in J /\ load[<<i, k>>] = most /\ x = NameAt[<<i, k>>]
      BY <3>1, <3>2, <1>4
    <3> QED  BY <3>3
  <2>3. peak[r].offenders = L
    BY <1>2, <1>8
  <2> QED  BY <2>1, <2>2, <2>3
<1> QED
  BY <1>2, <1>5, <1>6, <1>7, <1>8 DEF most
(* A tile of more than one row, cut to a region, fits it. *)
LEMMA TileFits ==
  ASSUME Arguments, NEW region, NEW m \in Nat, NEW width \in Nat \ {0}, NEW h \in Nat \ {0},
         1 < m, m <= MaxFitRows(region, width * h)
  PROVE  /\ region \in DOMAIN capacity /\ capacity[region] \in Nat
         /\ Bytes(m * width, h) <= capacity[region]
<1> DEFINE row == width * h
           n == m * width
<1>1. row \in Nat \ {0} /\ n \in Nat /\ n * h = m * row
  OBVIOUS
<1> HIDE DEF row
<1>2. /\ region \in DOMAIN capacity /\ capacity[region] \in Nat
      /\ m * row <= 2 * capacity[region]
  BY <1>1, RowsFit DEF row
<1>3. capacity[region] >= 1
  BY <1>2, ArgumentsAre
<1>4. n * h <= 2 * capacity[region]
  BY <1>1, <1>2
<1> HIDE DEF n
<1>5. Bytes(n, h) <= capacity[region]
  BY <1>1, <1>2, <1>3, <1>4, BytesFit
<1> QED
  BY <1>2, <1>5 DEF n

(* Of a matrix product only the first input is an activation. *)
LEMMA GemmInputs ==
  ASSUME NEW v, IsBoundNode(v), v.macro \in GemmLikeMacros,
         NEW k \in 1..Len(v.inputs), InputClass(v, v.inputs[k]) = "ACTIVATION"
  PROVE  k = 1
<1> DEFINE t == v.inputs[k]
           p == LastPlace(v, t)
<1>1. v.inputs \in Seq(Tensor) /\ t \in ToSet(v.inputs)
  BY DEF IsBoundNode, ToSet
<1>2. p \in 1..Len(v.inputs) /\ k <= p
  BY <1>1, LastPlaceIs
<1>3. ClassAt(v, p) = "ACTIVATION"
  BY DEF InputClass, LastPlace
<1> HIDE DEF p
<1>4. p = 1
  <2>1. CASE v.macro = "GEMM"
    BY <1>3, <2>1 DEF ClassAt, SdpaMacros
  <2>2. CASE v.macro = "WDQ_GEMM"
    <3>1. (IF p > 3 THEN 3 ELSE p) \in {1, 2, 3}  BY <1>2
    <3>2. ClassAt(v, p) = <<"ACTIVATION", "WEIGHT", "QUANT_PARAM">>[IF p > 3 THEN 3 ELSE p]
      BY <2>2 DEF ClassAt, SdpaMacros
    <3>3. (IF p > 3 THEN 3 ELSE p) = 1  BY <1>3, <3>1, <3>2
    <3> QED  BY <3>3, <1>2
  <2>3. CASE v.macro = "RMSNORM_GEMM"
    <3>1. (IF p > 4 THEN 4 ELSE p) \in {1, 2, 3, 4}  BY <1>2
    <3>2. ClassAt(v, p) = <<"ACTIVATION", "WEIGHT", "WEIGHT", "QUANT_PARAM">>[IF p > 4 THEN 4 ELSE p]
      BY <2>3 DEF ClassAt, SdpaMacros
    <3>3. (IF p > 4 THEN 4 ELSE p) = 1  BY <1>3, <3>1, <3>2
    <3> QED  BY <3>3, <1>2
  <2> QED  BY <2>1, <2>2, <2>3 DEF GemmLikeMacros
<1> QED
  BY <1>2, <1>4

(* Only the place p of the allocations holds something of a region, and no more than
   that. *)
OnlyAt(i, r, k, p, most) ==
  \A n \in 1..Len(Of(i)) :
    Of(i)[n].region = r /\ Of(i)[n].bucket = k => n = p /\ Of(i)[n].size <= most

(* Then so does the node. *)
LEMMA LoadFits ==
  ASSUME MemInv, NEW i \in Planned, NEW r, NEW k \in ToSet(Buckets),
         NEW p \in Nat, NEW most \in Nat, OnlyAt(i, r, k, p, most)
  PROVE  Load(i, r, k) <= most
<1> DEFINE placed == Of(i)
           which == In(placed, r, k)
<1>1. i \in 1..Len(nig) /\ Arguments
  BY ArgumentsAre DEF MemInv, Planned
<1>2. placed \in Seq(Everything) /\ \A a \in Everything : a.size \in Nat
  BY <1>1, OfAre
<1>3. \A n \in 1..Len(placed) : placed[n] \in which => n = p
  BY DEF In, OnlyAt
<1>4. ASSUME NEW a \in which  PROVE a.size <= most
  <2>1. a \in ToSet(placed) /\ a.region = r /\ a.bucket = k
    BY DEF In
  <2>2. PICK n \in 1..Len(placed) : a = placed[n]
    BY <1>2, <2>1 DEF ToSet
  <2> QED  BY <2>1, <2>2 DEF OnlyAt
<1>5. Load(i, r, k) = Total(placed, which)
  BY HeldAre
<1> HIDE DEF placed, which
<1>6. Total(placed, which) <= most
  BY <1>2, <1>3, <1>4, TotalAtMostOne
<1> QED
  BY <1>5, <1>6

(* What stands where in the allocations of a node planned. *)
LEMMA PlacedAre ==
  ASSUME MemInv, NEW i \in Planned
  PROVE  /\ Arguments /\ IsBoundNode(nig[i])
         /\ Of(i) \in Seq(ToSet(Of(i)))
         /\ \A n \in 1..Len(Of(i)) : StandsAt(nig[i], i, n, Of(i)[n])
         /\ Len(nig[i].inputs) \in Nat /\ Len(nig[i].outputs) \in Nat
         /\ TileShape(nig[i], i) \in Tile
<1>1. i \in 1..Len(nig) /\ Arguments
  BY ArgumentsAre DEF MemInv, Planned
<1>2. IsBoundNode(nig[i])
  BY <1>1, ArgumentsAre
<1>3. Len(nig[i].inputs) \in Nat /\ Len(nig[i].outputs) \in Nat
  BY <1>2 DEF IsBoundNode
<1>4. /\ Of(i) \in Seq(ToSet(Of(i)))
      /\ \A n \in 1..Len(Of(i)) : StandsAt(nig[i], i, n, Of(i)[n])
  BY <1>1, <1>2, NodeAllocationsAre DEF Of
<1> QED
  BY <1>1, <1>2, <1>3, <1>4, TilePositive

(* A matrix product and a table lookup put out one tensor, of a tile. *)
LEMMA StoreFits ==
  ASSUME MemInv, NEW i \in Planned,
         nig[i].macro \in GemmLikeMacros \cup {"EMBEDDING_LOOKUP"},
         TileShape(nig[i], i).m > 1,
         TileShape(nig[i], i).m <=
           MaxFitRows(OutRegion(i), TileShape(nig[i], i).n * nig[i].activations)
  PROVE  OutRegion(i) \in DOMAIN capacity /\ Load(i, OutRegion(i), "store") <= capacity[OutRegion(i)]
<1> DEFINE v == nig[i]
           tile == TileShape(v, i)
           r == OutRegion(i)
           p == Len(v.inputs) + 1
<1>1. /\ Arguments /\ IsBoundNode(v) /\ tile \in Tile /\ p \in Nat
      /\ Len(v.inputs) \in Nat /\ Len(v.outputs) \in Nat
      /\ \A n \in 1..Len(Of(i)) : StandsAt(v, i, n, Of(i)[n])
  BY PlacedAre
<1>2. tile.m \in Nat /\ tile.n \in Nat \ {0} /\ v.activations \in Nat \ {0}
  BY <1>1, MeasuresPositive DEF Tile
<1>3. /\ r \in DOMAIN capacity /\ capacity[r] \in Nat
      /\ Bytes(tile.m * tile.n, v.activations) <= capacity[r]
  <2> HIDE DEF tile, r, v
  <2> QED  BY <1>1, <1>2, TileFits DEF tile, r, v
<1>4. Len(v.outputs) <= 1
  <2>1. i \in DOMAIN nig  BY ArgumentsAre DEF MemInv, Planned
  <2>2. IsNig(nig)  BY <1>1, ArgumentsAre
  <2> QED  BY <2>1, <2>2 DEF IsNig
<1>5. OutputBytes(v, tile) = Bytes(tile.m * tile.n, v.activations)
  BY DEF OutputBytes, GemmLikeMacros, TiledInput, StreamingMacros, SdpaMacros
<1>6. r \in {"ping", "pong"} /\ "store" \in ToSet(Buckets)
  BY RegionsAre, BucketsAre
<1>7. ASSUME NEW n \in 1..Len(Of(i)), Of(i)[n].region = r, Of(i)[n].bucket = "store"
      PROVE  n = p /\ Of(i)[n].size <= capacity[r]
  <2> DEFINE a == Of(i)[n]
  <2>1. \/ n <= Len(v.inputs) /\ IsInput(v, v.inputs[n], tile, a)
        \/ /\ n > Len(v.inputs) /\ n - Len(v.inputs) <= Len(v.outputs)
           /\ IsOutput(v, v.outputs[n - Len(v.inputs)], tile, a)
        \/ IsTemp(v, n - (Len(v.inputs) + Len(v.outputs)), tile, a)
    BY <1>1 DEF StandsAt
  <2>2. a.bucket = "store" /\ a.region \in {"ping", "pong"}
    BY <1>6, <1>7
  <2> HIDE DEF a, tile, v, p
  <2>3. /\ n > Len(v.inputs) /\ n - Len(v.inputs) <= Len(v.outputs)
        /\ a.size = OutputBytes(v, tile)
    BY <2>1, <2>2 DEF IsInput, IsOutput, IsTemp
  <2>4. n = p
    <3> DEFINE I == Len(v.inputs)
               O == Len(v.outputs)
    <3>1. I \in Nat /\ O \in Nat /\ O <= 1
      BY <1>1, <1>4 DEF v
    <3>3. n \in Int /\ n > I /\ n - I <= O
      BY <2>3
    <3>2. p = I + 1
      BY DEF p
    <3> HIDE DEF I, O
    <3> QED  BY <3>1, <3>2, <3>3
  <2> QED  BY <2>3, <2>4, <1>3, <1>5 DEF a, tile, v
<1> DEFINE most == capacity[r]
<1>8. OnlyAt(i, r, "store", p, most)
  BY <1>7 DEF OnlyAt
<1>9. p \in Nat /\ most \in Nat
  BY <1>1, <1>3
<1> HIDE DEF p, r, most
<1>10. Load(i, r, "store") <= most
  BY <1>6, <1>8, <1>9, LoadFits
<1> QED
  BY <1>3, <1>10 DEF r, most

(* A matrix product stages one activation and has one accumulator. *)
LEMMA GemmFits ==
  ASSUME MemInv, NEW i \in Planned, nig[i].macro \in GemmLikeMacros, TileShape(nig[i], i).m > 1
  PROVE  /\ /\ InRegion(i) \in DOMAIN capacity
            /\ Load(i, InRegion(i), "preload") <= capacity[InRegion(i)]
         /\ "accum" \in DOMAIN capacity /\ Load(i, "accum", "compute") <= capacity["accum"]
         /\ /\ OutRegion(i) \in DOMAIN capacity
            /\ Load(i, OutRegion(i), "store") <= capacity[OutRegion(i)]
<1> DEFINE v == nig[i]
           tile == TileShape(v, i)
           r == InRegion(i)
<1>1. /\ Arguments /\ IsBoundNode(v) /\ tile \in Tile
      /\ Of(i) \in Seq(ToSet(Of(i)))
      /\ Len(v.inputs) \in Nat /\ Len(v.outputs) \in Nat
      /\ \A n \in 1..Len(Of(i)) : StandsAt(v, i, n, Of(i)[n])
  BY PlacedAre
<1>2. /\ tile.m \in Nat /\ tile.n \in Nat \ {0} /\ tile.k \in Nat \ {0}
      /\ v.activations \in Nat \ {0}
  BY <1>1, MeasuresPositive DEF Tile
<1>3. /\ tile.m <= MaxFitRows("accum", tile.n * 8)
      /\ tile.m <= MaxFitRows(InRegion(i), tile.k * v.activations)
      /\ tile.m <= MaxFitRows(OutRegion(i), tile.n * v.activations)
  <2>1. tile = GemmTile(v, i)
    BY DEF TileShape, GemmLikeMacros, StreamingMacros, SdpaMacros
  <2> QED  BY <1>1, <2>1, GemmTileIs
<1>4. "preload" \in ToSet(Buckets) /\ "compute" \in ToSet(Buckets) /\ r \in {"ping", "pong"}
  BY RegionsAre, BucketsAre
<1>5. ASSUME NEW n \in 1..Len(Of(i))
      PROVE  \/ /\ n \in 1..Len(v.inputs) /\ IsInput(v, v.inputs[n], tile, Of(i)[n])
             \/ \E t : IsOutput(v, t, tile, Of(i)[n])
             \/ IsTemp(v, n - (Len(v.inputs) + Len(v.outputs)), tile, Of(i)[n])
  <2>1. n \in Nat /\ 1 <= n
    BY <1>1
  <2>2. StandsAt(v, i, n, Of(i)[n])
    BY <1>1
  <2>3. n <= Len(v.inputs) => n \in 1..Len(v.inputs)
    BY <1>1, <2>1
  <2> HIDE DEF v
  <2> QED  BY <2>2, <2>3 DEF StandsAt
<1>6. r \in DOMAIN capacity /\ Load(i, r, "preload") <= capacity[r]
  <2>1. /\ r \in DOMAIN capacity /\ capacity[r] \in Nat
        /\ Bytes(tile.m * tile.k, v.activations) <= capacity[r]
    <3> HIDE DEF tile, r, v
    <3> QED  BY <1>1, <1>2, <1>3, TileFits DEF tile, r, v
  <2>2. InputBytes(v, tile) = Bytes(tile.m * tile.k, v.activations)
    BY DEF InputBytes, GemmLikeMacros, TiledInput, StreamingMacros, SdpaMacros
  <2>3. ASSUME NEW n \in 1..Len(Of(i)), Of(i)[n].region = r, Of(i)[n].bucket = "preload"
        PROVE  n = 1 /\ Of(i)[n].size <= capacity[r]
    <3> DEFINE a == Of(i)[n]
    <3>1. a.bucket = "preload" /\ a.region \in {"ping", "pong"}
      BY <1>4, <2>3
    <3>2. n \in 1..Len(v.inputs) /\ IsInput(v, v.inputs[n], tile, a)
      <4>1. \/ n \in 1..Len(v.inputs) /\ IsInput(v, v.inputs[n], tile, a)
            \/ \E t : IsOutput(v, t, tile, a)
            \/ IsTemp(v, n - (Len(v.inputs) + Len(v.outputs)), tile, a)
        BY <1>5
      <4> HIDE DEF a, tile, v
      <4> QED  BY <3>1, <4>1 DEF IsOutput, IsTemp
    <3> HIDE DEF a, tile, v
    <3>3. InputClass(v, v.inputs[n]) = "ACTIVATION" /\ a.size = InputBytes(v, tile)
      BY <3>1, <3>2 DEF IsInput
    <3>4. n = 1
      BY <1>1, <3>2, <3>3, GemmInputs DEF v
    <3> QED  BY <3>3, <3>4, <2>1, <2>2 DEF a
  <2> DEFINE most == capacity[r]
             p == 1
  <2>4. OnlyAt(i, r, "preload", p, most)
    BY <2>3 DEF OnlyAt
  <2>5. p \in Nat /\ most \in Nat
    BY <2>1
  <2> HIDE DEF r, p, most
  <2>6. Load(i, r, "preload") <= most
    BY <1>4, <2>4, <2>5, LoadFits
  <2> QED  BY <2>1, <2>6 DEF most
<1>7. "accum" \in DOMAIN capacity /\ Load(i, "accum", "compute") <= capacity["accum"]
  <2> DEFINE c == capacity["accum"]
             size == AtLeast1(tile.m * tile.n * 4)
             p == Len(v.inputs) + Len(v.outputs) + 1
  <2>1. "accum" \in DOMAIN capacity /\ c \in Nat /\ tile.m * (tile.n * 8) <= 2 * c
    <3>1. tile.n * 8 \in Nat \ {0}  BY <1>2
    <3> HIDE DEF tile
    <3> QED  BY <1>1, <1>2, <1>3, <3>1, RowsFit DEF tile
  <2>2. c >= 1
    BY <1>1, <2>1, ArgumentsAre
  <2>3. size <= c
    <3>1. tile.m * (tile.n * 8) = 2 * (tile.m * tile.n * 4) /\ tile.m * tile.n * 4 \in Nat
      BY <1>2
    <3> HIDE DEF tile, c
    <3> QED  BY <2>1, <2>2, <3>1 DEF AtLeast1
  <2>4. ASSUME NEW n \in 1..Len(Of(i)), Of(i)[n].region = "accum", Of(i)[n].bucket = "compute"
        PROVE  n = p /\ Of(i)[n].size <= c
    <3> DEFINE a == Of(i)[n]
    <3>1. a.bucket = "compute" /\ a.region = "accum"
      BY <2>4
    <3>2. IsTemp(v, n - (Len(v.inputs) + Len(v.outputs)), tile, a)
      <4>1. \/ n \in 1..Len(v.inputs) /\ IsInput(v, v.inputs[n], tile, a)
            \/ \E t : IsOutput(v, t, tile, a)
            \/ IsTemp(v, n - (Len(v.inputs) + Len(v.outputs)), tile, a)
        BY <1>5
      <4> HIDE DEF a, tile, v
      <4> QED  BY <3>1, <4>1 DEF IsInput, IsOutput
    <3> HIDE DEF a, size
    <3>3. n - (Len(v.inputs) + Len(v.outputs)) = 1 /\ a.size = size
      BY <3>1, <3>2 DEF IsTemp, size
    <3>4. n = p
      <4> DEFINE I == Len(v.inputs)
                 O == Len(v.outputs)
      <4>1. I \in Nat /\ O \in Nat
        BY <1>1
      <4>2. n - (I + O) = 1
        BY <3>3
      <4>4. n \in Int
        OBVIOUS
      <4>3. p = I + O + 1
        OBVIOUS
      <4> HIDE DEF I, O, p
      <4> QED  BY <4>1, <4>2, <4>3, <4>4
    <3> QED  BY <2>3, <3>3, <3>4 DEF a
  <2>5. p \in Nat /\ c \in Nat
    <3> DEFINE I == Len(v.inputs)
               O == Len(v.outputs)
    <3>1. I \in Nat /\ O \in Nat /\ p = I + O + 1
      BY <1>1
    <3> HIDE DEF I, O, p, c
    <3> QED  BY <3>1, <2>1
  <2>6. OnlyAt(i, "accum", "compute", p, c)
    BY <2>4 DEF OnlyAt
  <2> HIDE DEF p, c
  <2>7. Load(i, "accum", "compute") <= c
    BY <1>4, <2>5, <2>6, LoadFits
  <2> QED  BY <2>1, <2>7 DEF c
<1>8. OutRegion(i) \in DOMAIN capacity /\ Load(i, OutRegion(i), "store") <= capacity[OutRegion(i)]
  BY <1>3, StoreFits
<1> QED
  BY <1>6, <1>7, <1>8
(* A lookup stores one tile and reads as many rows of its table. *)
LEMMA EmbeddingFits ==
  ASSUME MemInv, NEW i \in Planned, nig[i].macro = "EMBEDDING_LOOKUP", TileShape(nig[i], i).m > 1
  PROVE  /\ /\ OutRegion(i) \in DOMAIN capacity
            /\ Load(i, OutRegion(i), "store") <= capacity[OutRegion(i)]
         /\ \A a \in ToSet(allocations) :
              a.node = nig[i].id /\ a.role = "weight" /\ a.tensor = nig[i].inputs[1] =>
                "weight" \in DOMAIN capacity /\ a.size <= capacity["weight"]
<1> DEFINE v == nig[i]
           tile == TileShape(v, i)
<1>1. /\ Arguments /\ IsBoundNode(v) /\ tile \in Tile
      /\ Of(i) \in Seq(ToSet(Of(i)))
      /\ \A n \in 1..Len(Of(i)) : StandsAt(v, i, n, Of(i)[n])
  BY PlacedAre
<1>2. /\ tile.m \in Nat /\ tile.n \in Nat \ {0} /\ EffectiveWeights(v) \in Nat \ {0}
  BY <1>1, MeasuresPositive DEF Tile
<1>3. /\ tile.m <= MaxFitRows("weight", tile.n * EffectiveWeights(v))
      /\ tile.m <= MaxFitRows(OutRegion(i), tile.n * v.activations)
  <2>1. tile = EmbeddingTile(v, i)
    BY DEF TileShape, GemmLikeMacros, StreamingMacros, SdpaMacros
  <2> QED  BY <1>1, <2>1, EmbeddingTileIs
<1>4. OutRegion(i) \in DOMAIN capacity /\ Load(i, OutRegion(i), "store") <= capacity[OutRegion(i)]
  BY <1>3, StoreFits
<1>5. /\ "weight" \in DOMAIN capacity
      /\ Bytes(tile.m * tile.n, EffectiveWeights(v)) <= capacity["weight"]
  <2> HIDE DEF tile, v
  <2> QED  BY <1>1, <1>2, <1>3, TileFits DEF tile, v
<1>6. ASSUME NEW a \in ToSet(allocations), a.node = v.id, a.role = "weight", a.tensor = v.inputs[1]
      PROVE  a.size <= capacity["weight"]
  <2>1. a \in ToSet(Of(i))
    <3>1. PICK j \in Planned : a \in ToSet(Of(j)) /\ IsAllocation(nig[j], a)
      BY AllocationsAre
    <3>2. nig[j].id = nig[i].id
      BY <3>1, <1>6 DEF IsAllocation
    <3>3. i \in DOMAIN nig /\ j \in DOMAIN nig /\ IsNig(nig)
      BY ArgumentsAre DEF MemInv, Planned
    <3>4. j = i
      BY <3>2, <3>3 DEF IsNig
    <3> QED  BY <3>1, <3>4
  <2>2. PICK n \in 1..Len(Of(i)) : a = Of(i)[n]
    BY <1>1, <2>1 DEF ToSet
  <2>3. StandsAt(v, i, n, a)
    BY <1>1, <2>2
  <2>4. IsInput(v, v.inputs[n], tile, a)
    <3>1. \/ IsInput(v, v.inputs[n], tile, a)
          \/ \E t : IsOutput(v, t, tile, a)
          \/ \E k : IsTemp(v, k, tile, a)
      BY <2>3 DEF StandsAt
    <3> HIDE DEF v, tile
    <3> QED  BY <3>1, <1>6 DEF IsOutput, IsTemp
  <2>5. a.size = WeightBytes(v, v.inputs[1], tile)
    <3> HIDE DEF v, tile
    <3> QED  BY <2>4, <1>6 DEF IsInput
  <2>6. WeightBytes(v, v.inputs[1], tile) = Bytes(tile.m * tile.n, EffectiveWeights(v))
    BY DEF WeightBytes, IsNormScale
  <2> QED  BY <1>5, <2>5, <2>6
<1> QED
  BY <1>4, <1>5, <1>6

LEMMA TilesHold ==
  ASSUME MemInv
  PROVE  TilesFit
<1> SUFFICES ASSUME NEW i \in Planned, TileShape(nig[i], i).m > 1
             PROVE  /\ nig[i].macro \in GemmLikeMacros =>
                         /\ /\ InRegion(i) \in DOMAIN capacity
                            /\ Load(i, InRegion(i), "preload") <= capacity[InRegion(i)]
                         /\ "accum" \in DOMAIN capacity /\ Load(i, "accum", "compute") <= capacity["accum"]
                         /\ /\ OutRegion(i) \in DOMAIN capacity
                            /\ Load(i, OutRegion(i), "store") <= capacity[OutRegion(i)]
                    /\ nig[i].macro = "EMBEDDING_LOOKUP" =>
                         /\ /\ OutRegion(i) \in DOMAIN capacity
                            /\ Load(i, OutRegion(i), "store") <= capacity[OutRegion(i)]
                         /\ \A a \in ToSet(allocations) :
                              a.node = nig[i].id /\ a.role = "weight" /\ a.tensor = nig[i].inputs[1] =>
                                "weight" \in DOMAIN capacity /\ a.size <= capacity["weight"]
  BY DEF TilesFit
<1> QED
  BY GemmFits, EmbeddingFits

LEMMA ProductPositive ==
  ASSUME NEW a \in Nat \ {0}, NEW b \in Nat \ {0}
  PROVE  a * b \in Nat \ {0}
OBVIOUS

(* The strides of a formula. *)
LEMMA StridesAre ==
  ASSUME Arguments, NEW i \in 1..Len(nig), NEW kind \in KvKind
  PROVE  LET f == FormulaOf(i, kind)
             stride == KvLen(scenario) * TokenStride(nig[i])
         IN  /\ f.node = nig[i].id /\ f.kind = kind /\ f.layer = nig[i].layer
             /\ f.layer \in Nat \cup {NoLayer}
             /\ f.kindStride = stride /\ f.layerStride = 2 * stride
             /\ stride \in Nat \ {0}
<1> DEFINE stride == KvLen(scenario) * TokenStride(nig[i])
           f == FormulaOf(i, kind)
<1>1. IsBoundNode(nig[i])
  BY ArgumentsAre
<1>2. stride \in Nat \ {0}
  <2>1. /\ scenario.query \in Nat \ {0} /\ scenario.pastLen \in Nat
        /\ scenario.kvHeads \in Nat \ {0} /\ HeadDim(nig[i], scenario) \in Nat \ {0}
    BY <1>1, ArgumentsAre, HeadDimPositive DEF IsScenario
  <2> DEFINE heads == scenario.kvHeads
             dim == HeadDim(nig[i], scenario)
             len == KvLen(scenario)
             token == TokenStride(nig[i])
  <2>2. len \in Nat \ {0}
    BY <2>1 DEF KvLen
  <2>3. token = heads * dim * 2
    BY DEF TokenStride
  <2>4. heads \in Nat \ {0} /\ dim \in Nat \ {0}
    BY <2>1
  <2> HIDE DEF heads, dim, len, token
  <2>5. heads * dim \in Nat \ {0}
    BY <2>4, ProductPositive
  <2>6. token \in Nat \ {0}
    BY <2>3, <2>5
  <2>7. len * token \in Nat \ {0}
    BY <2>2, <2>6, ProductPositive
  <2> QED  BY <2>7 DEF len, token
<1>3. f = [node |-> nig[i].id, kind |-> kind, layer |-> nig[i].layer, kindStride |-> stride,
           layerStride |-> 2 * stride]
  BY DEF FormulaOf, Formula
<1>4. nig[i].layer \in Nat \cup {NoLayer}
  BY <1>1 DEF IsBoundNode
<1> HIDE DEF stride
<1>5. /\ f.node = nig[i].id /\ f.kind = kind /\ f.layer = nig[i].layer
      /\ f.kindStride = stride /\ f.layerStride = 2 * stride
  BY <1>3
<1> QED
  BY <1>2, <1>4, <1>5 DEF stride

(* Slices of the same size, numbered by layer and kind, do not meet. *)
LEMMA SlicesApart ==
  ASSUME NEW l \in Nat, NEW m \in Nat, l < m, NEW a \in {0, 1}, NEW b \in {0, 1}, NEW s \in Nat
  PROVE  l * (2 * s) + a * s + s <= m * (2 * s) + b * s
<1>1. (l + 1) * (2 * s) <= m * (2 * s)
  <2>1. l + 1 <= m /\ 2 * s \in Nat
    OBVIOUS
  <2>2. \A x, y, z \in Nat : x <= y => x * z <= y * z
    OBVIOUS
  <2> QED  BY <2>1, <2>2
<1>2. (l + 1) * (2 * s) = l * (2 * s) + 2 * s
  OBVIOUS
<1>3. a * s <= s /\ b * s >= 0 /\ a * s \in Nat /\ b * s \in Nat
  OBVIOUS
<1>4. l * (2 * s) \in Nat /\ m * (2 * s) \in Nat
  OBVIOUS
<1> QED
  BY <1>1, <1>2, <1>3, <1>4

LEMMA SlicesHold ==
  ASSUME MemInv
  PROVE  SlicesDisjoint
<1>1. Arguments /\ Planned \subseteq 1..Len(nig) /\ IsNig(nig) /\ DOMAIN nig = 1..Len(nig)
  BY ArgumentsAre DEF MemInv, Planned
<1>2. ASSUME NEW f \in ToSet(formulas)
      PROVE  \E i \in 1..Len(nig), kind \in KvKind : f = FormulaOf(i, kind)
  <2>1. f \in EveryFormula
    BY DEF MemInv, StorageInv, ToSet
  <2> QED  BY <2>1 DEF EveryFormula
<1>3. ASSUME NEW f \in ToSet(formulas), NEW g \in ToSet(formulas),
             f.layer # NoLayer, g.layer # NoLayer, f.kindStride = g.kindStride
      PROVE  \/ f.layer = g.layer /\ f.kind = g.kind
             \/ SliceBase(f) + f.kindStride <= SliceBase(g)
             \/ SliceBase(g) + g.kindStride <= SliceBase(f)
  <2>1. PICK s \in Nat : s = f.kindStride
    BY <1>1, <1>2, StridesAre
  <2>2. /\ f.layer \in Nat /\ f.kind \in KvKind /\ f.layerStride = 2 * s
    BY <1>1, <1>2, <1>3, <2>1, StridesAre
  <2>3. /\ g.layer \in Nat /\ g.kind \in KvKind /\ g.layerStride = 2 * s
    BY <1>1, <1>2, <1>3, <2>1, StridesAre
  <2> DEFINE a == KindNumber[f.kind]
             b == KindNumber[g.kind]
             l == f.layer
             m == g.layer
  <2>4. a \in {0, 1} /\ b \in {0, 1} /\ (f.kind # g.kind => a # b)
    BY <2>2, <2>3 DEF KindNumber, KvKind
  <2>5. SliceBase(f) = l * (2 * s) + a * s /\ SliceBase(g) = m * (2 * s) + b * s
    BY <1>3, <2>1, <2>2, <2>3 DEF SliceBase
  <2>6. l \in Nat /\ m \in Nat /\ f.kindStride = s /\ g.kindStride = s
    BY <1>3, <2>1, <2>2, <2>3
  <2> HIDE DEF a, b, l, m
  <2>7. CASE l < m
    <3>1. l * (2 * s) + a * s + s <= m * (2 * s) + b * s
      BY <2>4, <2>6, <2>7, SlicesApart
    <3> QED  BY <2>5, <2>6, <3>1
  <2>8. CASE m < l
    <3>1. m * (2 * s) + b * s + s <= l * (2 * s) + a * s
      BY <2>4, <2>6, <2>8, SlicesApart
    <3> QED  BY <2>5, <2>6, <3>1
  <2>9. CASE l = m /\ f.kind # g.kind
    <3>1. (a = 0 /\ b = 1) \/ (a = 1 /\ b = 0)
      BY <2>4, <2>9
    <3>2. l * (2 * s) \in Nat
      BY <2>6
    <3> DEFINE base == l * (2 * s)
    <3>3. SliceBase(f) = base + a * s /\ SliceBase(g) = base + b * s /\ base \in Nat
      BY <2>5, <2>9, <3>2
    <3> HIDE DEF base
    <3>4. CASE a = 0 /\ b = 1
      BY <2>6, <3>3, <3>4
    <3>5. CASE a = 1 /\ b = 0
      BY <2>6, <3>3, <3>5
    <3> QED  BY <3>1, <3>4, <3>5
  <2>10. CASE l = m /\ f.kind = g.kind
    BY <2>10 DEF l, m
  <2>11. l < m \/ m < l \/ l = m
    BY <2>6
  <2> QED  BY <2>7, <2>8, <2>9, <2>10, <2>11
<1>4. ASSUME NEW f \in ToSet(formulas), NEW a \in ToSet(allocations),
             f.node = a.node, a.role = "kv_cache"
      PROVE  a.size <= f.kindStride
  <2>1. PICK i \in 1..Len(nig), kind \in KvKind : f = FormulaOf(i, kind)
    BY <1>2
  <2>2. PICK j \in Planned : IsAllocation(nig[j], a)
    BY AllocationsAre
  <2> DEFINE stride == KvLen(scenario) * TokenStride(nig[i])
  <2>3. f.node = nig[i].id /\ f.kindStride = stride /\ stride \in Nat \ {0}
    BY <1>1, <2>1, StridesAre
  <2>4. a.node = nig[j].id /\ a.size = KvBytes(nig[j])
    BY <1>4, <2>2 DEF IsAllocation
  <2>5. i = j
    BY <1>1, <1>4, <2>2, <2>3, <2>4 DEF IsNig
  <2>6. KvBytes(nig[i]) = IF HasAttention(nig[i]) THEN AtLeast1(stride) ELSE 1
    BY DEF KvBytes
  <2> HIDE DEF stride
  <2>7. KvBytes(nig[i]) <= stride
    BY <2>3, <2>6 DEF AtLeast1
  <2> QED  BY <2>3, <2>4, <2>5, <2>7
<1> QED
  BY <1>3, <1>4 DEF SlicesDisjoint

-----------------------------------------------------------------------------
(* The theorems about the memory plan.                                     *)

(* Whatever nodes, scenario and regions the planner is given, every tile it cuts has
   a row, a column and a depth, and every allocation a positive size. *)
THEOREM TypeCorrect == Spec => []TypeOK
BY Invariance, TypesHold, PTL

(* After every node the diagnostics that the planner updates branch by branch say of
   each region what the allocations listed do: the most a node holds in a bucket at a
   time, the allocations that make it up, and all the nodes that hold as much. *)
THEOREM PeaksOfAllocations == Spec => []PeaksExact
BY Invariance, PeaksHold, PTL

(* What an allocation or an address refers to is registered under a descriptor that
   is true of it, although the first to name an id writes the descriptor; and only a
   node without a binding stops the planner, never the artifact's validator. *)
THEOREM BindingsKnown == Spec => []BindingsDescribe
BY Invariance, BindingsHold, PTL

(* A tile of more than one row fits the regions it was cut to, for all capacities,
   dtypes and shapes. *)
THEOREM TilesCut == Spec => []TilesFit
BY Invariance, TilesHold, PTL

(* Slices of the KV cache of one size do not overlap and hold the node's cached
   tensors, for all layers and lengths. *)
THEOREM SlicesNeverMeet == Spec => []SlicesDisjoint
BY Invariance, SlicesHold, PTL

-----------------------------------------------------------------------------
(* The tile plan: rounding.                                                *)

(* A number is its quotient times the divisor, and what remains. *)
LEMMA QuotientIs ==
  ASSUME NEW a \in Nat, NEW d \in Nat \ {0}
  PROVE  /\ a \div d \in Nat /\ a % d \in Nat /\ a % d < d
         /\ a = d * (a \div d) + (a % d)
<1>1. a % d \in 0..(d - 1)
  OBVIOUS
<1>2. a = d * (a \div d) + (a % d)
  OBVIOUS
<1>3. a \div d \in Int
  OBVIOUS
<1>4. a \div d \in Nat
  OBVIOUS
<1> QED  BY <1>1, <1>2, <1>4

(* And no other number is. *)
LEMMA QuotientOnly ==
  ASSUME NEW d \in Nat \ {0}, NEW q \in Nat, NEW p \in Nat, NEW r \in Nat, NEW s \in Nat,
         r < d, s < d, d * q + r <= d * p + s
  PROVE  q <= p /\ (q = p => r <= s)
<1>1. ASSUME q > p  PROVE FALSE
  <2>1. q >= p + 1  BY <1>1
  <2>2. d * q >= d * (p + 1)  BY <2>1
  <2>3. d * (p + 1) = d * p + d  OBVIOUS
  <2>4. d * p \in Nat /\ d * q \in Nat  OBVIOUS
  <2> QED  BY <2>2, <2>3, <2>4
<1>2. ASSUME q = p  PROVE r <= s
  <2>1. d * p \in Nat  OBVIOUS
  <2> QED  BY <1>2, <2>1
<1> QED  BY <1>1, <1>2

(* The rounded quotient of a multiple is the number multiplied. *)
LEMMA RoundedWhole ==
  ASSUME NEW n \in Nat, NEW d \in Nat \ {0}
  PROVE  RoundHalfEven(n * d, d) = n
<1> DEFINE a == n * d
           q == a \div d
           r == a % d
<1>1. a \in Nat  OBVIOUS
<1>2. q \in Nat /\ r \in Nat /\ r < d /\ a = d * q + r
  <2> HIDE DEF a
  <2> QED  BY <1>1, QuotientIs
<1>3. a = d * n + 0  OBVIOUS
<1>4. q <= n /\ n <= q
  <2> HIDE DEF a, q, r
  <2> QED  BY <1>2, <1>3, QuotientOnly
<1>5. q = n  BY <1>2, <1>4
<1>6. r = 0
  <2> HIDE DEF q, r
  <2>1. d * n \in Nat  OBVIOUS
  <2> QED  BY <1>2, <1>3, <1>5, <2>1
<1>7. RoundHalfEven(a, d) =
        IF 2 * r > d \/ (2 * r = d /\ q % 2 = 1) THEN q + 1 ELSE q
  BY DEF RoundHalfEven
<1> HIDE DEF a, q, r
<1>8. RoundHalfEven(a, d) = n
  BY <1>5, <1>6, <1>7
<1> QED  BY <1>8 DEF a

(* Rounding keeps the order. *)
LEMMA RoundedMonotone ==
  ASSUME NEW a \in Nat, NEW b \in Nat, NEW d \in Nat \ {0}, a <= b
  PROVE  /\ RoundHalfEven(a, d) \in Nat /\ RoundHalfEven(b, d) \in Nat
         /\ RoundHalfEven(a, d) <= RoundHalfEven(b, d)
<1> DEFINE q == a \div d
           r == a % d
           p == b \div d
           s == b % d
<1>1. /\ q \in Nat /\ r \in Nat /\ r < d /\ a = d * q + r
      /\ p \in Nat /\ s \in Nat /\ s < d /\ b = d * p + s
  BY QuotientIs
<1>2. /\ RoundHalfEven(a, d) = IF 2 * r > d \/ (2 * r = d /\ q % 2 = 1) THEN q + 1 ELSE q
      /\ RoundHalfEven(b, d) = IF 2 * s > d \/ (2 * s = d /\ p % 2 = 1) THEN p + 1 ELSE p
  BY DEF RoundHalfEven
<1> HIDE DEF q, r, p, s
<1>3. q <= p /\ (q = p => r <= s)
  BY <1>1, QuotientOnly
<1>4. CASE q < p
  BY <1>1, <1>2, <1>4
<1>5. CASE q = p
  BY <1>1, <1>2, <1>3, <1>5
<1> QED  BY <1>1, <1>3, <1>4, <1>5

(* What an allocation is counted for does not fall with the rows, and is its size at
   the base. *)
LEMMA ScaledBytesAre ==
  ASSUME NEW a, a.size \in Nat \ {0}, NEW base \in Nat \ {0}, NEW m \in Nat, NEW l \in Nat, m <= l
  PROVE  /\ ScaledBytes(a, m, base) \in Nat \ {0}
         /\ ScaledBytes(a, m, base) <= ScaledBytes(a, l, base)
         /\ ScaledBytes(a, base, base) = a.size
<1> DEFINE size == a.size
<1>1. size * m \in Nat /\ size * l \in Nat /\ size * m <= size * l
  <2>1. size \in Nat  OBVIOUS
  <2> HIDE DEF size
  <2>2. size * m \in Nat /\ size * l \in Nat  BY <2>1
  <2>3. size * l - size * m = size * (l - m) /\ l - m \in Nat  BY <2>1
  <2>4. size * (l - m) \in Nat  BY <2>1, <2>3
  <2> QED  BY <2>2, <2>3, <2>4
<1> DEFINE x == RoundHalfEven(size * m, base)
           y == RoundHalfEven(size * l, base)
           z == RoundHalfEven(size * base, base)
<1>2. x \in Nat /\ y \in Nat /\ x <= y
  <2> HIDE DEF size
  <2> QED  BY <1>1, RoundedMonotone
<1>3. z = size
  BY RoundedWhole
<1>4. \A rows : ScaledBytes(a, rows, base) =
        IF a.role \in {"weight", "quant_param"} THEN size
        ELSE AtLeast1(RoundHalfEven(size * rows, base))
  BY DEF ScaledBytes
<1>5. /\ ScaledBytes(a, m, base) = IF a.role \in {"weight", "quant_param"} THEN size ELSE AtLeast1(x)
      /\ ScaledBytes(a, l, base) = IF a.role \in {"weight", "quant_param"} THEN size ELSE AtLeast1(y)
      /\ ScaledBytes(a, base, base) = IF a.role \in {"weight", "quant_param"} THEN size ELSE AtLeast1(z)
  BY <1>4
<1>6. size \in Nat \ {0}  OBVIOUS
<1> HIDE DEF x, y, z
<1> QED  BY <1>2, <1>3, <1>5, <1>6 DEF AtLeast1

-----------------------------------------------------------------------------
(* Sums over scaled lists.                                                 *)

(* A sum is no greater than one over a list that counts at least as much in each place. *)
LEMMA TotalLess ==
  ASSUME NEW A, \A a \in A : a.size \in Nat, NEW placed \in Seq(A), NEW which,
         NEW B, \A b \in B : b.size \in Nat, NEW others \in Seq(B), NEW those,
         Len(placed) = Len(others),
         \A n \in 1..Len(placed) :
           placed[n] \in which => others[n] \in those /\ placed[n].size <= others[n].size
  PROVE  Total(placed, which) <= Total(others, those)
<1> DEFINE N == Len(placed)
<1>1. PICK f \in [0..N -> Nat] :
         Prefixed(f, placed, which) /\ Total(placed, which) = f[N]
  BY TotalSteps
<1>2. PICK g \in [0..N -> Nat] :
         Prefixed(g, others, those) /\ Total(others, those) = g[N]
  <2>1. PICK g \in [0..Len(others) -> Nat] :
           Prefixed(g, others, those) /\ Total(others, those) = g[Len(others)]
    BY TotalSteps
  <2> QED  BY <2>1
<1> DEFINE S == {i \in 0..N : f[i] <= g[i]}
<1>3. N \in Nat /\ 0 \in S
  BY <1>1, <1>2 DEF Prefixed
<1>4. ASSUME NEW i \in 0..(N - 1), i \in S  PROVE i + 1 \in S
  <2>1. i + 1 \in 0..N /\ i + 1 # 0 /\ i + 1 - 1 = i /\ i + 1 \in 1..N /\ i \in 0..N  BY <1>3
  <2> DEFINE x == IF placed[i + 1] \in which THEN placed[i + 1].size ELSE 0
             y == IF others[i + 1] \in those THEN others[i + 1].size ELSE 0
  <2>2. f[i + 1] = f[i] + x
    BY <2>1, <1>1 DEF Prefixed
  <2>3. g[i + 1] = g[i] + y
    BY <2>1, <1>2 DEF Prefixed
  <2>4. placed[i + 1] \in A /\ others[i + 1] \in B
    BY <2>1
  <2>5. x \in Nat /\ y \in Nat /\ x <= y
    BY <2>1, <2>4
  <2>6. f[i] \in Nat /\ g[i] \in Nat /\ f[i] <= g[i]
    BY <2>1, <1>4
  <2> HIDE DEF x, y
  <2>7. f[i + 1] <= g[i + 1]
    BY <2>2, <2>3, <2>5, <2>6
  <2> QED  BY <2>1, <2>7
<1>5. \A i \in 0..N : i \in S
  <2> HIDE DEF S, N
  <2> QED  BY <1>3, <1>4, UpTo
<1> QED
  BY <1>1, <1>2, <1>3, <1>5

(* A set of which the list has exactly one element, and that once, sums to its size. *)
LEMMA TotalOne ==
  ASSUME NEW A, \A a \in A : a.size \in Nat, NEW placed \in Seq(A), NEW which,
         NEW p \in 1..Len(placed),
         \A n \in 1..Len(placed) : placed[n] \in which <=> n = p
  PROVE  Total(placed, which) = placed[p].size
<1> DEFINE N == Len(placed)
           size == placed[p].size
<1>1. PICK f \in [0..N -> Nat] :
         Prefixed(f, placed, which) /\ Total(placed, which) = f[N]
  BY TotalSteps
<1>2. N \in Nat /\ p \in 1..N /\ size \in Nat
  OBVIOUS
<1> DEFINE S == {i \in 0..N : f[i] = IF i < p THEN 0 ELSE size}
<1>3. 0 \in S
  BY <1>1, <1>2 DEF Prefixed
<1>4. ASSUME NEW i \in 0..(N - 1), i \in S  PROVE i + 1 \in S
  <2>1. i + 1 \in 0..N /\ i + 1 # 0 /\ i + 1 - 1 = i /\ i + 1 \in 1..N /\ i \in 0..N  BY <1>2
  <2>2. f[i + 1] = f[i] + (IF placed[i + 1] \in which THEN placed[i + 1].size ELSE 0)
    BY <2>1, <1>1 DEF Prefixed
  <2>3. f[i + 1] = f[i] + (IF i + 1 = p THEN size ELSE 0)
    BY <2>1, <2>2
  <2>4. f[i] = IF i < p THEN 0 ELSE size
    BY <1>4
  <2> HIDE DEF size, N
  <2>5. f[i + 1] = IF i + 1 < p THEN 0 ELSE size
    BY <1>2, <2>1, <2>3, <2>4
  <2> QED  BY <2>1, <2>5
<1>5. \A i \in 0..N : i \in S
  <2> HIDE DEF S, N
  <2> QED  BY <1>2, <1>3, <1>4, UpTo
<1> QED
  BY <1>1, <1>2, <1>5

-----------------------------------------------------------------------------
(* Candidates.                                                             *)

(* A scaled list has the allocations in their places, and other sizes. *)
ScaledAt(scaled, m, base, n) ==
  /\ allocations[n] \in ToSet(allocations) /\ allocations[n].size \in Nat \ {0}
  /\ scaled[n] \in ToSet(scaled)
  /\ scaled[n].node = allocations[n].node /\ scaled[n].role = allocations[n].role
  /\ scaled[n].region = allocations[n].region
  /\ scaled[n].binding = allocations[n].binding
  /\ scaled[n].size = ScaledBytes(allocations[n], m, base)

LEMMA ScaledAre ==
  ASSUME MemInv, NEW m \in Nat, NEW base \in Nat \ {0}
  PROVE  /\ allocations \in Seq(Everything) /\ Len(allocations) \in Nat
         /\ \A a \in Everything : a.size \in Nat
         /\ Scaled(m, base) \in Seq(ToSet(Scaled(m, base)))
         /\ Len(Scaled(m, base)) = Len(allocations)
         /\ \A a \in ToSet(Scaled(m, base)) : a.size \in Nat
         /\ \A n \in 1..Len(allocations) : ScaledAt(Scaled(m, base), m, base, n)
<1> DEFINE scaled == Scaled(m, base)
           N == Len(allocations)
<1>1. /\ allocations \in Seq(Everything) /\ N \in Nat /\ DOMAIN allocations = 1..N
      /\ \A a \in Everything : a.size \in Nat
  BY OfAre DEF MemInv, ListInv
<1>2. ASSUME NEW n \in 1..N
      PROVE  allocations[n] \in ToSet(allocations) /\ allocations[n].size \in Nat \ {0}
  <2>1. allocations[n] \in ToSet(allocations)
    BY <1>1 DEF ToSet
  <2> QED  BY <2>1, AllocationsAre DEF IsAllocation
<1>3. DOMAIN scaled = 1..N
  BY <1>1 DEF Scaled
<1>4. ASSUME NEW n \in 1..N
      PROVE  /\ scaled[n].node = allocations[n].node /\ scaled[n].role = allocations[n].role
             /\ scaled[n].region = allocations[n].region
             /\ scaled[n].binding = allocations[n].binding
             /\ scaled[n].size = ScaledBytes(allocations[n], m, base)
             /\ scaled[n].size \in Nat
  <2>1. scaled[n] = [node |-> allocations[n].node, role |-> allocations[n].role,
                     region |-> allocations[n].region, binding |-> allocations[n].binding,
                     size |-> ScaledBytes(allocations[n], m, base)]
    BY <1>1 DEF Scaled
  <2>2. ScaledBytes(allocations[n], m, base) \in Nat \ {0}
    BY <1>2, ScaledBytesAre
  <2> QED  BY <2>1, <2>2
<1>5. scaled \in Seq(ToSet(scaled)) /\ Len(scaled) = N
  <2>1. scaled = [n \in 1..N |-> scaled[n]]
    BY <1>1, <1>3 DEF Scaled
  <2>2. \A n \in 1..N : scaled[n] \in ToSet(scaled)
    BY <1>3 DEF ToSet
  <2> HIDE DEF scaled, N
  <2>3. [n \in 1..N |-> scaled[n]] \in Seq(ToSet(scaled)) /\ Len([n \in 1..N |-> scaled[n]]) = N
    BY <2>2, <1>1
  <2> QED  BY <2>1, <2>3
<1>6. ASSUME NEW a \in ToSet(scaled)  PROVE a.size \in Nat
  <2>1. PICK n \in 1..N : a = scaled[n]
    BY <1>3 DEF ToSet
  <2> QED  BY <2>1, <1>4
<1>7. \A n \in 1..N : scaled[n] \in ToSet(scaled)
  BY <1>3 DEF ToSet
<1>8. \A n \in 1..N : ScaledAt(scaled, m, base, n)
  BY <1>2, <1>4, <1>7 DEF ScaledAt
<1> QED  BY <1>1, <1>5, <1>6, <1>8

(* More rows count for as much at least. *)
LEMMA ScaledOrder ==
  ASSUME MemInv, NEW base \in Nat \ {0}, NEW m \in Nat, NEW l \in Nat, m <= l,
         NEW which, NEW those,
         \A n \in 1..Len(allocations) :
           Scaled(m, base)[n] \in which => Scaled(l, base)[n] \in those
  PROVE  Total(Scaled(m, base), which) <= Total(Scaled(l, base), those)
<1> DEFINE few == Scaled(m, base)
           more == Scaled(l, base)
<1>1. /\ few \in Seq(ToSet(few)) /\ more \in Seq(ToSet(more))
      /\ Len(few) = Len(more) /\ Len(few) = Len(allocations)
      /\ \A a \in ToSet(few) : a.size \in Nat
      /\ \A a \in ToSet(more) : a.size \in Nat
  BY ScaledAre
<1>2. ASSUME NEW n \in 1..Len(allocations)  PROVE few[n].size <= more[n].size
  <2>1. /\ allocations[n].size \in Nat \ {0}
        /\ few[n].size = ScaledBytes(allocations[n], m, base)
        /\ more[n].size = ScaledBytes(allocations[n], l, base)
    <3>1. ScaledAt(few, m, base, n)  BY ScaledAre
    <3>2. ScaledAt(more, l, base, n)  BY ScaledAre
    <3> HIDE DEF few, more
    <3> QED  BY <3>1, <3>2 DEF ScaledAt
  <2>2. ScaledBytes(allocations[n], m, base) <= ScaledBytes(allocations[n], l, base)
    BY <2>1, ScaledBytesAre
  <2> QED  BY <2>1, <2>2
<1>3. \A n \in 1..Len(few) : few[n] \in which => more[n] \in those /\ few[n].size <= more[n].size
  BY <1>1, <1>2
<1> HIDE DEF few, more
<1>4. Total(few, which) <= Total(more, those)
  BY <1>1, <1>3, TotalLess
<1> QED  BY <1>4 DEF few, more

(* What an element of a scaled list is chosen by is the same in both lists. *)
LEMMA ScaledAlike ==
  ASSUME MemInv, NEW base \in Nat \ {0}, NEW m \in Nat, NEW l \in Nat,
         NEW n \in 1..Len(allocations)
  PROVE  LET a == Scaled(m, base)[n]
             b == Scaled(l, base)[n]
         IN  /\ a \in ToSet(Scaled(m, base)) /\ b \in ToSet(Scaled(l, base))
             /\ a.node = b.node /\ a.role = b.role /\ a.region = b.region
<1>1. ScaledAt(Scaled(m, base), m, base, n)  BY ScaledAre
<1>2. ScaledAt(Scaled(l, base), l, base, n)  BY ScaledAre
<1> QED  BY <1>1, <1>2 DEF ScaledAt

(* Of two candidates the one with fewer rows reads, writes and holds no more. *)
LEMMA CandidateOrder ==
  ASSUME MemInv, NEW v, NEW base \in Nat \ {0}, NEW m \in Nat, NEW l \in Nat, m <= l, NEW k
  PROVE  /\ Candidate(v, m, base, k).read <= Candidate(v, l, base, k).read
         /\ Candidate(v, m, base, k).write <= Candidate(v, l, base, k).write
         /\ \A r \in Region :
              Candidate(v, m, base, k).pressure[r] <= Candidate(v, l, base, k).pressure[r]
<1> DEFINE few == Scaled(m, base)
           more == Scaled(l, base)
           own(placed) == {a \in ToSet(placed) : a.node = v.id}
<1>1. ASSUME NEW roles
      PROVE  Total(few, WithRole(own(few), roles)) <= Total(more, WithRole(own(more), roles))
  <2>1. \A n \in 1..Len(allocations) :
          few[n] \in WithRole(own(few), roles) => more[n] \in WithRole(own(more), roles)
    BY ScaledAlike DEF WithRole
  <2> DEFINE which == WithRole(own(few), roles)
             those == WithRole(own(more), roles)
  <2> HIDE DEF which, those
  <2>2. \A n \in 1..Len(allocations) : Scaled(m, base)[n] \in which => Scaled(l, base)[n] \in those
    BY <2>1 DEF which, those
  <2>3. Total(Scaled(m, base), which) <= Total(Scaled(l, base), those)
    BY <2>2, ScaledOrder
  <2> QED  BY <2>3 DEF which, those
<1>2. ASSUME NEW r
      PROVE  Total(few, {a \in own(few) : a.region = r}) <= Total(more, {a \in own(more) : a.region = r})
  <2> DEFINE which == {a \in own(few) : a.region = r}
             those == {a \in own(more) : a.region = r}
  <2>1. \A n \in 1..Len(allocations) : Scaled(m, base)[n] \in which => Scaled(l, base)[n] \in those
    BY ScaledAlike
  <2> HIDE DEF which, those
  <2>2. Total(Scaled(m, base), which) <= Total(Scaled(l, base), those)
    BY <2>1, ScaledOrder
  <2> QED  BY <2>2 DEF which, those
<1>3. \A rows : LET placed == Scaled(rows, base) IN
        /\ Candidate(v, rows, base, k).read =
             Total(placed, WithRole(own(placed), {"input", "weight", "quant_param", "kv_cache"}))
        /\ Candidate(v, rows, base, k).write = Total(placed, WithRole(own(placed), {"output"}))
        /\ \A r \in Region : Candidate(v, rows, base, k).pressure[r] =
                              Total(placed, {a \in own(placed) : a.region = r})
  BY DEF Candidate
<1>4. Candidate(v, m, base, k).read <= Candidate(v, l, base, k).read
  BY <1>1, <1>3
<1>5. Candidate(v, m, base, k).write <= Candidate(v, l, base, k).write
  BY <1>1, <1>3
<1>6. ASSUME NEW r \in Region
      PROVE  Candidate(v, m, base, k).pressure[r] <= Candidate(v, l, base, k).pressure[r]
  <2>1. /\ Candidate(v, m, base, k).pressure[r] = Total(few, {a \in own(few) : a.region = r})
        /\ Candidate(v, l, base, k).pressure[r] = Total(more, {a \in own(more) : a.region = r})
    BY <1>3
  <2> QED  BY <2>1, <1>2
<1> QED  BY <1>4, <1>5, <1>6

(* What candidates are ranked by are numbers. *)
Typed(c, m, v) ==
  c.m = m /\ c.n = TileColumns(v) /\ c.vmem \in Nat /\ c.read \in Nat /\ c.staged \in Nat

LEMMA CandidateTyped ==
  ASSUME MemInv, NEW v, NEW base \in Nat \ {0}, NEW m \in Nat, NEW k
  PROVE  Typed(Candidate(v, m, base, k), m, v)
<1> DEFINE scaled == Scaled(m, base)
           own == {a \in ToSet(scaled) : a.node = v.id}
<1>1. ASSUME NEW which  PROVE Total(scaled, which) \in Nat
  <2>1. scaled \in Seq(ToSet(scaled)) /\ \A a \in ToSet(scaled) : a.size \in Nat
    BY ScaledAre
  <2> HIDE DEF scaled
  <2> QED  BY <2>1, TotalType
<1>2. /\ Candidate(v, m, base, k).m = m /\ Candidate(v, m, base, k).n = TileColumns(v)
      /\ Candidate(v, m, base, k).vmem = Total(scaled, {a \in own : a.region \in Region})
      /\ Candidate(v, m, base, k).read =
           Total(scaled, WithRole(own, {"input", "weight", "quant_param", "kv_cache"}))
      /\ Candidate(v, m, base, k).staged =
           Total(scaled, {a \in WithRole(own, {"weight", "quant_param", "kv_cache"}) :
                            a.binding \in DOMAIN bindings})
  BY DEF Candidate
<1> QED  BY <1>1, <1>2 DEF Typed

(* The candidate with the rows of the base holds what was allocated. *)
AsAllocated(c, v, r) ==
  c.pressure[r] = Total(allocations, {a \in AllocationsOf(v) : a.region = r})

LEMMA CandidateAtBase ==
  ASSUME MemInv, NEW v, NEW base \in Nat \ {0}, NEW k, NEW r \in Region
  PROVE  AsAllocated(Candidate(v, base, base, k), v, r)
<1> DEFINE scaled == Scaled(base, base)
           which == {a \in {b \in ToSet(scaled) : b.node = v.id} : a.region = r}
           those == {a \in AllocationsOf(v) : a.region = r}
<1>1. Candidate(v, base, base, k).pressure[r] = Total(scaled, which)
  BY DEF Candidate
<1>2. /\ allocations \in Seq(Everything) /\ \A a \in Everything : a.size \in Nat
      /\ scaled \in Seq(ToSet(scaled)) /\ Len(scaled) = Len(allocations)
      /\ \A a \in ToSet(scaled) : a.size \in Nat
  BY ScaledAre
<1>3. ASSUME NEW n \in 1..Len(allocations)
      PROVE  /\ scaled[n] \in which <=> allocations[n] \in those
             /\ scaled[n].size = allocations[n].size /\ allocations[n].size \in Nat
  <2>1. /\ allocations[n] \in ToSet(allocations) /\ allocations[n].size \in Nat \ {0}
        /\ scaled[n] \in ToSet(scaled)
        /\ scaled[n].node = allocations[n].node /\ scaled[n].region = allocations[n].region
        /\ scaled[n].size = ScaledBytes(allocations[n], base, base)
    <3>1. ScaledAt(scaled, base, base, n)  BY ScaledAre
    <3> HIDE DEF scaled
    <3> QED  BY <3>1 DEF ScaledAt
  <2>2. scaled[n].size = allocations[n].size
    BY <2>1, ScaledBytesAre
  <2> HIDE DEF scaled
  <2> QED  BY <2>1, <2>2 DEF AllocationsOf
<1> HIDE DEF scaled, which, those
<1>4. Total(scaled, which) <= Total(allocations, those)
  BY <1>2, <1>3, TotalLess
<1>5. Total(allocations, those) <= Total(scaled, which)
  BY <1>2, <1>3, TotalLess
<1>6. Total(scaled, which) \in Nat /\ Total(allocations, those) \in Nat
  BY <1>2, TotalType
<1>7. Candidate(v, base, base, k).pressure[r] = Total(allocations, those)
  BY <1>1, <1>4, <1>5, <1>6
<1> QED  BY <1>7 DEF those, AsAllocated

(* And every candidate reads all of the weights. *)
LEMMA CandidateReads ==
  ASSUME MemInv, NEW v, NEW base \in Nat \ {0}, NEW m \in Nat, NEW k
  PROVE  Candidate(v, m, base, k).read >=
           Total(allocations, WithRole(AllocationsOf(v), {"weight", "quant_param"}))
<1> DEFINE scaled == Scaled(m, base)
           which == WithRole({b \in ToSet(scaled) : b.node = v.id},
                             {"input", "weight", "quant_param", "kv_cache"})
           those == WithRole(AllocationsOf(v), {"weight", "quant_param"})
<1>1. Candidate(v, m, base, k).read = Total(scaled, which)
  BY DEF Candidate
<1>2. /\ allocations \in Seq(Everything) /\ \A a \in Everything : a.size \in Nat
      /\ scaled \in Seq(ToSet(scaled)) /\ Len(scaled) = Len(allocations)
      /\ \A a \in ToSet(scaled) : a.size \in Nat
  BY ScaledAre
<1>3. ASSUME NEW n \in 1..Len(allocations), allocations[n] \in those
      PROVE  scaled[n] \in which /\ allocations[n].size <= scaled[n].size
  <2>1. /\ allocations[n] \in ToSet(allocations) /\ allocations[n].size \in Nat \ {0}
        /\ scaled[n] \in ToSet(scaled)
        /\ scaled[n].node = allocations[n].node /\ scaled[n].role = allocations[n].role
        /\ scaled[n].size = ScaledBytes(allocations[n], m, base)
    <3>1. ScaledAt(scaled, m, base, n)  BY ScaledAre
    <3> HIDE DEF scaled
    <3> QED  BY <3>1 DEF ScaledAt
  <2>2. allocations[n].node = v.id /\ allocations[n].role \in {"weight", "quant_param"}
    BY <1>3 DEF WithRole, AllocationsOf
  <2>3. scaled[n].size = allocations[n].size
    BY <2>1, <2>2 DEF ScaledBytes
  <2> HIDE DEF scaled
  <2> QED  BY <2>1, <2>2, <2>3 DEF WithRole
<1> HIDE DEF scaled, which, those
<1>4. Total(allocations, those) <= Total(scaled, which)
  BY <1>2, <1>3, TotalLess
<1>5. Total(scaled, which) \in Nat /\ Total(allocations, those) \in Nat
  BY <1>2, TotalType
<1> QED  BY <1>1, <1>4, <1>5 DEF those

-----------------------------------------------------------------------------
(* Rows and ranks.                                                         *)

(* A list of rows from the base down. *)
Descending(rows, base) ==
  /\ rows \in Seq(Nat \ {0}) /\ Len(rows) \in 1..4
  /\ rows[1] = base
  /\ \A i, j \in 1..Len(rows) : i < j => rows[i] >= rows[j]

LEMMA OneRow == Descending(<<1>>, 1)
BY DEF Descending

LEMMA PrefillRowsAre ==
  ASSUME NEW base \in Nat \ {0}
  PROVE  Descending(PrefillRows(base), base)
<1> DEFINE S == {i \in 1..11 : i = 11 \/ PrefillTemplate[i] < base}
           below == SmallestOf(S)
           last == Smaller(below + 2, 10)
           rest == SubSeq(PrefillTemplate, below, last)
<1>1. below \in S
  <2>1. S \subseteq Nat \ {0} /\ S # {}  OBVIOUS
  <2> HIDE DEF S
  <2> QED  BY <2>1, SmallestIs
<1>2. /\ PrefillTemplate \in Seq(Nat \ {0}) /\ Len(PrefillTemplate) = 10
      /\ \A i \in 1..10 : PrefillTemplate[i] \in Nat \ {0}
      /\ \A i, j \in 1..10 : i < j => PrefillTemplate[i] >= PrefillTemplate[j]
  BY DEF PrefillTemplate
<1>3. PrefillRows(base) = <<base>> \o rest
  BY DEF PrefillRows
<1>4. /\ below \in 1..11 /\ (below # 11 => PrefillTemplate[below] < base)
      /\ last \in 1..10 /\ last <= below + 2 /\ (below # 11 => below <= last) /\ (below = 11 => last = 10)
  BY <1>1 DEF Smaller
<1> HIDE DEF below, last, S
<1>5. /\ rest \in Seq(Nat \ {0}) /\ Len(rest) \in 0..3
      /\ \A i \in 1..Len(rest) : i + below - 1 \in 1..10 /\ rest[i] = PrefillTemplate[i + below - 1]
  <2>1. CASE below = 11
    <3>1. rest = <<>>
      BY <2>1, <1>2, <1>4
    <3> QED  BY <3>1
  <2>2. CASE below # 11
    <3>1. /\ below \in 1..10 /\ last \in below..10 /\ last - below + 1 \in 1..3
      BY <2>2, <1>4
    <3>2. /\ Len(rest) = last - below + 1
          /\ \A i \in 1..(last - below + 1) : rest[i] = PrefillTemplate[i + below - 1]
      BY <3>1, <1>2
    <3>3. \A i \in 1..(last - below + 1) : i + below - 1 \in 1..10
      BY <3>1
    <3>4. rest \in Seq(Nat \ {0})
      <4>1. rest = [i \in 1..(last - below + 1) |-> rest[i]]
        BY <3>1, <1>2
      <4>2. ASSUME NEW i \in 1..(last - below + 1)  PROVE rest[i] \in Nat \ {0}
        <5>1. \A n \in 1..10 : PrefillTemplate[n] \in Nat \ {0}  BY <1>2
        <5> QED  BY <5>1, <3>2, <3>3
      <4>3. last - below + 1 \in Nat  BY <3>1
      <4> DEFINE n == last - below + 1
      <4> HIDE DEF rest, n
      <4> QED  BY <4>1, <4>2, <4>3 DEF n
    <3> QED  BY <3>1, <3>2, <3>3, <3>4
  <2> QED  BY <2>1, <2>2
<1>6. ASSUME NEW i \in 1..Len(rest)
      PROVE  /\ rest[i] \in Nat \ {0} /\ base >= rest[i]
             /\ \A j \in 1..Len(rest) : i < j => rest[i] >= rest[j]
  <2>1. below # 11 /\ below \in 1..10
    BY <1>4, <1>5
  <2>2. PrefillTemplate[below] >= PrefillTemplate[i + below - 1]
    <3>1. i \in Nat /\ 1 <= i  BY <1>5
    <3>2. i = 1 => i + below - 1 = below  BY <2>1, <3>1
    <3>3. i # 1 => below < i + below - 1  BY <2>1, <3>1
    <3>4. \A n \in 1..10 : PrefillTemplate[n] \in Nat  BY <1>2
    <3>5. PrefillTemplate[below] >= PrefillTemplate[below]  BY <2>1, <3>4
    <3> QED  BY <1>2, <1>5, <2>1, <3>2, <3>3, <3>5
  <2>3. PrefillTemplate[below] \in Nat /\ PrefillTemplate[i + below - 1] \in Nat
    BY <1>2, <1>5, <2>1
  <2>4. base >= rest[i]
    BY <1>4, <1>5, <2>1, <2>2, <2>3
  <2>5. ASSUME NEW j \in 1..Len(rest), i < j  PROVE rest[i] >= rest[j]
    <3>1. i + below - 1 < j + below - 1  BY <2>1, <2>5, <1>5
    <3> QED  BY <3>1, <1>2, <1>5
  <2>6. rest[i] \in Nat \ {0}
    BY <1>2, <1>5
  <2> QED  BY <2>4, <2>5, <2>6
<1> HIDE DEF rest
<1> DEFINE rows == <<base>> \o rest
<1>7. /\ rows \in Seq(Nat \ {0}) /\ Len(rows) = 1 + Len(rest) /\ rows[1] = base
      /\ \A i \in 1..Len(rows) : i # 1 => i - 1 \in 1..Len(rest) /\ rows[i] = rest[i - 1]
  BY <1>5
<1> HIDE DEF rows
<1>8. ASSUME NEW i \in 1..Len(rows), NEW j \in 1..Len(rows), i < j  PROVE rows[i] >= rows[j]
  <2>1. j # 1 /\ j - 1 \in 1..Len(rest) /\ rows[j] = rest[j - 1]
    BY <1>7, <1>8
  <2>2. CASE i = 1
    BY <2>1, <2>2, <1>6, <1>7
  <2>3. CASE i # 1
    <3>1. i - 1 \in 1..Len(rest) /\ rows[i] = rest[i - 1] /\ i - 1 < j - 1
      BY <2>3, <1>5, <1>7, <1>8
    <3> QED  BY <2>1, <3>1, <1>6
  <2> QED  BY <2>2, <2>3
<1>9. Len(rows) \in 1..4
  <2> DEFINE n == Len(rest)
  <2>1. n \in 0..3 /\ Len(rows) = 1 + n  BY <1>5, <1>7
  <2> HIDE DEF n
  <2> QED  BY <2>1
<1> QED  BY <1>3, <1>7, <1>8, <1>9 DEF Descending, rows

LEMMA AttentionRowsAre ==
  ASSUME NEW base \in Nat \ {0}
  PROVE  Descending(AttentionRows(base), base)
<1>1. CASE base < 4
  <2>1. AttentionRows(base) = <<base>>
    BY <1>1 DEF AttentionRows
  <2> QED  BY <2>1 DEF Descending
<1>2. CASE base \in 4..7
  <2>1. AttentionRows(base) = <<base, 4>>
    BY <1>2 DEF AttentionRows
  <2> QED  BY <2>1, <1>2 DEF Descending
<1>3. CASE base > 7
  <2>1. AttentionRows(base) = <<base, 8, 4>>
    BY <1>3 DEF AttentionRows
  <2>2. \A i \in 1..3 : i = 1 \/ i = 2 \/ i = 3
    OBVIOUS
  <2> QED  BY <2>1, <2>2, <1>3 DEF Descending
<1> QED  BY <1>1, <1>2, <1>3

(* What a node is offered: candidates from the top down, scaled by the rows of the
   base. *)
Offered(cs, v, top, base, k) ==
  /\ cs \in Seq(ToSet(cs)) /\ Len(cs) \in 1..4
  /\ cs[1] = Candidate(v, top, base, k)
  /\ \A i \in 1..Len(cs) : \E m \in Nat \ {0} : cs[i] = Candidate(v, m, base, k)
  /\ \A i, j \in 1..Len(cs) : i < j => cs[i].m >= cs[j].m

(* In a prefill the ranks follow the rows, and in a decode there is one candidate. *)
LEMMA RankedAre ==
  ASSUME MemInv, NEW v, NEW top \in Nat \ {0}, NEW base \in Nat \ {0}, NEW k, NEW rows,
         Descending(rows, top),
         scenario.mode = "decode" => Len(rows) = 1
  PROVE  Offered(Ranked([i \in DOMAIN rows |-> Candidate(v, rows[i], base, k)]), v, top, base, k)
<1> DEFINE N == Len(rows)
           cs == [i \in DOMAIN rows |-> Candidate(v, rows[i], base, k)]
           Sorted(p) == \A i, j \in DOMAIN cs :
                          i < j => ~ KeyLess(RankKey(cs[p[j]]), RankKey(cs[p[i]]))
           places == CHOOSE p \in Bijection(DOMAIN cs, DOMAIN cs) : Sorted(p)
           same == [i \in DOMAIN cs |-> i]
           ranked == Ranked(cs)
<1>1. /\ N \in 1..4 /\ DOMAIN rows = 1..N /\ DOMAIN cs = 1..N
      /\ \A i \in 1..N : rows[i] \in Nat \ {0} /\ rows[i] <= top
      /\ rows[1] = top
      /\ \A i, j \in 1..N : i < j => rows[i] >= rows[j]
  <2>1. rows \in Seq(Nat \ {0}) /\ N \in 1..4 /\ rows[1] = top
    BY DEF Descending
  <2>2. DOMAIN rows = 1..N /\ \A i \in 1..N : rows[i] \in Nat \ {0}
    BY <2>1
  <2>3. ASSUME NEW i \in 1..N  PROVE rows[i] <= top
    <3>1. 1 \in 1..N /\ (i = 1 \/ 1 < i)  BY <2>1
    <3> QED  BY <2>1, <2>2, <3>1 DEF Descending
  <2> QED  BY <2>1, <2>2, <2>3 DEF Descending
<1>2. ASSUME NEW i \in 1..N
      PROVE  /\ cs[i] = Candidate(v, rows[i], base, k) /\ cs[i].m = rows[i]
             /\ cs[i].vmem \in Nat /\ cs[i].read \in Nat /\ cs[i].staged \in Nat
  <2>1. cs[i] = Candidate(v, rows[i], base, k)
    BY <1>1
  <2>2. rows[i] \in Nat
    BY <1>1
  <2> DEFINE m == rows[i]
  <2>3. m \in Nat  BY <2>2
  <2> HIDE DEF cs, m
  <2>4. Typed(Candidate(v, m, base, k), m, v)
    BY <2>3, CandidateTyped
  <2>5. cs[i] = Candidate(v, m, base, k)
    BY <2>1 DEF m
  <2>6. /\ cs[i].m = m /\ cs[i].vmem \in Nat /\ cs[i].read \in Nat /\ cs[i].staged \in Nat
    BY <2>4, <2>5 DEF Typed
  <2> QED  BY <2>1, <2>6 DEF m
<1>3. ASSUME NEW i \in 1..N, NEW j \in 1..N, scenario.mode # "decode",
             ~ KeyLess(RankKey(cs[j]), RankKey(cs[i]))
      PROVE  cs[i].m >= cs[j].m
  <2>1. RankKey(cs[i]) = <<-cs[i].m, cs[i].vmem, cs[i].staged>>
    BY <1>3 DEF RankKey
  <2>2. RankKey(cs[j]) = <<-cs[j].m, cs[j].vmem, cs[j].staged>>
    BY <1>3 DEF RankKey
  <2> DEFINE a == RankKey(cs[j])
             b == RankKey(cs[i])
  <2>3. /\ 1 \in DOMAIN a /\ 1..(1 - 1) = {}
        /\ a[1] = -cs[j].m /\ b[1] = -cs[i].m
    <3> HIDE DEF cs
    <3> QED  BY <2>1, <2>2
  <2>6. ~ KeyLess(a, b)
    BY <1>3
  <2> HIDE DEF a, b
  <2>7. ~ (a[1] < b[1])
    BY <2>3, <2>6 DEF KeyLess
  <2>4. ~ (-cs[j].m < -cs[i].m)
    BY <2>3, <2>7
  <2>5. cs[i].m \in Nat /\ cs[j].m \in Nat
    BY <1>1, <1>2
  <2> HIDE DEF cs
  <2> QED  BY <2>4, <2>5
<1>4. ASSUME NEW i \in 1..N, NEW j \in 1..N, i < j
      PROVE  scenario.mode # "decode" /\ ~ KeyLess(RankKey(cs[j]), RankKey(cs[i]))
  <2>1. scenario.mode # "decode"
    BY <1>1, <1>4
  <2>2. rows[i] \in Nat /\ rows[j] \in Nat /\ rows[i] >= rows[j]
    BY <1>1, <1>4
  <2>3. RankKey(cs[i]) = <<-cs[i].m, cs[i].vmem, cs[i].staged>>
    BY <2>1 DEF RankKey
  <2>4. RankKey(cs[j]) = <<-cs[j].m, cs[j].vmem, cs[j].staged>>
    BY <2>1 DEF RankKey
  <2>5. DOMAIN RankKey(cs[j]) = 1..3
    BY <2>4
  <2>6. CASE rows[i] = rows[j]
    <3>1. cs[i] = cs[j]
      BY <2>6, <1>2
    <3>2. \A q \in 1..3 : RankKey(cs[j])[q] \in Int
      <4>1. cs[j].m \in Nat /\ cs[j].vmem \in Nat /\ cs[j].staged \in Nat
        BY <1>2, <2>2
      <4> HIDE DEF cs
      <4> QED  BY <2>4, <4>1
    <3>3. \A x \in Int : ~ (x < x)  OBVIOUS
    <3> QED  BY <2>1, <2>5, <3>1, <3>2, <3>3 DEF KeyLess
  <2>7. CASE rows[i] > rows[j]
    <3>1. cs[i].m = rows[i] /\ cs[j].m = rows[j]
      BY <1>2
    <3>2. RankKey(cs[j])[1] > RankKey(cs[i])[1] /\ RankKey(cs[j])[1] \in Int /\ RankKey(cs[i])[1] \in Int
      <4> HIDE DEF cs
      <4> QED  BY <2>2, <2>3, <2>4, <2>7, <3>1
    <3>3. ~ KeyLess(RankKey(cs[j]), RankKey(cs[i]))
      <4>1. ASSUME NEW q \in 1..3, \A p \in 1..(q - 1) : RankKey(cs[j])[p] = RankKey(cs[i])[p]
            PROVE  q = 1
        <5>1. q # 1 => 1 \in 1..(q - 1)  OBVIOUS
        <5> QED  BY <4>1, <5>1, <3>2
      <4>2. ~ (RankKey(cs[j])[1] < RankKey(cs[i])[1])
        BY <3>2
      <4> QED  BY <2>5, <4>1, <4>2 DEF KeyLess
    <3> QED  BY <2>1, <3>3
  <2> QED  BY <2>2, <2>6, <2>7
<1>5. same \in Bijection(DOMAIN cs, DOMAIN cs) /\ Sorted(same)
  <2>1. same \in [DOMAIN cs -> DOMAIN cs] /\ \A w \in DOMAIN cs : same[w] = w
    OBVIOUS
  <2>2. same \in Bijection(DOMAIN cs, DOMAIN cs)
    <3> HIDE DEF same, cs
    <3> QED  BY <2>1 DEF Bijection, Injection, Surjection, IsInjective
  <2>3. Sorted(same)
    <3> HIDE DEF cs
    <3> QED  BY <1>1, <1>4, <2>1
  <2> QED  BY <2>2, <2>3
<1>6. places \in Bijection(DOMAIN cs, DOMAIN cs) /\ Sorted(places)
  <2> HIDE DEF Sorted, same, cs
  <2> QED  BY <1>5
<1>7. ranked = [i \in DOMAIN cs |-> cs[places[i]]]
  BY DEF Ranked
<1>8. /\ \A i \in 1..N : places[i] \in 1..N
      /\ \E i \in 1..N : places[i] = 1
  <2> HIDE DEF places, cs
  <2>1. places \in [1..N -> 1..N] /\ \A w \in 1..N : \E u \in 1..N : places[u] = w
    BY <1>1, <1>6 DEF Bijection, Injection, Surjection
  <2>2. 1 \in 1..N
    BY <1>1
  <2> QED  BY <2>1, <2>2
<1> HIDE DEF places
<1>9. ranked = [i \in 1..N |-> cs[places[i]]]
  BY <1>1, <1>7
<1> HIDE DEF ranked
<1>10. /\ ranked \in Seq(ToSet(ranked)) /\ Len(ranked) = N
       /\ \A i \in 1..N : ranked[i] = cs[places[i]]
  <2>1. DOMAIN ranked = 1..N /\ \A i \in 1..N : ranked[i] = cs[places[i]]
    BY <1>9
  <2>2. \A i \in 1..N : ranked[i] \in ToSet(ranked)
    BY <2>1 DEF ToSet
  <2> HIDE DEF cs
  <2>3. N \in Nat  BY <1>1
  <2> HIDE DEF N
  <2> QED  BY <1>9, <2>1, <2>2, <2>3
<1>11. ASSUME NEW i \in 1..N
       PROVE  /\ ranked[i] = Candidate(v, rows[places[i]], base, k)
              /\ rows[places[i]] \in Nat \ {0}
              /\ ranked[i].m = rows[places[i]]
  BY <1>1, <1>2, <1>8, <1>10
<1>12. ASSUME NEW i \in 1..N, NEW j \in 1..N, i < j  PROVE ranked[i].m >= ranked[j].m
  <2>1. scenario.mode # "decode"
    BY <1>4, <1>12
  <2>2. ~ KeyLess(RankKey(cs[places[j]]), RankKey(cs[places[i]]))
    <3> HIDE DEF cs
    <3> QED  BY <1>1, <1>6, <1>12
  <2>3. cs[places[i]].m >= cs[places[j]].m
    <3> HIDE DEF cs
    <3> QED  BY <2>1, <2>2, <1>3, <1>8
  <2> HIDE DEF cs
  <2> QED  BY <2>3, <1>10
<1>13. rows[places[1]] = top
  <2>1. PICK i \in 1..N : places[i] = 1
    BY <1>8
  <2>2. 1 \in 1..N /\ (i = 1 \/ 1 < i)
    BY <1>1
  <2>3. ranked[i].m = top /\ ranked[1].m = rows[places[1]]
    BY <2>1, <2>2, <1>1, <1>11
  <2>4. ranked[1].m >= ranked[i].m
    BY <2>2, <2>3, <1>12, <1>1
  <2>5. rows[places[1]] <= top /\ rows[places[1]] \in Nat
    BY <2>2, <1>1, <1>8
  <2> QED  BY <2>3, <2>4, <2>5
<1>14. ranked[1] = Candidate(v, top, base, k)
  BY <1>1, <1>11, <1>13
<1>15. \A i \in 1..N : \E m \in Nat \ {0} : ranked[i] = Candidate(v, m, base, k)
  BY <1>11
<1> HIDE DEF cs
<1>16. Offered(ranked, v, top, base, k)
  BY <1>1, <1>10, <1>12, <1>14, <1>15 DEF Offered
<1> QED  BY <1>16 DEF ranked, cs

-----------------------------------------------------------------------------
(* The rows of the tile that was planned.                                  *)

LEMMA QuotientWhole ==
  ASSUME NEW n \in Nat, NEW d \in Nat \ {0}
  PROVE  (n * d) \div d = n
<1> DEFINE a == n * d
           q == a \div d
           r == a % d
<1>1. a \in Nat  OBVIOUS
<1>2. q \in Nat /\ r \in Nat /\ r < d /\ a = d * q + r
  <2> HIDE DEF a
  <2> QED  BY <1>1, QuotientIs
<1>3. a = d * n + 0  OBVIOUS
<1>4. q <= n /\ n <= q
  <2> HIDE DEF a, q, r
  <2> QED  BY <1>2, <1>3, QuotientOnly
<1>5. q = n  BY <1>2, <1>4
<1> QED  BY <1>5

(* The allocations a node finds under its id are those made for it. *)
LEMMA OwnAre ==
  ASSUME MemInv, NEW i \in Planned
  PROVE  AllocationsOf(nig[i]) = ToSet(Of(i))
<1>1. Planned \subseteq 1..Len(nig) /\ Arguments /\ IsNig(nig) /\ DOMAIN nig = 1..Len(nig)
  BY ArgumentsAre DEF MemInv, Planned
<1>2. ASSUME NEW a \in ToSet(allocations), a.node = nig[i].id  PROVE a \in ToSet(Of(i))
  <2>1. PICK j \in Planned : a \in ToSet(Of(j)) /\ IsAllocation(nig[j], a)
    BY AllocationsAre
  <2>2. nig[j].id = nig[i].id
    BY <2>1, <1>2 DEF IsAllocation
  <2>3. j = i
    BY <2>2, <1>1 DEF IsNig
  <2> QED  BY <2>1, <2>3
<1>3. ASSUME NEW a \in ToSet(Of(i))  PROVE a \in ToSet(allocations) /\ a.node = nig[i].id
  <2>1. a \in ToSet(allocations)
    BY DEF MemInv, ListInv
  <2>2. IsAllocation(nig[i], a)
    BY <1>1, OfAre
  <2> QED  BY <2>1, <2>2 DEF IsAllocation
<1> QED  BY <1>2, <1>3 DEF AllocationsOf

(* A matrix product has an accumulator, behind its inputs and outputs. *)
LEMMA AccumulatorIs ==
  ASSUME MemInv, NEW i \in Planned, nig[i].macro \in GemmLikeMacros
  PROVE  LET v == nig[i]
             tile == TileShape(v, i)
             p == Len(v.inputs) + Len(v.outputs) + 1
         IN  /\ p \in 1..Len(Of(i))
             /\ Of(i)[p] = Temp(v, "accum", "ACTIVATION", AtLeast1(tile.m * tile.n * 4))
<1> DEFINE v == nig[i]
           tile == TileShape(v, i)
           ins == [n \in DOMAIN v.inputs |-> InputAllocation(v, v.inputs[n], i, tile)]
           outs == [n \in DOMAIN v.outputs |-> OutputAllocation(v, v.outputs[n], i, tile)]
           accum == Temp(v, "accum", "ACTIVATION", AtLeast1(tile.m * tile.n * 4))
           wdq == Temp(v, "wdq_reserved", "QUANT_PARAM", 1024)
           misc == Temp(v, "misc", "METADATA", MiscBytes(v, tile))
           second == IF v.quantised THEN <<wdq>> ELSE <<>>
           third == IF v.macro \in VpuTempMacros THEN <<misc>> ELSE <<>>
           temps == <<accum>> \o second \o third
           I == Len(v.inputs)
           O == Len(v.outputs)
           p == I + O + 1
<1>1. v.inputs \in Seq(Tensor) /\ v.outputs \in Seq(Tensor)
  BY PlacedAre DEF IsBoundNode
<1>2. I \in Nat /\ O \in Nat /\ DOMAIN v.inputs = 1..I /\ DOMAIN v.outputs = 1..O
  BY <1>1
<1>3. Of(i) = ins \o outs \o temps
  BY DEF Of, NodeAllocations, Temps
<1>4. /\ ins \in Seq(ToSet(ins)) /\ Len(ins) = I /\ outs \in Seq(ToSet(outs)) /\ Len(outs) = O
  <2> HIDE DEF tile
  <2>1. ins \in Seq(ToSet(ins)) /\ Len(ins) = I
    BY <1>2 DEF ToSet
  <2>2. outs \in Seq(ToSet(outs)) /\ Len(outs) = O
    BY <1>2 DEF ToSet
  <2> QED  BY <2>1, <2>2
<1> DEFINE T == {accum, wdq, misc}
<1>5. second \in Seq(T) /\ third \in Seq(T) /\ <<accum>> \in Seq(T)
  <2> HIDE DEF accum, wdq, misc
  <2>1. ASSUME NEW c \in BOOLEAN, NEW x \in T  PROVE (IF c THEN <<x>> ELSE <<>>) \in Seq(T)
    <3> HIDE DEF T
    <3>1. CASE c  BY <3>1
    <3>2. CASE ~ c  BY <3>2
    <3> QED  BY <3>1, <3>2
  <2>2. v.quantised \in BOOLEAN
    BY PlacedAre DEF IsBoundNode
  <2>3. accum \in T /\ wdq \in T /\ misc \in T
    OBVIOUS
  <2>4. <<accum>> \in Seq(T)
    <3> HIDE DEF T
    <3> QED  BY <2>3
  <2> HIDE DEF T
  <2>5. second \in Seq(T)  BY <2>1, <2>2, <2>3
  <2>6. third \in Seq(T)  BY <2>1, <2>3
  <2> QED  BY <2>4, <2>5, <2>6
<1> HIDE DEF accum, second, third
<1>6. temps \in Seq(T) /\ Len(temps) >= 1 /\ Len(temps) \in Nat /\ temps[1] = accum
  <2> HIDE DEF T
  <2> QED  BY <1>5
<1> HIDE DEF temps, ins, outs, I, O
<1> DEFINE X == ToSet(ins) \cup ToSet(outs) \cup T
           both == ins \o outs
<1>7. ins \in Seq(X) /\ outs \in Seq(X) /\ temps \in Seq(X)
  BY <1>4, <1>6
<1> HIDE DEF X, T
<1>8. both \in Seq(X) /\ Len(both) = I + O
  BY <1>4, <1>7
<1> HIDE DEF both
<1> DEFINE all == both \o temps
<1>9. Len(all) = I + O + Len(temps) /\ p \in 1..Len(all) /\ all[p] = temps[1]
  <2>0. both \in Seq(X) /\ temps \in Seq(X)
    BY <1>7, <1>8
  <2>1. Len(all) = Len(both) + Len(temps)
    <3> HIDE DEF p
    <3> QED  BY <2>0
  <2>2. p \in 1..Len(all) /\ p > Len(both) /\ p - Len(both) = 1
    BY <2>1, <1>2, <1>6, <1>8
  <2>3. \A n \in 1..Len(all) : all[n] = IF n <= Len(both) THEN both[n] ELSE temps[n - Len(both)]
    <3> HIDE DEF p
    <3> QED  BY <2>0
  <2>4. ~ (p <= Len(both))
    BY <2>2, <1>2, <1>8
  <2> HIDE DEF all
  <2> QED  BY <2>1, <2>2, <2>3, <2>4, <1>8
<1>10. Of(i) = all
  BY <1>3 DEF both
<1> HIDE DEF all, p
<1> QED  BY <1>6, <1>9, <1>10 DEF p, I, O, accum

(* A row at least of an accumulator planned for m rows of n, no more rows of another
   width than it has room for, and the m planned ones if the width is the same. *)
HasRoom(m, n, wide, rows) ==
  /\ rows \in Nat \ {0}
  /\ rows > 1 => rows * wide <= m * n
  /\ wide = n => rows = m
  /\ m = 1 /\ ~ (wide < n) => rows = 1

LEMMA RoomIs ==
  ASSUME NEW m \in Nat \ {0}, NEW n \in Nat \ {0}, NEW wide \in Nat \ {0}
  PROVE  HasRoom(m, n, wide, AtLeast1((m * n * 4) \div (wide * 4)))
<1> DEFINE a == m * n * 4
           d == wide * 4
           q == a \div d
           rest == a % d
           rows == AtLeast1(q)
<1>1. a \in Nat /\ d \in Nat \ {0} /\ m * n \in Nat
  BY ProductPositive
<1>2. q \in Nat /\ rest \in Nat /\ a = d * q + rest
  <2> HIDE DEF a, d
  <2> QED  BY <1>1, QuotientIs
<1>3. rows \in Nat \ {0} /\ (q >= 1 => rows = q) /\ (rows > 1 => rows = q)
  <2> HIDE DEF q
  <2> QED  BY <1>2 DEF AtLeast1
<1>4. q * wide <= m * n
  <2> DEFINE x == q * wide
             y == m * n
  <2>1. x \in Nat /\ y \in Nat /\ d * q = 4 * x /\ a = 4 * y
    <3> HIDE DEF q
    <3> QED  BY <1>2
  <2>2. 4 * x <= 4 * y
    <3> HIDE DEF x, y, a, d, q, rest
    <3> QED  BY <1>2, <2>1
  <2> HIDE DEF x, y
  <2>3. x <= y  BY <2>1, <2>2
  <2> QED  BY <2>3 DEF x, y
<1>5. rows > 1 => rows * wide <= m * n
  <2> HIDE DEF rows, q
  <2> QED  BY <1>3, <1>4
<1>6. ASSUME wide = n  PROVE rows = m
  <2>1. a = m * d
    BY <1>6
  <2>2. q = m
    <3>1. (m * d) \div d = m
      <4> HIDE DEF d
      <4> QED  BY <1>1, QuotientWhole
    <3> HIDE DEF a, d
    <3> QED  BY <2>1, <3>1
  <2> HIDE DEF q, rows
  <2> QED  BY <2>2, <1>3
<1>7. ASSUME m = 1, ~ (wide < n)  PROVE rows = 1
  <2> SUFFICES ASSUME rows > 1 PROVE FALSE
    <3> HIDE DEF rows
    <3> QED  BY <1>3
  <2> HIDE DEF rows, q
  <2>1. rows * wide <= n
    BY <1>5, <1>7
  <2>2. rows * wide >= 2 * wide
    BY <1>3
  <2>3. rows * wide \in Nat
    BY <1>3
  <2> QED  BY <2>1, <2>2, <2>3, <1>7
<1> HIDE DEF rows
<1>8. HasRoom(m, n, wide, rows)
  BY <1>3, <1>5, <1>6, <1>7 DEF HasRoom
<1> QED  BY <1>8 DEF rows, q, a, d

(* So the rows that tile.py divides out of its bytes are at most those there is room
   for, and those of the planned tile if the MXU is as wide. *)
LEMMA AccumulatedAre ==
  ASSUME MemInv, mxu \in Mxus, NEW i \in Planned, nig[i].macro \in GemmLikeMacros
  PROVE  LET v == nig[i]
             tile == TileShape(v, i)
             base == AccumulatedRows(v)
             wide == TileColumns(v)
         IN  /\ base \in Nat \ {0} /\ wide \in Nat \ {0}
             /\ base > 1 => base * wide <= tile.m * tile.n
             /\ wide = tile.n => base = tile.m
             /\ scenario.mode = "decode" => tile.m = 1
             /\ scenario.mode = "decode" /\ ~ (wide < tile.n) => base = 1
<1> DEFINE v == nig[i]
           tile == TileShape(v, i)
           p == Len(v.inputs) + Len(v.outputs) + 1
           accum == {a \in AllocationsOf(v) : a.region = "accum" /\ a.tensor = "accum"}
           bytes == Total(allocations, accum)
           base == AccumulatedRows(v)
           wide == TileColumns(v)
<1>1. /\ Arguments /\ IsBoundNode(v) /\ tile \in Tile
      /\ Of(i) \in Seq(ToSet(Of(i)))
      /\ Len(v.inputs) \in Nat /\ Len(v.outputs) \in Nat
      /\ \A n \in 1..Len(Of(i)) : StandsAt(v, i, n, Of(i)[n])
  BY PlacedAre
<1>2. /\ tile.m \in Nat \ {0} /\ tile.n \in Nat \ {0} /\ wide \in Nat \ {0}
      /\ scenario.mode = "decode" => tile.m = 1
  <2>1. tile = GemmTile(v, i)
    BY DEF TileShape, GemmLikeMacros, StreamingMacros, SdpaMacros
  <2>2. wide \in Nat \ {0}
    BY <1>1, MeasuresPositive, MxusAssumption DEF TileColumns, Smaller
  <2> HIDE DEF wide
  <2> QED  BY <1>1, <2>1, <2>2, GemmTileIs DEF Tile
<1>3. /\ p \in 1..Len(Of(i))
      /\ Of(i)[p] = Temp(v, "accum", "ACTIVATION", AtLeast1(tile.m * tile.n * 4))
  BY AccumulatorIs
<1>4. /\ Of(i)[p].region = "accum" /\ Of(i)[p].tensor = "accum"
      /\ Of(i)[p].size = AtLeast1(tile.m * tile.n * 4)
  BY <1>3 DEF Temp, Place
<1>5. accum \in SUBSET ToSet(Of(i))
  BY OwnAre
<1>6. bytes = Total(Of(i), accum)
  <2> HIDE DEF accum
  <2> QED  BY <1>5 DEF MemInv, ListInv
<1>7. ASSUME NEW n \in 1..Len(Of(i)), Of(i)[n].region = "accum"  PROVE n = p
  <2> DEFINE a == Of(i)[n]
             I == Len(v.inputs)
             O == Len(v.outputs)
  <2>1. I \in Nat /\ O \in Nat /\ n \in Int /\ p = I + O + 1 /\ a.region = "accum"
    BY <1>1, <1>7
  <2>2. \/ IsInput(v, v.inputs[n], tile, a)
        \/ IsOutput(v, v.outputs[n - I], tile, a)
        \/ IsTemp(v, n - (I + O), tile, a)
    BY <1>1 DEF StandsAt
  <2> HIDE DEF a, tile, v, p, I, O
  <2>3. n - (I + O) = 1
    BY <2>1, <2>2 DEF IsInput, IsOutput, IsTemp
  <2> QED  BY <2>1, <2>3
<1>8. \A n \in 1..Len(Of(i)) : Of(i)[n] \in accum <=> n = p
  <2>1. \A n \in 1..Len(Of(i)) : Of(i)[n] \in accum => n = p
    BY <1>7
  <2>2. Of(i)[p] \in ToSet(Of(i))
    <3> HIDE DEF p
    <3> QED  BY <1>1, <1>3
  <2>3. Of(i)[p] \in accum
    BY <2>2, <1>4, OwnAre
  <2> HIDE DEF accum, p
  <2> QED  BY <2>1, <2>3
<1>9. \A a \in ToSet(Of(i)) : a.size \in Nat
  <2>1. i \in 1..Len(nig)
    BY ArgumentsAre DEF MemInv, Planned
  <2> QED  BY <1>1, <2>1, OfAre DEF IsAllocation
<1>10. bytes = AtLeast1(tile.m * tile.n * 4)
  <2> HIDE DEF accum, p, bytes, v, tile
  <2> QED  BY <1>1, <1>3, <1>4, <1>6, <1>8, <1>9, TotalOne
<1>11. bytes = tile.m * tile.n * 4 /\ bytes > 0
  <2> DEFINE m == tile.m
             n == tile.n
  <2>1. m \in Nat \ {0} /\ n \in Nat \ {0}
    BY <1>2
  <2>2. bytes = AtLeast1(m * n * 4)
    BY <1>10
  <2> HIDE DEF m, n, bytes
  <2>3. m * n * 4 \in Nat \ {0}
    BY <2>1
  <2>4. bytes = m * n * 4 /\ bytes > 0
    BY <2>2, <2>3 DEF AtLeast1
  <2> QED  BY <2>4 DEF m, n
<1>12. base = IF bytes > 0 THEN AtLeast1(bytes \div (wide * 4)) ELSE FallbackM(v)
  BY DEF AccumulatedRows
<1>13. base = AtLeast1((tile.m * tile.n * 4) \div (wide * 4))
  <2> HIDE DEF bytes, base, wide, tile
  <2> QED  BY <1>11, <1>12
<1> DEFINE m == tile.m
           n == tile.n
<1>14. m \in Nat \ {0} /\ n \in Nat \ {0} /\ base = AtLeast1((m * n * 4) \div (wide * 4))
  BY <1>2, <1>13
<1> HIDE DEF base, wide, tile, m, n
<1>15. HasRoom(m, n, wide, base)
  BY <1>2, <1>14, RoomIs
<1> QED  BY <1>2, <1>15 DEF HasRoom, base, wide, tile, m, n

(* What the first candidate's rows are to the planned tile, and to the base that the
   allocations are scaled by. *)
Tops(v, tile, top, base) ==
  /\ top \in Nat \ {0} /\ base \in Nat \ {0} /\ top <= base
  /\ v.macro \in GemmLikeMacros /\ top > 1 => top * TileColumns(v) <= tile.m * tile.n
  /\ SameRows(v) /\ (v.macro \in GemmLikeMacros => TileColumns(v) = tile.n) => top = tile.m
  /\ ~ (scenario.mode = "decode" /\ v.macro \in GemmLikeMacros /\ TileColumns(v) < tile.n) =>
       top = base

(* A node is offered nothing, or candidates from the top down. *)
LEMMA NodeOffered ==
  ASSUME MemInv, mxu \in Mxus, NEW i \in Planned, NodeCandidates(nig[i]) # <<>>
  PROVE  \E top, base, k : /\ Offered(NodeCandidates(nig[i]), nig[i], top, base, k)
                           /\ Tops(nig[i], TileShape(nig[i], i), top, base)
<1> DEFINE v == nig[i]
           tile == TileShape(v, i)
<1>1. /\ Arguments /\ IsBoundNode(v) /\ scenario.mode \in {"prefill", "decode"}
      /\ scenario.query \in Nat \ {0}
  BY PlacedAre, ArgumentsAre DEF IsScenario
<1>2. v.macro \in GemmLikeMacros \cup SdpaMacros
  BY DEF NodeCandidates
<1>3. CASE v.macro \in GemmLikeMacros
  <2> DEFINE base == AccumulatedRows(v)
             decode == scenario.mode = "decode"
             top == IF decode THEN 1 ELSE base
             k == Smaller(mxu.rows, AtLeast1(v.kTile))
             rows == IF decode THEN <<1>> ELSE PrefillRows(base)
             cs == [n \in DOMAIN rows |-> Candidate(v, rows[n], base, k)]
             wide == TileColumns(v)
  <2>1. /\ base \in Nat \ {0} /\ wide \in Nat \ {0}
        /\ base > 1 => base * wide <= tile.m * tile.n
        /\ wide = tile.n => base = tile.m
        /\ decode => tile.m = 1
        /\ decode /\ ~ (wide < tile.n) => base = 1
    BY <1>3, AccumulatedAre
  <2>2. NodeCandidates(v) = Ranked(cs)
    BY <1>3 DEF NodeCandidates, GemmCandidates, GemmLikeMacros, SdpaMacros
  <2> HIDE DEF base, cs, k
  <2>3. top \in Nat \ {0} /\ top <= base
    BY <2>1
  <2>4. Descending(rows, top) /\ (decode => Len(rows) = 1)
    BY <2>1, OneRow, PrefillRowsAre
  <2>5. Tops(v, tile, top, base)
    <3>1. top > 1 => ~ decode /\ top = base
      OBVIOUS
    <3>2. wide = tile.n => top = tile.m
      BY <2>1
    <3>3. ~ (decode /\ wide < tile.n) => top = base
      BY <2>1
    <3> HIDE DEF top, tile, decode
    <3> QED  BY <1>3, <2>1, <2>3, <3>1, <3>2, <3>3 DEF Tops, decode
  <2> HIDE DEF rows, top
  <2>6. Offered(Ranked(cs), v, top, base, k)
    BY <2>1, <2>3, <2>4, RankedAre DEF cs
  <2> QED  BY <2>2, <2>5, <2>6
<1>4. CASE v.macro \in SdpaMacros
  <2> DEFINE base == AttentionBase(v)
             rows == AttentionRows(base)
             k == Smaller(mxu.rows, AtLeast1(HeadDim(v, scenario)))
             cs == [n \in DOMAIN rows |-> Candidate(v, rows[n], base, k)]
             wide == Smaller(LogicalN(v), 128)
             high == Smaller(LogicalM(v), IF scenario.mode = "decode" THEN 1 ELSE 16)
  <2>1. LogicalM(v) \in Nat \ {0} /\ LogicalN(v) \in Nat \ {0}
    BY <1>1, MeasuresPositive
  <2>2. tile = Square(high, wide)
    BY <1>4 DEF TileShape, GemmLikeMacros, StreamingMacros, SdpaMacros
  <2>3. high \in Nat \ {0}
    BY <2>1 DEF Smaller
  <2>4. tile.m = high
    <3> HIDE DEF high, wide, tile
    <3> QED  BY <2>2, <2>3 DEF Square, AtLeast1
  <2>5. base = IF scenario.mode = "decode" \/ v.macro = "SDPA_DECODE" THEN 1
               ELSE Smaller(scenario.query, 16)
    BY <1>1 DEF AttentionBase, AtLeast1, Smaller
  <2>6. base \in Nat \ {0}
    BY <1>1, <2>5 DEF Smaller
  <2>7. SameRows(v) => base = tile.m
    <3>1. CASE scenario.mode = "decode"
      <4>1. base = 1  BY <3>1, <2>5
      <4>2. high = 1  BY <3>1, <2>1 DEF Smaller
      <4> QED  BY <4>1, <4>2, <2>4
    <3>2. CASE scenario.mode = "prefill" /\ SameRows(v)
      <4>1. v.macro = "SDPA" /\ Smaller(LogicalM(v), 16) = Smaller(scenario.query, 16)
        BY <3>2, <1>4 DEF SameRows
      <4>2. base = Smaller(scenario.query, 16)  BY <3>2, <4>1, <2>5
      <4>3. high = Smaller(LogicalM(v), 16)  BY <3>2
      <4> QED  BY <4>1, <4>2, <4>3, <2>4
    <3> QED  BY <1>1, <3>1, <3>2
  <2>8. NodeCandidates(v) = Ranked(cs)
    BY <1>4 DEF NodeCandidates, AttentionCandidates, GemmLikeMacros, SdpaMacros
  <2>9. scenario.mode = "decode" => Len(rows) = 1
    <3>1. scenario.mode = "decode" => base = 1  BY <2>5
    <3>2. AttentionRows(1) = <<1>>  BY DEF AttentionRows
    <3>3. Len(<<1>>) = 1  OBVIOUS
    <3> HIDE DEF base
    <3> QED  BY <3>1, <3>2, <3>3
  <2> HIDE DEF base, cs
  <2>10. Descending(rows, base)
    BY <2>6, AttentionRowsAre
  <2> HIDE DEF rows, k
  <2>11. Offered(Ranked(cs), v, base, base, k)
    BY <2>6, <2>9, <2>10, RankedAre DEF cs
  <2>12. v.macro \notin GemmLikeMacros
    BY <1>4 DEF GemmLikeMacros, SdpaMacros
  <2>13. Tops(v, tile, base, base)
    <3> HIDE DEF tile, v
    <3> QED  BY <2>6, <2>7, <2>12 DEF Tops
  <2> QED  BY <2>8, <2>11, <2>13
<1> QED  BY <1>2, <1>3, <1>4

-----------------------------------------------------------------------------
(* The invariant of the tile planner.                                      *)

(* What a node is offered does not change once the memory is planned: nor does the MXU. *)
LEMMA CandidatesStay ==
  ASSUME UNCHANGED <<vars, mxu>>
  PROVE  \A v : NodeCandidates(v)' = NodeCandidates(v)
<1>1. UNCHANGED <<nig, scenario, allocations, bindings, mxu>>
  BY DEF vars
<1>2. \A m, base : Scaled(m, base)' = Scaled(m, base)
  BY <1>1 DEF Scaled
<1>3. \A v : AllocationsOf(v)' = AllocationsOf(v)
  BY <1>1 DEF AllocationsOf
<1>7. \A v : TileColumns(v)' = TileColumns(v)
  BY <1>1 DEF TileColumns
<1>4. ASSUME NEW v, NEW m, NEW base, NEW k
      PROVE  Candidate(v, m, base, k)' = Candidate(v, m, base, k)
  <2> DEFINE Own(scaled) == {a \in ToSet(scaled) : a.node = v.id}
             Claims(scaled, bound, wide) ==
               [id |-> <<v.id, m, wide, k>>, node |-> v.id, m |-> m, n |-> wide, k |-> k,
                read |-> Total(scaled, WithRole(Own(scaled),
                                         {"input", "weight", "quant_param", "kv_cache"})),
                write |-> Total(scaled, WithRole(Own(scaled), {"output"})),
                vmem |-> Total(scaled, {a \in Own(scaled) : a.region \in Region}),
                pressure |-> [r \in Region |-> Total(scaled, {a \in Own(scaled) : a.region = r})],
                staged |-> Total(scaled,
                             {a \in WithRole(Own(scaled), {"weight", "quant_param", "kv_cache"}) :
                                a.binding \in bound}),
                aligned |-> QuantAligned(v, k)]
  <2>1. Candidate(v, m, base, k) = Claims(Scaled(m, base), DOMAIN bindings, TileColumns(v))
    BY DEF Candidate
  <2>2. Candidate(v, m, base, k)' = Claims(Scaled(m, base)', DOMAIN (bindings'), TileColumns(v)')
    BY DEF Candidate
  <2> HIDE DEF Claims
  <2> QED  BY <1>1, <1>2, <1>7, <2>1, <2>2
<1>5. \A v : AccumulatedRows(v)' = AccumulatedRows(v)
  BY <1>1, <1>3, <1>7 DEF AccumulatedRows
<1>6. \A v : AttentionBase(v)' = AttentionBase(v)
  BY <1>1 DEF AttentionBase
<1>8. ASSUME NEW cs  PROVE Ranked(cs)' = Ranked(cs)
  <2> DEFINE Key(mode, c) ==
               IF mode = "decode" THEN <<c.vmem, c.read, c.m>> ELSE <<-c.m, c.vmem, c.staged>>
             Placing(mode) == CHOOSE p \in Bijection(DOMAIN cs, DOMAIN cs) :
                               \A i, j \in DOMAIN cs :
                                 i < j => ~ KeyLess(Key(mode, cs[p[j]]), Key(mode, cs[p[i]]))
             InMode(mode) == [i \in DOMAIN cs |-> cs[Placing(mode)[i]]]
  <2>1. Ranked(cs) = InMode(scenario.mode)
    BY DEF Ranked, RankKey
  <2>2. Ranked(cs)' = InMode(scenario'.mode)
    BY DEF Ranked, RankKey
  <2> HIDE DEF InMode
  <2> QED  BY <1>1, <2>1, <2>2
<1>9. \A v : GemmCandidates(v)' = GemmCandidates(v)
  BY <1>1, <1>4, <1>5 DEF GemmCandidates
<1>10. \A v : AttentionCandidates(v)' = AttentionCandidates(v)
  BY <1>1, <1>4, <1>6 DEF AttentionCandidates
<1> QED  BY <1>8, <1>9, <1>10 DEF NodeCandidates

LEMMA PassedStay ==
  ASSUME UNCHANGED <<vars, mxu>>
  PROVE  \A i : NodeCandidates(nig[i])' = NodeCandidates(nig[i])
<1>1. nig' = nig
  BY DEF vars
<1>2. \A v : NodeCandidates(v)' = NodeCandidates(v)
  BY CandidatesStay
<1>3. ASSUME NEW i  PROVE NodeCandidates(nig[i])' = NodeCandidates(nig[i])
  <2> DEFINE v == nig[i]
  <2>1. v' = v  BY <1>1
  <2> QED  BY <1>1, <1>2, <2>1
<1> QED  BY <1>3

(* The memory is planned first; then the nodes are passed in their order. *)
TileInv ==
  /\ MemInv /\ mxu \in Mxus
  /\ phase = "done" => index > Len(nig)
  /\ phase # "done" => candidates = <<>>
  /\ candidates \in Seq(ToSet(candidates)) /\ Len(candidates) <= Len(nig)
  /\ \A i \in 1..Len(candidates) : candidates[i] = NodeCandidates(nig[i])

LEMMA TileInitInv ==
  ASSUME TileInit
  PROVE  TileInv
<1>1. MemInv /\ Arguments
  BY InitInv DEF TileInit, MemInv
<1>2. Len(nig) \in Nat
  BY <1>1, ArgumentsAre
<1>3. candidates = <<>> /\ phase = "plan" /\ mxu \in Mxus
  BY DEF TileInit, Init
<1> QED  BY <1>1, <1>2, <1>3 DEF TileInv

LEMMA TileNextInv ==
  ASSUME TileInv, [TileNext]_<<vars, mxu, candidates>>
  PROVE  TileInv'
<1>1. MemInv'
  BY NextInv DEF TileInv, TileNext, PlanMemory, TileNode
<1>2. Len(nig) \in Nat /\ nig' = nig /\ mxu' \in Mxus
  <2>0. mxu' \in Mxus  BY DEF TileInv, TileNext, PlanMemory, TileNode
  <2>1. Arguments  BY DEF TileInv, MemInv
  <2>2. nig' = nig
    BY DEF TileNext, PlanMemory, TileNode, Next, PlanNode, Refuse, Conclude, vars
  <2> QED  BY <2>0, <2>1, <2>2, ArgumentsAre
<1>3. CASE PlanMemory
  <2>1. phase = "plan" /\ candidates' = candidates /\ (phase' = "done" => index' > Len(nig'))
    BY <1>2, <1>3 DEF PlanMemory, Next, PlanNode, Refuse, Conclude
  <2>2. candidates' = <<>>
    BY <2>1 DEF TileInv
  <2> QED  BY <1>1, <1>2, <2>1, <2>2 DEF TileInv
<1>4. CASE TileNode
  <2>1. /\ UNCHANGED <<vars, mxu>> /\ phase = "done" /\ Len(candidates) < Len(nig)
        /\ candidates' = Append(candidates, NodeCandidates(nig[Len(candidates) + 1]))
    BY <1>4 DEF TileNode
  <2>2. phase' = phase /\ index' = index
    BY <2>1 DEF vars
  <2> DEFINE next == NodeCandidates(nig[Len(candidates) + 1])
             n == Len(candidates)
             X == ToSet(candidates) \cup {next}
  <2>4. candidates \in Seq(X) /\ n \in Nat /\ next \in X
    BY DEF TileInv
  <2>5. candidates' = Append(candidates, next)
    BY <2>1
  <2> HIDE DEF X, next
  <2>6. /\ candidates' \in Seq(X) /\ Len(candidates') = n + 1
        /\ \A i \in 1..n : candidates'[i] = candidates[i]
        /\ candidates'[n + 1] = next
    BY <2>4, <2>5
  <2>7. candidates' \in Seq(ToSet(candidates'))
    BY <2>6 DEF ToSet
  <2>8. ASSUME NEW i \in 1..Len(candidates')  PROVE candidates'[i] = NodeCandidates(nig[i])
    <3>1. i \in 1..n \/ i = n + 1
      BY <2>4, <2>6
    <3>2. i \in 1..n => candidates[i] = NodeCandidates(nig[i])
      BY DEF TileInv
    <3> QED  BY <3>1, <3>2, <2>6 DEF next
  <2>9. \A i \in 1..Len(candidates') : candidates'[i] = NodeCandidates(nig[i])'
    <3>1. ASSUME NEW i \in 1..Len(candidates')  PROVE candidates'[i] = NodeCandidates(nig[i])'
      <4>1. NodeCandidates(nig[i])' = NodeCandidates(nig[i])
        BY <2>1, PassedStay
      <4> QED  BY <2>8, <4>1
    <3> QED  BY <3>1
  <2>10. Len(candidates') <= Len(nig') /\ (phase' = "done" => index' > Len(nig'))
    BY <1>2, <2>1, <2>2, <2>4, <2>6 DEF TileInv
  <2> QED  BY <1>1, <1>2, <2>1, <2>2, <2>7, <2>9, <2>10 DEF TileInv
<1>5. CASE UNCHANGED <<vars, mxu, candidates>>
  <2>1. \A i : NodeCandidates(nig[i])' = NodeCandidates(nig[i])
    BY <1>5, PassedStay
  <2>2. phase' = phase /\ index' = index /\ candidates' = candidates
    BY <1>5 DEF vars
  <2> QED  BY <1>1, <1>2, <2>1, <2>2 DEF TileInv
<1> QED  BY <1>3, <1>4, <1>5 DEF TileNext

LEMMA TileInvariance == TileSpec => []TileInv
<1>1. TileInit => TileInv
  BY TileInitInv
<1>2. TileInv /\ [TileNext]_<<vars, mxu, candidates>> => TileInv'
  BY TileNextInv
<1> QED  BY <1>1, <1>2, PTL DEF TileSpec

(* So a node that was passed is one that the memory was planned for. *)
LEMMA PassedAre ==
  ASSUME TileInv, NEW i \in DOMAIN candidates
  PROVE  MemInv /\ mxu \in Mxus /\ i \in Planned /\ candidates[i] = NodeCandidates(nig[i])
<1>1. /\ i \in 1..Len(candidates) /\ Len(candidates) \in Nat /\ Len(candidates) <= Len(nig)
      /\ Len(nig) \in Nat
  BY ArgumentsAre DEF TileInv, MemInv
<1>2. phase = "done"
  BY <1>1 DEF TileInv
<1>3. index > Len(nig) /\ index \in Nat
  BY <1>1, <1>2 DEF TileInv, MemInv
<1>4. i \in Planned
  BY <1>1, <1>3 DEF Planned
<1> QED  BY <1>1, <1>4 DEF TileInv

(* The first candidate has the rows of the top, and holds what was allocated, or less. *)
LEMMA TopIs ==
  ASSUME TileInv
  PROVE  TopIsPlanned
<1> SUFFICES ASSUME NEW i \in DOMAIN candidates, candidates[i] # <<>>
             PROVE  LET v == nig[i]
                        top == Head(candidates[i])
                        tile == TileShape(v, i)
                        allocated(r) ==
                          Total(allocations, {a \in AllocationsOf(v) : a.region = r})
                        product == v.macro \in GemmLikeMacros
                    IN  /\ product /\ top.m > 1 => top.m * top.n <= tile.m * tile.n
                        /\ SameRows(v) /\ (product => top.n = tile.n) => top.m = tile.m
                        /\ \A r \in Region : top.pressure[r] <= allocated(r)
                        /\ ~ PartOfPlan(v, top, tile) =>
                             \A r \in Region : top.pressure[r] = allocated(r)
  BY DEF TopIsPlanned
<1> DEFINE v == nig[i]
           cs == candidates[i]
           tile == TileShape(v, i)
           allocated(r) == Total(allocations, {a \in AllocationsOf(v) : a.region = r})
<1>1. MemInv /\ mxu \in Mxus /\ i \in Planned /\ cs = NodeCandidates(v)
  BY PassedAre
<1>2. PICK top, base, k : Offered(cs, v, top, base, k) /\ Tops(v, tile, top, base)
  BY <1>1, NodeOffered
<1> HIDE DEF v, cs, tile
<1>3. top \in Nat \ {0} /\ base \in Nat \ {0} /\ top <= base
  BY <1>2 DEF Tops
<1>4. Head(cs) = Candidate(v, top, base, k)
  <2>1. cs \in Seq(ToSet(cs)) /\ Len(cs) \in 1..4 /\ cs[1] = Candidate(v, top, base, k)
    BY <1>2 DEF Offered
  <2>2. Head(cs) = cs[1]
    BY <2>1
  <2> QED  BY <2>1, <2>2
<1>5. Head(cs).m = top /\ Head(cs).n = TileColumns(v)
  <2>1. Typed(Candidate(v, top, base, k), top, v)
    BY <1>1, <1>3, CandidateTyped
  <2> QED  BY <2>1, <1>4 DEF Typed
<1>6. ASSUME NEW r \in Region
      PROVE  /\ Head(cs).pressure[r] <= allocated(r)
             /\ top = base => Head(cs).pressure[r] = allocated(r)
  <2>1. Candidate(v, base, base, k).pressure[r] = allocated(r)
    <3>1. AsAllocated(Candidate(v, base, base, k), v, r)
      BY <1>1, <1>3, CandidateAtBase
    <3> QED  BY <3>1 DEF AsAllocated, v
  <2>2. Candidate(v, top, base, k).pressure[r] <= Candidate(v, base, base, k).pressure[r]
    BY <1>1, <1>3, CandidateOrder
  <2> HIDE DEF allocated
  <2> QED  BY <1>4, <2>1, <2>2
<1>7. ~ PartOfPlan(v, Head(cs), tile) => top = base
  BY <1>2, <1>5 DEF Tops, PartOfPlan
<1>8. /\ v.macro \in GemmLikeMacros /\ Head(cs).m > 1 =>
            Head(cs).m * Head(cs).n <= tile.m * tile.n
      /\ SameRows(v) /\ (v.macro \in GemmLikeMacros => Head(cs).n = tile.n) =>
            Head(cs).m = tile.m
  BY <1>2, <1>5 DEF Tops
<1> HIDE DEF allocated
<1> QED  BY <1>6, <1>7, <1>8 DEF v, cs, tile, allocated

(* The pairs of ranks, and the weights that every one of them reads. *)
LEMMA RanksAre ==
  ASSUME TileInv
  PROVE  RanksShrink
<1> SUFFICES ASSUME NEW i \in DOMAIN candidates
             PROVE  LET cs == candidates[i]
                        stored == WithRole(AllocationsOf(nig[i]), {"weight", "quant_param"})
                    IN  /\ Len(cs) <= 4
                        /\ \A p, q \in DOMAIN cs : p < q =>
                             /\ cs[p].m >= cs[q].m
                             /\ cs[p].read >= cs[q].read /\ cs[p].write >= cs[q].write
                             /\ \A r \in Region : cs[p].pressure[r] >= cs[q].pressure[r]
                        /\ \A p \in DOMAIN cs : cs[p].read >= Total(allocations, stored)
  BY DEF RanksShrink
<1> DEFINE v == nig[i]
           cs == candidates[i]
           stored == WithRole(AllocationsOf(v), {"weight", "quant_param"})
<1>1. MemInv /\ mxu \in Mxus /\ i \in Planned /\ cs = NodeCandidates(v)
  BY PassedAre
<1>2. CASE cs = <<>>
  <2>1. Len(cs) = 0 /\ DOMAIN cs = {}
    BY <1>2
  <2> HIDE DEF cs, stored, v
  <2>2. Len(cs) <= 4 /\ \A p \in DOMAIN cs : FALSE
    BY <2>1
  <2> QED  BY <2>2 DEF cs, stored, v
<1>3. CASE cs # <<>>
  <2>1. PICK top, base, k : base \in Nat \ {0} /\ Offered(cs, v, top, base, k)
    BY <1>1, <1>3, NodeOffered DEF Tops
  <2> HIDE DEF cs, v
  <2>2. Len(cs) \in 1..4 /\ DOMAIN cs = 1..Len(cs)
    BY <2>1 DEF Offered
  <2>3. ASSUME NEW p \in DOMAIN cs
        PROVE  \E m \in Nat \ {0} : cs[p] = Candidate(v, m, base, k) /\ cs[p].m = m
    <3>1. PICK m \in Nat \ {0} : cs[p] = Candidate(v, m, base, k)
      BY <2>1, <2>2 DEF Offered
    <3>2. Typed(Candidate(v, m, base, k), m, v)
      BY <1>1, <2>1, CandidateTyped
    <3> QED  BY <3>1, <3>2 DEF Typed
  <2>4. ASSUME NEW p \in DOMAIN cs, NEW q \in DOMAIN cs, p < q
        PROVE  /\ cs[p].m >= cs[q].m
               /\ cs[q].read <= cs[p].read /\ cs[q].write <= cs[p].write
               /\ \A r \in Region : cs[q].pressure[r] <= cs[p].pressure[r]
    <3>1. cs[p].m >= cs[q].m
      BY <2>1, <2>2, <2>4 DEF Offered
    <3>2. PICK m \in Nat \ {0} : cs[p] = Candidate(v, m, base, k) /\ cs[p].m = m
      BY <2>3
    <3>3. PICK l \in Nat \ {0} : cs[q] = Candidate(v, l, base, k) /\ cs[q].m = l
      BY <2>3
    <3>4. l \in Nat /\ m \in Nat /\ l <= m
      BY <3>1, <3>2, <3>3
    <3>5. /\ Candidate(v, l, base, k).read <= Candidate(v, m, base, k).read
          /\ Candidate(v, l, base, k).write <= Candidate(v, m, base, k).write
          /\ \A r \in Region :
               Candidate(v, l, base, k).pressure[r] <= Candidate(v, m, base, k).pressure[r]
      BY <1>1, <2>1, <3>4, CandidateOrder
    <3> QED  BY <3>1, <3>2, <3>3, <3>5
  <2>5. ASSUME NEW p \in DOMAIN cs  PROVE cs[p].read >= Total(allocations, stored)
    <3>1. PICK m \in Nat \ {0} : cs[p] = Candidate(v, m, base, k)
      BY <2>3
    <3> QED  BY <1>1, <2>1, <3>1, CandidateReads
  <2> HIDE DEF stored
  <2> QED  BY <2>2, <2>4, <2>5 DEF cs, v, stored
<1> QED  BY <1>2, <1>3

(* Planning tiles leaves the memory plan alone: what is proved of the memory planner
   holds when the tile planner runs behind it. *)
LEMMA TilesAddNothing == TileSpec => Spec
<1>1. TileInit => Init
  BY DEF TileInit
<1>2. [TileNext]_<<vars, mxu, candidates>> => [Next]_vars
  BY DEF TileNext, PlanMemory, TileNode
<1> QED  BY <1>1, <1>2, PTL DEF TileSpec, Spec

(* The candidate that tile.py ranks first, the one the dual-core planner takes, stays
   within the tile memory.py planned, whatever the MXU of the target: a product of
   several rows needs no more accumulator than was allocated, and no region is claimed
   for more than was allocated there, or for less unless a decode's row is of narrower
   columns than planned; and its rows are the planned ones wherever the columns of a
   product are, and the query and the shape of attention have the same rows. *)
THEOREM TopsPlanned == TileSpec => []TopIsPlanned
<1>1. TileInv => TopIsPlanned
  BY TopIs
<1> QED  BY <1>1, TileInvariance, PTL

(* tile.py offers at most four candidates of a node, and down its ranks neither the
   rows, nor what is read or written, nor the bytes in any region ever grow; none of
   them reads less than all of the weights. *)
THEOREM RanksNeverGrow == TileSpec => []RanksShrink
<1>1. TileInv => RanksShrink
  BY RanksAre
<1> QED  BY <1>1, TileInvariance, PTL
=============================================================================
