----------------------- MODULE FrontendPipelineProofs -----------------------
(***************************************************************************)
(* Every graph on the way from the import to the lowering is in order, and *)
(* each of its nodes is lowered once, whatever the model and however long. *)
(* The import gives each node an id of its own and puts values before the  *)
(* nodes that read them.  A pass drops nodes and puts others in the places *)
(* of nodes, whose outputs they keep and which read, behind chains of      *)
(* producers, what was ready there.  What it drops is spent: some node     *)
(* reads all it puts out, so that a result of the model, which none reads, *)
(* is never lost.  In the lowering a Linear that goes with its norm comes  *)
(* after it, goes with one norm only, because a tensor has one producer,   *)
(* and is skipped when the scan comes to it.                               *)
(***************************************************************************)
EXTENDS FrontendPipeline, FiniteSetTheorems, WellFoundedInduction, TLAPS

-----------------------------------------------------------------------------
(* Least and greatest numbers, and recursion.                              *)

(* A nonempty set of naturals has a least element. *)
LEMMA SmallestIs ==
  ASSUME NEW S \in SUBSET Nat, S # {}
  PROVE  Smallest(S) \in S /\ \A j \in S : Smallest(S) <= j
<1>1. \E i \in S : \A j \in S : i <= j
  <2> DEFINE R == {ss \in Nat \X Nat : ss[1] < ss[2]}
  <2>1. IsWellFoundedOn(R, Nat)  BY NatLessThanWellFounded DEF OpToRel
  <2>2. PICK i \in S : \A j \in S : <<j, i>> \notin R  BY <2>1, WFMin, Zenon
  <2>3. ASSUME NEW j \in S PROVE i <= j
    <3>1. i \in Nat /\ j \in Nat /\ <<j, i>> \notin R  BY <2>2
    <3> QED  BY <3>1
  <2> QED  BY <2>3
<1> QED  BY <1>1 DEF Smallest

(* And one up to a bound a greatest. *)
LEMMA LargestIs ==
  ASSUME NEW n \in Nat, NEW S \in SUBSET (1..n), S # {}
  PROVE  Largest(S) \in S
<1> DEFINE above == {k \in Nat : \A i \in S : i <= k}
<1>1. n \in above /\ above \subseteq Nat  OBVIOUS
<1> HIDE DEF above
<1>2. Smallest(above) \in above /\ \A k \in above : Smallest(above) <= k  BY <1>1, SmallestIs
<1>3. PICK m \in Nat : (\A i \in S : i <= m) /\ \A k \in Nat : (\A i \in S : i <= k) => m <= k
  <2>1. Smallest(above) \in Nat  BY <1>1, <1>2
  <2> QED  BY <1>2, <2>1 DEF above
<1>4. m \in S
  <2> SUFFICES ASSUME m \notin S PROVE FALSE  OBVIOUS
  <2>1. PICK i \in S : TRUE  OBVIOUS
  <2>2. m - 1 \in Nat /\ \A j \in S : j <= m - 1  BY <1>3, <2>1
  <2> QED  BY <1>3, <2>2
<1>5. \E i \in S : \A j \in S : i >= j  BY <1>3, <1>4
<1> QED  BY <1>5 DEF Largest

(* What holds of 0 and is kept up to n holds up to n. *)
LEMMA UpTo ==
  ASSUME NEW n \in Nat, NEW S, 0 \in S,
         \A i \in 0..(n - 1) : i \in S => i + 1 \in S
  PROVE  \A i \in 0..n : i \in S
<1> DEFINE Missing == {i \in 0..n : i \notin S}
<1>1. SUFFICES ASSUME Missing # {} PROVE FALSE  OBVIOUS
<1>2. Missing \in SUBSET Nat  OBVIOUS
<1>3. PICK k \in Missing : \A j \in Missing : k <= j
  <2> HIDE DEF Missing
  <2> QED  BY <1>1, <1>2, SmallestIs
<1>4. k - 1 \in 0..(n - 1) /\ k - 1 \in S  BY <1>3
<1>5. (k - 1) + 1 = k  OBVIOUS
<1> QED  BY <1>4, <1>5

(* A function on 0..n, by its value at 0 and the step from each number to the next. *)
Recursion(f, n, base, step) ==
  f = [k \in 0..n |-> IF k = 0 THEN base ELSE step[k][f[k - 1]]]

(* There is one. *)
LEMMA RecursionExists ==
  ASSUME NEW n \in Nat, NEW X, NEW base \in X, NEW step \in [1..n -> [X -> X]]
  PROVE  \E f \in [0..n -> X] : Recursion(f, n, base, step)
<1> USE DEF Recursion
<1> DEFINE Fits(f, k) == f = [i \in 0..k |-> IF i = 0 THEN base ELSE step[i][f[i - 1]]]
           Found == {k \in 0..n : \E f \in [0..k -> X] : Fits(f, k)}
<1>1. 0 \in Found
  <2> DEFINE f == [i \in 0..0 |-> base]
  <2>1. f \in [0..0 -> X] /\ Fits(f, 0)  OBVIOUS
  <2> HIDE DEF Fits, f
  <2>2. \E h \in [0..0 -> X] : Fits(h, 0)  BY <2>1
  <2>3. 0 \in 0..n  OBVIOUS
  <2> QED  BY <2>2, <2>3
<1>2. ASSUME NEW j \in 0..(n - 1), j \in Found PROVE j + 1 \in Found
  <2> DEFINE k == j + 1
  <2>1. k \in 1..n /\ k \in 0..n /\ k - 1 = j /\ j \in Nat  OBVIOUS
  <2>2. PICK f \in [0..j -> X] : Fits(f, j)  BY <1>2
  <2> HIDE DEF k
  <2> DEFINE g == [i \in 0..k |-> IF i = k THEN step[k][f[j]] ELSE f[i]]
  <2>3. g \in [0..k -> X]  BY <2>1, <2>2
  <2>4. ASSUME NEW i \in 0..k PROVE g[i] = IF i = 0 THEN base ELSE step[i][g[i - 1]]
    <3>1. CASE i = k
      <4>1. g[i - 1] = f[j]  BY <2>1, <3>1
      <4> QED  BY <2>1, <3>1, <4>1
    <3>2. CASE i # k
      <4>1. i \in 0..j /\ g[i] = f[i] /\ (i # 0 => g[i - 1] = f[i - 1])  BY <2>1, <3>2
      <4>2. f[i] = IF i = 0 THEN base ELSE step[i][f[i - 1]]  BY <2>2, <4>1
      <4> QED  BY <4>1, <4>2
    <3> QED  BY <3>1, <3>2
  <2>5. Fits(g, k)  BY <2>4
  <2> HIDE DEF Fits, g
  <2>6. \E h \in [0..k -> X] : Fits(h, k)  BY <2>3, <2>5
  <2> QED  BY <2>1, <2>6 DEF k
<1>3. \A k \in 0..n : k \in Found
  <2> HIDE DEF Found
  <2> QED  BY <1>1, <1>2, UpTo
<1>4. n \in Found  BY <1>3
<1> QED  BY <1>4

-----------------------------------------------------------------------------
(* Graphs whose nodes come in order.                                       *)

(* The tensors that the nodes of a graph read. *)
Read(g) == UNION {ToSet(g[n].inputs) : n \in DOMAIN g}

(* The tensors that no node from the nth on produces, rotary tables left out, and some
   node reads. *)
Ready(g, n) ==
  {t \in Tensor : t \in Read(g) /\ \A m \in Producers(g, t) : g[m].op # "ROPETable" => m < n}

(* The operators that a pattern does not look through. *)
Lasting == Plural \cup {"Cos"}

(* The ids of nodes that put out nothing but what some node reads. *)
Spent(g) ==
  {g[n].id : n \in {m \in DOMAIN g : g[m].op # "Cos" /\ ToSet(g[m].outputs) \subseteq Read(g)}}

(* What being in order says of each node. *)
LEMMA OrderlyTyped ==
  ASSUME NEW g, Orderly(g)
  PROVE  /\ Len(g) \in Nat /\ DOMAIN g = 1..Len(g)
         /\ \A n \in DOMAIN g :
              /\ g[n] \in Node
              /\ g[n].inputs \in Seq(Tensor) /\ Len(g[n].inputs) \in Nat
              /\ DOMAIN g[n].inputs = 1..Len(g[n].inputs)
              /\ g[n].outputs \in Seq(Tensor) /\ Len(g[n].outputs) \in Nat
              /\ DOMAIN g[n].outputs = 1..Len(g[n].outputs)
              /\ g[n].outputs # <<>> => g[n].outputs[1] \in Tensor
              /\ \A i \in DOMAIN g[n].inputs : g[n].inputs[i] \in Ready(g, n)
              /\ ToSet(g[n].inputs) \subseteq Ready(g, n)
<1>1. g \in Seq(Node)  BY DEF Orderly
<1>2. Len(g) \in Nat /\ DOMAIN g = 1..Len(g)  BY <1>1
<1>3. ASSUME NEW n \in DOMAIN g
      PROVE  /\ g[n] \in Node
             /\ g[n].inputs \in Seq(Tensor) /\ Len(g[n].inputs) \in Nat
             /\ DOMAIN g[n].inputs = 1..Len(g[n].inputs)
             /\ g[n].outputs \in Seq(Tensor) /\ Len(g[n].outputs) \in Nat
             /\ DOMAIN g[n].outputs = 1..Len(g[n].outputs)
             /\ g[n].outputs # <<>> => g[n].outputs[1] \in Tensor
             /\ \A i \in DOMAIN g[n].inputs : g[n].inputs[i] \in Ready(g, n)
             /\ ToSet(g[n].inputs) \subseteq Ready(g, n)
  <2>1. g[n] \in Node  BY <1>1, <1>3
  <2>2. g[n].inputs \in Seq(Tensor) /\ g[n].outputs \in Seq(Tensor)  BY <2>1 DEF Node
  <2>3. ASSUME NEW i \in DOMAIN g[n].inputs PROVE g[n].inputs[i] \in Ready(g, n)
    <3> DEFINE t == g[n].inputs[i]
    <3>1. t \in ToSet(g[n].inputs) /\ t \in Tensor  BY <2>2 DEF ToSet
    <3> HIDE DEF t
    <3>2. \A m \in Producers(g, t) : g[m].op # "ROPETable" => m < n  BY <1>3, <3>1 DEF Orderly
    <3>3. t \in Read(g)  BY <1>3, <3>1 DEF Read
    <3> QED  BY <3>1, <3>2, <3>3 DEF Ready, t
  <2>4. ToSet(g[n].inputs) \subseteq Ready(g, n)  BY <2>3 DEF ToSet
  <2> QED  BY <2>1, <2>2, <2>3, <2>4
<1> QED  BY <1>2, <1>3

(* A tensor that is produced has one producer, which is the one that is found. *)
LEMMA ProducerIs ==
  ASSUME NEW g, Orderly(g), NEW t, Producers(g, t) # {}
  PROVE  \E k \in DOMAIN g :
           /\ Producers(g, t) = {k} /\ Producer(g, t) = g[k] /\ g[k] \in Node
           /\ t \in Tensor /\ t # NoTensor
<1>1. Producers(g, t) \in SUBSET (1..Len(g)) /\ Len(g) \in Nat
  BY OrderlyTyped DEF Producers
<1>2. Largest(Producers(g, t)) \in Producers(g, t)  BY <1>1, LargestIs
<1> DEFINE k == Largest(Producers(g, t))
<1>3. k \in DOMAIN g /\ Contains(g[k].outputs, t)  BY <1>2 DEF Producers
<1>4. g[k] \in Node /\ g[k].outputs \in Seq(Tensor)  BY <1>3, OrderlyTyped
<1>5. t \in Tensor
  <2> HIDE DEF k
  <2> QED  BY <1>3, <1>4 DEF Contains
<1>6. \A m \in Producers(g, t) : m = k  BY <1>2, <1>5 DEF Orderly
<1>7. Producers(g, t) = {k}  BY <1>2, <1>6
<1>8. t # NoTensor  BY DEF Orderly
<1>9. Producer(g, t) = g[k]  BY DEF Producer
<1> HIDE DEF k
<1> QED  BY <1>3, <1>4, <1>5, <1>7, <1>8, <1>9

(* What the producer of a tensor that is ready reads is ready too. *)
LEMMA Upstream ==
  ASSUME NEW g, Orderly(g), NEW n \in DOMAIN g, NEW t \in Ready(g, n),
         Producers(g, t) # {}, Producer(g, t).op # "ROPETable"
  PROVE  LET v == Producer(g, t) IN
         /\ v \in Node /\ v.inputs \in Seq(Tensor) /\ Len(v.inputs) \in Nat
         /\ DOMAIN v.inputs = 1..Len(v.inputs)
         /\ \A i \in DOMAIN v.inputs : v.inputs[i] \in Ready(g, n)
         /\ v.op \notin Lasting => v.id \in Spent(g)
<1>1. PICK k \in DOMAIN g : Producers(g, t) = {k} /\ Producer(g, t) = g[k]  BY ProducerIs
<1>2. k \in Nat /\ n \in Nat /\ k < n  BY <1>1, OrderlyTyped DEF Ready
<1>3. \A i \in DOMAIN g[k].inputs : g[k].inputs[i] \in Ready(g, k)  BY OrderlyTyped
<1>4. Ready(g, k) \subseteq Ready(g, n)
  <2> SUFFICES ASSUME NEW u \in Ready(g, k) PROVE u \in Ready(g, n)  OBVIOUS
  <2>1. \A m \in Producers(g, u) : m \in Nat  BY OrderlyTyped DEF Producers
  <2> QED  BY <1>2, <2>1 DEF Ready
<1>5. /\ g[k] \in Node /\ g[k].inputs \in Seq(Tensor) /\ Len(g[k].inputs) \in Nat
      /\ DOMAIN g[k].inputs = 1..Len(g[k].inputs)
  BY OrderlyTyped
<1>6. ASSUME g[k].op \notin Lasting PROVE g[k].id \in Spent(g)
  <2>1. Len(g[k].outputs) \in Nat /\ Len(g[k].outputs) <= 1
    <3>1. Len(g[k].outputs) \in Nat  BY OrderlyTyped
    <3>2. ~ Len(g[k].outputs) > 1  BY <1>6 DEF Orderly, Lasting
    <3> QED  BY <3>1, <3>2
  <2>2. DOMAIN g[k].outputs = 1..Len(g[k].outputs)  BY OrderlyTyped
  <2>3. Contains(g[k].outputs, t)  BY <1>1 DEF Producers
  <2>4. \A i \in DOMAIN g[k].outputs : g[k].outputs[i] = t  BY <2>1, <2>2, <2>3 DEF Contains
  <2>5. ToSet(g[k].outputs) \subseteq {t}  BY <2>4 DEF ToSet
  <2>6. t \in Read(g)  BY DEF Ready
  <2> QED  BY <1>6, <2>5, <2>6 DEF Spent, Lasting
<1> QED  BY <1>1, <1>3, <1>4, <1>5, <1>6

-----------------------------------------------------------------------------
(* Elements picked from a sequence.                                        *)

(* How Among builds its result. *)
Picking(f, s, S) ==
  f = [k \in 0..Len(s) |->
         IF k = 0 THEN <<>> ELSE IF s[k] \in S THEN Append(f[k - 1], s[k]) ELSE f[k - 1]]

(* The elements of r are those of the first k of s that are in S: the nth is the e[n]th. *)
Selects(e, r, s, k, S) ==
  /\ e \in [DOMAIN r -> 1..k]
  /\ \A a, b \in DOMAIN r : a < b => e[a] < e[b]
  /\ \A a \in DOMAIN r : r[a] = s[e[a]] /\ r[a] \in S
  /\ \A i \in 1..k : s[i] \in S => \E a \in DOMAIN r : e[a] = i

(* Of no elements none are selected. *)
LEMMA SelectsNone ==
  ASSUME NEW s, NEW S
  PROVE  \E e : Selects(e, <<>>, s, 0, S)
<1> DEFINE e == [a \in DOMAIN <<>> |-> 1]
<1>1. Selects(e, <<>>, s, 0, S)  BY DEF Selects
<1> QED  BY <1>1

(* One element more is selected if it is in S. *)
LEMMA SelectsMore ==
  ASSUME NEW X, NEW s \in Seq(X), NEW S, NEW k \in 1..Len(s), NEW r \in Seq(X), NEW e,
         Selects(e, r, s, k - 1, S)
  PROVE  /\ s[k] \notin S => Selects(e, r, s, k, S)
         /\ s[k] \in S => \E d : Selects(d, Append(r, s[k]), s, k, S)
<1>1. k \in Nat /\ Len(s) \in Nat /\ Len(r) \in Nat /\ DOMAIN r = 1..Len(r) /\ s[k] \in X  OBVIOUS
<1>2. 1..(k - 1) \subseteq 1..k /\ \A i \in 1..k : i \in 1..(k - 1) \/ i = k  BY <1>1
<1>3. ASSUME s[k] \notin S PROVE Selects(e, r, s, k, S)
  BY <1>1, <1>2, <1>3 DEF Selects
<1>4. ASSUME s[k] \in S PROVE \E d : Selects(d, Append(r, s[k]), s, k, S)
  <2> DEFINE q == Append(r, s[k])
             d == [a \in 1..(Len(r) + 1) |-> IF a \in DOMAIN r THEN e[a] ELSE k]
  <2>1. /\ DOMAIN q = 1..(Len(r) + 1)
        /\ \A a \in DOMAIN q : (a \in DOMAIN r /\ q[a] = r[a]) \/ (a = Len(r) + 1 /\ q[a] = s[k])
    BY <1>1
  <2>2. /\ Len(r) + 1 \notin DOMAIN r /\ Len(r) + 1 \in DOMAIN q
        /\ \A a \in DOMAIN r : a \in DOMAIN q /\ a < Len(r) + 1
    BY <1>1, <2>1
  <2> HIDE DEF q
  <2>3. /\ \A a \in DOMAIN r : d[a] = e[a] /\ e[a] \in 1..(k - 1)
        /\ d[Len(r) + 1] = k
    BY <1>1, <2>1, <2>2 DEF Selects
  <2>4. d \in [DOMAIN q -> 1..k]
    <3>1. k \in 1..k  BY <1>1
    <3>2. \A a \in DOMAIN r : e[a] \in 1..k  BY <1>2, <2>3
    <3>3. \A a \in 1..(Len(r) + 1) : (IF a \in DOMAIN r THEN e[a] ELSE k) \in 1..k
      BY <3>1, <3>2
    <3> QED  BY <2>1, <3>3
  <2> HIDE DEF d
  <2>5. \A a, b \in DOMAIN q : a < b => d[a] < d[b]
    <3> TAKE a, b \in DOMAIN q
    <3> HAVE a < b
    <3>1. a \in DOMAIN r  BY <1>1, <2>1, <2>2
    <3>2. CASE b \in DOMAIN r  BY <2>3, <3>1, <3>2 DEF Selects
    <3>3. CASE b = Len(r) + 1  BY <1>1, <2>3, <3>1, <3>3
    <3> QED  BY <2>1, <3>2, <3>3
  <2>6. \A a \in DOMAIN q : q[a] = s[d[a]] /\ q[a] \in S
    <3> TAKE a \in DOMAIN q
    <3>1. CASE a \in DOMAIN r /\ q[a] = r[a]  BY <2>3, <3>1 DEF Selects
    <3>2. CASE a = Len(r) + 1 /\ q[a] = s[k]  BY <1>4, <2>3, <3>2
    <3> QED  BY <2>1, <3>1, <3>2
  <2>7. \A i \in 1..k : s[i] \in S => \E a \in DOMAIN q : d[a] = i
    <3> TAKE i \in 1..k
    <3> HAVE s[i] \in S
    <3>1. CASE i = k  BY <2>2, <2>3, <3>1
    <3>2. CASE i \in 1..(k - 1)
      <4>1. PICK a \in DOMAIN r : e[a] = i  BY <3>2 DEF Selects
      <4> QED  BY <2>2, <2>3, <4>1
    <3> QED  BY <1>2, <3>1, <3>2
  <2> QED  BY <2>4, <2>5, <2>6, <2>7 DEF Selects, q
<1> QED  BY <1>3, <1>4

(* Among keeps the elements that are in S, in their order. *)
LEMMA AmongIs ==
  ASSUME NEW X, NEW s \in Seq(X), NEW S
  PROVE  Among(s, S) \in Seq(X) /\ \E e : Selects(e, Among(s, S), s, Len(s), S)
<1> DEFINE N == Len(s)
           step == [k \in 1..N |-> [r \in Seq(X) |-> IF s[k] \in S THEN Append(r, s[k]) ELSE r]]
           f == CHOOSE h : Picking(h, s, S)
<1>1. N \in Nat /\ \A k \in 1..N : s[k] \in X  OBVIOUS
<1>2. step \in [1..N -> [Seq(X) -> Seq(X)]] /\ <<>> \in Seq(X)
  <2>1. \A k \in 1..N : \A r \in Seq(X) : Append(r, s[k]) \in Seq(X)  BY <1>1
  <2> QED  BY <2>1
<1>3. PICK h \in [0..N -> Seq(X)] : Recursion(h, N, <<>>, step)
  <2> HIDE DEF N, step
  <2> QED  BY <1>1, <1>2, RecursionExists
<1>4. Picking(h, s, S)
  <2>1. ASSUME NEW k \in 0..N, k # 0
        PROVE  step[k][h[k - 1]] = IF s[k] \in S THEN Append(h[k - 1], s[k]) ELSE h[k - 1]
    <3>1. k \in 1..N /\ k - 1 \in 0..N  BY <1>1, <2>1
    <3>2. h[k - 1] \in Seq(X)  BY <3>1
    <3>3. step[k] = [r \in Seq(X) |-> IF s[k] \in S THEN Append(r, s[k]) ELSE r]  BY <3>1
    <3> HIDE DEF step
    <3> QED  BY <3>2, <3>3
  <2> HIDE DEF step
  <2> QED  BY <1>3, <2>1 DEF Recursion, Picking
<1>5. Picking(f, s, S)
  <2> HIDE DEF step, N
  <2> QED  BY <1>4
<1>6. Among(s, S) = f[N]  BY DEF Among, Picking
<1> HIDE DEF f, step
<1>7. /\ f[0] = <<>>
      /\ \A k \in 1..N : f[k] = IF s[k] \in S THEN Append(f[k - 1], s[k]) ELSE f[k - 1]
  <2> HIDE DEF N
  <2>1. f = [k \in 0..N |->
              IF k = 0 THEN <<>> ELSE IF s[k] \in S THEN Append(f[k - 1], s[k]) ELSE f[k - 1]]
    BY <1>5 DEF Picking, N
  <2>2. 0 \in 0..N /\ \A k \in 1..N : k \in 0..N /\ k # 0  BY <1>1
  <2>3. f[0] = <<>>  BY <2>1, <2>2
  <2>4. ASSUME NEW k \in 1..N
        PROVE  f[k] = IF s[k] \in S THEN Append(f[k - 1], s[k]) ELSE f[k - 1]
    BY <2>1, <2>2
  <2> QED  BY <2>3, <2>4
<1> DEFINE Good == {k \in 0..N : f[k] \in Seq(X) /\ \E e : Selects(e, f[k], s, k, S)}
<1>8. 0 \in Good
  <2>1. f[0] \in Seq(X) /\ \E e : Selects(e, f[0], s, 0, S)  BY <1>2, <1>7, SelectsNone
  <2> QED  BY <1>1, <2>1
<1>9. ASSUME NEW i \in 0..(N - 1), i \in Good PROVE i + 1 \in Good
  <2> DEFINE k == i + 1
  <2>1. k \in 1..N /\ k \in 0..N /\ k - 1 = i  BY <1>1
  <2>2. f[i] \in Seq(X)  BY <1>9
  <2>3. PICK e : Selects(e, f[i], s, i, S)  BY <1>9
  <2> HIDE DEF k, Good
  <2>4. /\ s[k] \notin S => Selects(e, f[i], s, k, S)
        /\ s[k] \in S => \E d : Selects(d, Append(f[i], s[k]), s, k, S)
    BY <2>1, <2>2, <2>3, SelectsMore
  <2>5. f[k] = IF s[k] \in S THEN Append(f[i], s[k]) ELSE f[i]  BY <1>7, <2>1
  <2>6. Append(f[i], s[k]) \in Seq(X)  BY <1>1, <2>1, <2>2
  <2>7. f[k] \in Seq(X) /\ \E d : Selects(d, f[k], s, k, S)
    <3>1. CASE s[k] \in S  BY <2>4, <2>5, <2>6, <3>1
    <3>2. CASE s[k] \notin S  BY <2>2, <2>4, <2>5, <3>2
    <3> QED  BY <3>1, <3>2
  <2>8. k \in Good  BY <2>1, <2>7 DEF Good
  <2> QED  BY <2>8 DEF k
<1>10. \A k \in 0..N : k \in Good
  <2> HIDE DEF Good, N
  <2> QED  BY <1>1, <1>8, <1>9, UpTo
<1>11. N \in Good  BY <1>1, <1>10
<1> QED  BY <1>6, <1>11

-----------------------------------------------------------------------------
(* Passes drop nodes and put others in their place.                        *)

(* The node w can stand in the place of the nth: it puts out tensors of its own, and
   reads what is ready there. *)
Stands(g, w, n) ==
  /\ w \in Node /\ w.id = g[n].id
  /\ g[n].op = "ROPETable" => w.op = "ROPETable"
  /\ w.op \in {"Mul", "Sin"} => w.op = g[n].op /\ Len(w.inputs) = Len(g[n].inputs)
  /\ Len(w.outputs) > 1 => w.op \in Plural
  /\ ToSet(w.inputs) \subseteq Ready(g, n)
  /\ \A t \in ToSet(w.outputs) :
       /\ Producers(g, t) # {}
       /\ w.op # "ROPETable" => n \in Producers(g, t)

(* A graph of such nodes in their order is orderly if they do not put out the same. *)
LEMMA StandInOrder ==
  ASSUME NEW g, Orderly(g), NEW h, NEW e, h \in Seq(Node),
         e \in [DOMAIN h -> DOMAIN g], \A a, b \in DOMAIN h : a < b => e[a] < e[b],
         \A a \in DOMAIN h : Stands(g, h[a], e[a]),
         \A t \in Tensor : \A a, b \in Producers(h, t) : a = b
  PROVE  Orderly(h) /\ Read(h) \subseteq Read(g)
<1>1. /\ Len(g) \in Nat /\ DOMAIN g = 1..Len(g)
      /\ Len(h) \in Nat /\ DOMAIN h = 1..Len(h)
      /\ \A a \in DOMAIN h : h[a] \in Node /\ e[a] \in DOMAIN g
  BY OrderlyTyped
<1>2. ASSUME NEW a \in DOMAIN h, NEW b \in DOMAIN h, e[a] < e[b] PROVE a < b
  <2>1. a \in Nat /\ b \in Nat /\ e[a] \in Nat /\ e[b] \in Nat  BY <1>1
  <2>2. b < a => e[b] < e[a]  OBVIOUS
  <2> QED  BY <1>2, <2>1, <2>2
<1>3. ASSUME NEW a \in DOMAIN h, NEW b \in DOMAIN h, h[a].id = h[b].id PROVE a = b
  <2>1. g[e[a]].id = g[e[b]].id  BY <1>3 DEF Stands
  <2>2. e[a] = e[b]  BY <1>1, <2>1 DEF Orderly
  <2>3. a \in Nat /\ b \in Nat /\ e[a] \in Nat  BY <1>1
  <2>4. ~ (e[a] < e[b]) /\ ~ (e[b] < e[a])  BY <2>2, <2>3
  <2>5. ~ (a < b) /\ ~ (b < a)  BY <2>4
  <2> QED  BY <2>3, <2>5
<1>4. ASSUME NEW t, NEW a \in Producers(h, t)
      PROVE  /\ a \in DOMAIN h /\ Producers(g, t) # {}
             /\ h[a].op # "ROPETable" => e[a] \in Producers(g, t) /\ g[e[a]].op # "ROPETable"
  <2>1. a \in DOMAIN h /\ Contains(h[a].outputs, t)  BY DEF Producers
  <2>2. h[a].outputs \in Seq(Tensor)  BY <1>1, <2>1 DEF Node
  <2>3. t \in ToSet(h[a].outputs)  BY <2>1, <2>2 DEF Contains, ToSet
  <2> QED  BY <2>1, <2>3 DEF Stands
<1>5. Producers(h, NoTensor) = {}  BY <1>4 DEF Orderly
<1>6. ASSUME NEW a \in DOMAIN h, NEW t \in ToSet(h[a].inputs), NEW b \in Producers(h, t),
             h[b].op # "ROPETable"
      PROVE  b < a
  <2>1. b \in DOMAIN h /\ e[b] \in Producers(g, t) /\ g[e[b]].op # "ROPETable"  BY <1>4, <1>6
  <2>2. t \in Ready(g, e[a])  BY <1>6 DEF Stands
  <2>3. e[b] < e[a]  BY <2>1, <2>2 DEF Ready
  <2> QED  BY <1>2, <1>6, <2>1, <2>3
<1>7. ASSUME NEW a \in DOMAIN h
      PROVE  /\ h[a].op = "Mul" => Len(h[a].inputs) = 2
             /\ h[a].op = "Sin" => Len(h[a].inputs) = 1
             /\ Len(h[a].outputs) > 1 => h[a].op \in Plural
  BY <1>1, <1>7 DEF Stands, Orderly
<1>8. \A a \in DOMAIN h : \A t \in ToSet(h[a].inputs) : \A b \in Producers(h, t) :
        h[b].op # "ROPETable" => b < a
  BY <1>6
<1>9. Orderly(h)  BY <1>3, <1>5, <1>7, <1>8 DEF Orderly
<1>10. Read(h) \subseteq Read(g)  BY DEF Stands, Ready, Read
<1> QED  BY <1>9, <1>10

-----------------------------------------------------------------------------
(* Graphs with nodes dropped and replaced.                                 *)

(* And it replaces the nth if it puts out the same. *)
Replaces(g, w, n) == Stands(g, w, n) /\ w.outputs = g[n].outputs

(* A node produces its outputs. *)
LEMMA OutputsProduced ==
  ASSUME NEW g, Orderly(g), NEW n \in DOMAIN g
  PROVE  \A t \in ToSet(g[n].outputs) : n \in Producers(g, t)
<1>1. g[n].outputs \in Seq(Tensor)  BY OrderlyTyped
<1>2. \A t \in ToSet(g[n].outputs) : Contains(g[n].outputs, t)  BY <1>1 DEF Contains, ToSet
<1> QED  BY <1>2 DEF Producers

(* A node can get another operator unless that leaves it outputs. *)
Becomes(v, op) == v.op # "ROPETable" /\ (v.op \in Plural => op \in Plural)

(* A node can stand where it stands. *)
LEMMA KeptReplaces ==
  ASSUME NEW g, Orderly(g), NEW n \in DOMAIN g
  PROVE  Replaces(g, g[n], n)
<1>1. g[n] \in Node /\ ToSet(g[n].inputs) \subseteq Ready(g, n)  BY OrderlyTyped
<1>2. Len(g[n].outputs) > 1 => g[n].op \in Plural  BY DEF Orderly
<1> QED  BY <1>1, <1>2, OutputsProduced DEF Replaces, Stands

(* So can another with its id and outputs that reads what is ready there. *)
LEMMA NewReplaces ==
  ASSUME NEW g, Orderly(g), NEW n \in DOMAIN g, NEW w \in Node, w.id = g[n].id,
         w.outputs = g[n].outputs, Becomes(g[n], w.op), w.op \notin {"Mul", "Sin"},
         \A i \in DOMAIN w.inputs : w.inputs[i] \in Ready(g, n)
  PROVE  Replaces(g, w, n)
<1>1. ToSet(w.inputs) \subseteq Ready(g, n)  BY DEF ToSet
<1>2. g[n].op # "ROPETable" /\ (Len(w.outputs) > 1 => w.op \in Plural)  BY DEF Becomes, Orderly
<1> QED  BY <1>1, <1>2, OutputsProduced DEF Replaces, Stands

(* A graph of such nodes is in order and reads nothing new. *)
LEMMA ReplacedInOrder ==
  ASSUME NEW g, Orderly(g), NEW h, NEW e, h \in Seq(Node),
         e \in [DOMAIN h -> DOMAIN g], \A a, b \in DOMAIN h : a < b => e[a] < e[b],
         \A a \in DOMAIN h : Replaces(g, h[a], e[a])
  PROVE  Orderly(h) /\ Read(h) \subseteq Read(g)
<1>1. ASSUME NEW t \in Tensor, NEW a \in Producers(h, t), NEW b \in Producers(h, t)
      PROVE  a = b
  <2>1. a \in DOMAIN h /\ b \in DOMAIN h  BY DEF Producers
  <2>2. \A c \in Producers(h, t) : c \in DOMAIN h /\ e[c] \in Producers(g, t)
    BY DEF Producers, Replaces
  <2>3. e[a] = e[b]  BY <2>2 DEF Orderly
  <2>4. a \in Nat /\ b \in Nat /\ e[a] \in Nat /\ e[b] \in Nat
    <3>1. DOMAIN h = 1..Len(h) /\ DOMAIN g = 1..Len(g)  BY OrderlyTyped
    <3> QED  BY <2>1, <3>1
  <2>5. ~ (e[a] < e[b]) /\ ~ (e[b] < e[a])  BY <2>3, <2>4
  <2>6. ~ (a < b) /\ ~ (b < a)  BY <2>1, <2>5
  <2> QED  BY <2>4, <2>6
<1> QED  BY <1>1, StandInOrder DEF Replaces

(* The tensors that are put out and that no node reads. *)
Unread(g) == {t \in Tensor : Producers(g, t) # {} /\ t \notin Read(g)}

(* The graph h is in order too and loses nothing that no node reads. *)
Follows(h, g) == Orderly(h) /\ Unread(g) \subseteq Unread(h)

(* So does one that follows a graph that follows. *)
LEMMA FollowsOn ==
  ASSUME NEW g, NEW h, NEW k, Follows(h, g), Follows(k, h)
  PROVE  Follows(k, g)
BY DEF Follows

(* It does if it reads nothing new and still puts those tensors out. *)
LEMMA KeptFollows ==
  ASSUME NEW g, NEW h, Orderly(h), Read(h) \subseteq Read(g),
         \A t \in Unread(g) : Producers(h, t) # {}
  PROVE  Follows(h, g)
BY DEF Follows, Unread

(* It does when a pass maps nodes to nodes that can stand in their places. *)
LEMMA ReclassifyFollows ==
  ASSUME NEW g, Orderly(g), NEW class,
         \A n \in DOMAIN g : g[n] \in DOMAIN class => Replaces(g, class[g[n]], n)
  PROVE  Follows(Reclassify(g, class), g)
<1> DEFINE h == Reclassify(g, class)
           e == [n \in DOMAIN h |-> n]
<1>1. DOMAIN g = 1..Len(g) /\ Len(g) \in Nat  BY OrderlyTyped
<1>2. /\ DOMAIN h = DOMAIN g
      /\ \A n \in DOMAIN g : h[n] = IF g[n] \in DOMAIN class THEN class[g[n]] ELSE g[n]
  BY DEF Reclassify
<1>3. \A n \in DOMAIN g : Replaces(g, h[n], n)  BY <1>2, KeptReplaces
<1>4. h \in Seq(Node)
  <2>1. \A n \in DOMAIN g : h[n] \in Node  BY <1>3 DEF Replaces, Stands
  <2>2. h = [n \in 1..Len(g) |-> h[n]]  BY <1>1 DEF Reclassify
  <2> HIDE DEF h
  <2> QED  BY <1>1, <2>1, <2>2
<1> HIDE DEF h
<1>5. e \in [DOMAIN h -> DOMAIN g] /\ \A a, b \in DOMAIN h : a < b => e[a] < e[b]
  BY <1>2
<1>6. \A a \in DOMAIN h : Replaces(g, h[a], e[a])  BY <1>2, <1>3
<1> HIDE DEF e
<1>7. Orderly(h) /\ Read(h) \subseteq Read(g)  BY <1>4, <1>5, <1>6, ReplacedInOrder
<1>8. \A t : Producers(h, t) = Producers(g, t)  BY <1>2, <1>3 DEF Producers, Replaces
<1>9. Follows(h, g)  BY <1>7, <1>8, KeptFollows DEF Unread
<1> QED  BY <1>9 DEF h

(* What Rewrite makes of a graph. *)
Rewrites(e, h, g, fused, dropped) ==
  /\ e \in [DOMAIN h -> DOMAIN g]
  /\ \A a, b \in DOMAIN h : a < b => e[a] < e[b]
  /\ \A a \in DOMAIN h :
       /\ g[e[a]].id \notin dropped
       /\ h[a] = IF g[e[a]] \in DOMAIN fused THEN fused[g[e[a]]] ELSE g[e[a]]
  /\ \A n \in DOMAIN g : g[n].id \notin dropped => \E a \in DOMAIN h : e[a] = n

(* Rewrite does that: it drops the dropped and maps what is left. *)
LEMMA RewriteIs ==
  ASSUME NEW g, Orderly(g), NEW fused, NEW dropped,
         \A n \in DOMAIN g : g[n].id \notin dropped /\ g[n] \in DOMAIN fused => fused[g[n]] \in Node
  PROVE  /\ Rewrite(g, fused, dropped) \in Seq(Node)
         /\ \E e : Rewrites(e, Rewrite(g, fused, dropped), g, fused, dropped)
<1> DEFINE S == {v \in ToSet(g) : v.id \notin dropped}
           kept == Among(g, S)
           h == Reclassify(kept, fused)
<1>1. g \in Seq(Node) /\ DOMAIN g = 1..Len(g) /\ Len(g) \in Nat  BY OrderlyTyped DEF Orderly
<1>2. kept \in Seq(Node) /\ \E e : Selects(e, kept, g, Len(g), S)  BY <1>1, AmongIs
<1>3. PICK e : Selects(e, kept, g, Len(g), S)  BY <1>2
<1>4. /\ \A a \in DOMAIN kept : kept[a] = g[e[a]] /\ kept[a].id \notin dropped
      /\ e \in [DOMAIN kept -> DOMAIN g]
      /\ \A a, b \in DOMAIN kept : a < b => e[a] < e[b]
  BY <1>1, <1>3 DEF Selects
<1>11. ASSUME NEW n \in DOMAIN g, g[n].id \notin dropped PROVE \E a \in DOMAIN kept : e[a] = n
  <2>1. g[n] \in S  BY <1>11 DEF ToSet
  <2> QED  BY <1>1, <1>3, <2>1 DEF Selects
<1>5. DOMAIN kept = 1..Len(kept) /\ Len(kept) \in Nat  BY <1>2
<1> HIDE DEF kept
<1>6. /\ DOMAIN h = DOMAIN kept
      /\ \A a \in DOMAIN kept : h[a] = IF kept[a] \in DOMAIN fused THEN fused[kept[a]] ELSE kept[a]
  BY DEF Reclassify
<1>7. \A a \in DOMAIN kept : h[a] \in Node
  <2> TAKE a \in DOMAIN kept
  <2>1. e[a] \in DOMAIN g /\ kept[a] = g[e[a]] /\ kept[a].id \notin dropped  BY <1>4
  <2>2. g[e[a]] \in Node  BY <2>1, OrderlyTyped
  <2>3. g[e[a]] \in DOMAIN fused => fused[g[e[a]]] \in Node  BY <2>1
  <2> QED  BY <1>6, <2>1, <2>2, <2>3
<1>8. h \in Seq(Node)
  <2>1. h = [a \in 1..Len(kept) |-> h[a]]  BY <1>5 DEF Reclassify
  <2> HIDE DEF h
  <2> QED  BY <1>5, <1>7, <2>1
<1>9. Rewrites(e, h, g, fused, dropped)
  <2> HIDE DEF h
  <2> QED  BY <1>4, <1>6, <1>11 DEF Rewrites
<1>10. Rewrite(g, fused, dropped) = h  BY DEF Rewrite, kept
<1> HIDE DEF h
<1> QED  BY <1>8, <1>9, <1>10

(* The outputs of a node that is spent are read. *)
LEMMA SpentIs ==
  ASSUME NEW g, Orderly(g), NEW n \in DOMAIN g, g[n].id \in Spent(g)
  PROVE  ToSet(g[n].outputs) \subseteq Read(g) /\ g[n].op # "Cos"
<1>1. PICK m \in DOMAIN g : /\ g[m].id = g[n].id /\ g[m].op # "Cos"
                            /\ ToSet(g[m].outputs) \subseteq Read(g)
  BY DEF Spent
<1>2. m = n  BY <1>1 DEF Orderly
<1> QED  BY <1>1, <1>2

(* The producer of a tensor puts it out. *)
LEMMA ProducersOutput ==
  ASSUME NEW g, Orderly(g), NEW t, NEW n \in Producers(g, t)
  PROVE  n \in DOMAIN g /\ t \in ToSet(g[n].outputs)
<1>1. n \in DOMAIN g /\ Contains(g[n].outputs, t)  BY DEF Producers
<1>2. g[n].outputs \in Seq(Tensor)  BY <1>1, OrderlyTyped
<1> QED  BY <1>1, <1>2 DEF Contains, ToSet

(* So when a pass drops spent nodes, and maps others to nodes that can stand there. *)
LEMMA RewriteFollows ==
  ASSUME NEW g, Orderly(g), NEW fused, NEW dropped, dropped \subseteq Spent(g),
         \A n \in DOMAIN g : g[n] \in DOMAIN fused => Replaces(g, fused[g[n]], n)
  PROVE  Follows(Rewrite(g, fused, dropped), g)
<1> DEFINE h == Rewrite(g, fused, dropped)
<1>1. \A n \in DOMAIN g : g[n] \in DOMAIN fused => fused[g[n]] \in Node
  BY DEF Replaces, Stands
<1>2. h \in Seq(Node) /\ \E e : Rewrites(e, h, g, fused, dropped)  BY <1>1, RewriteIs
<1>3. PICK e : Rewrites(e, h, g, fused, dropped)  BY <1>2
<1> HIDE DEF h
<1>4. /\ e \in [DOMAIN h -> DOMAIN g]
      /\ \A a, b \in DOMAIN h : a < b => e[a] < e[b]
  BY <1>3 DEF Rewrites
<1>5. \A a \in DOMAIN h : Replaces(g, h[a], e[a])
  <2> TAKE a \in DOMAIN h
  <2>1. e[a] \in DOMAIN g /\ h[a] = IF g[e[a]] \in DOMAIN fused THEN fused[g[e[a]]] ELSE g[e[a]]
    BY <1>3 DEF Rewrites
  <2> QED  BY <2>1, KeptReplaces
<1>6. Orderly(h) /\ Read(h) \subseteq Read(g)  BY <1>2, <1>4, <1>5, ReplacedInOrder
<1>7. ASSUME NEW t \in Unread(g) PROVE Producers(h, t) # {}
  <2>1. PICK n \in Producers(g, t) : t \notin Read(g)  BY DEF Unread
  <2>2. n \in DOMAIN g /\ t \in ToSet(g[n].outputs)  BY <2>1, ProducersOutput
  <2>3. g[n].id \notin dropped  BY <2>1, <2>2, SpentIs
  <2>4. PICK a \in DOMAIN h : e[a] = n  BY <1>3, <2>2, <2>3 DEF Rewrites
  <2>5. h[a].outputs = g[n].outputs  BY <1>5, <2>4 DEF Replaces
  <2> QED  BY <2>1, <2>4, <2>5 DEF Producers
<1>8. Follows(h, g)  BY <1>6, <1>7, KeptFollows
<1> QED  BY <1>8 DEF h

-----------------------------------------------------------------------------
(* What a pass that fuses drops.                                           *)

(* What the roots of patterns become. *)
Fused(found) ==
  [v \in {u \in DOMAIN found : found[u] # {}} |-> (CHOOSE match \in found[v] : TRUE).node]

(* How Fuse gathers what it drops. *)
Skipping(f, g, found) ==
  f = [k \in 0..Len(g) |->
         IF k = 0 THEN {}
         ELSE IF g[k] \in DOMAIN found /\ g[k].id \notin f[k - 1]
              THEN f[k - 1] \cup UNION {match.skip : match \in found[g[k]]} ELSE f[k - 1]]

(* A root that is not dropped takes what its match makes superfluous with it. *)
LEMMA FuseSkips ==
  ASSUME NEW g, Orderly(g), NEW found
  PROVE  \E dropped : /\ Fuse(g, found) = Rewrite(g, Fused(found), dropped)
                      /\ \A n \in DOMAIN g : g[n] \in DOMAIN found /\ g[n].id \notin dropped
                           => \A match \in found[g[n]] : match.skip \subseteq dropped
                      /\ \A id \in dropped : \E n \in DOMAIN g :
                           g[n] \in DOMAIN found /\ \E match \in found[g[n]] : id \in match.skip
<1> DEFINE N == Len(g)
           New(k) == UNION {match.skip : match \in found[g[k]]}
           More(k, s) == IF g[k] \in DOMAIN found /\ g[k].id \notin s THEN s \cup New(k) ELSE s
           X == SUBSET UNION {New(k) : k \in {j \in 1..N : g[j] \in DOMAIN found}}
           step == [k \in 1..N |-> [s \in X |-> More(k, s)]]
           f == CHOOSE h : Skipping(h, g, found)
<1>0. N \in Nat /\ DOMAIN g = 1..N  BY OrderlyTyped
<1>1. {} \in X  OBVIOUS
<1>2. ASSUME NEW k \in 1..N, NEW s \in X PROVE More(k, s) \in X
  <2> DEFINE all == {New(j) : j \in {i \in 1..N : g[i] \in DOMAIN found}}
  <2>1. g[k] \in DOMAIN found => New(k) \in all  OBVIOUS
  <2> HIDE DEF New, all
  <2>2. s \in SUBSET UNION all  BY DEF all
  <2>3. More(k, s) \in SUBSET UNION all  BY <2>1, <2>2
  <2> HIDE DEF More
  <2> QED  BY <2>3 DEF all
<1> HIDE DEF New, More, N
<1>3. step \in [1..N -> [X -> X]]
  <2> HIDE DEF X
  <2> QED  BY <1>2
<1> HIDE DEF X
<1>4. PICK h \in [0..N -> X] : Recursion(h, N, {}, step)
  <2> HIDE DEF step
  <2> QED  BY <1>0, <1>1, <1>3, RecursionExists
<1>5. \A k \in 1..N : \A s \in X : step[k][s] = More(k, s)  OBVIOUS
<1> HIDE DEF step
<1>6. Skipping(h, g, found)
  <2>1. ASSUME NEW k \in 0..N, k # 0 PROVE step[k][h[k - 1]] = More(k, h[k - 1])
    <3>1. k \in 1..N /\ k - 1 \in 0..N  BY <1>0, <2>1
    <3>2. h[k - 1] \in X  BY <3>1
    <3> QED  BY <1>5, <3>1, <3>2
  <2>2. h = [k \in 0..N |-> IF k = 0 THEN {} ELSE step[k][h[k - 1]]]  BY <1>4 DEF Recursion
  <2>3. h = [k \in 0..N |-> IF k = 0 THEN {} ELSE More(k, h[k - 1])]  BY <2>1, <2>2
  <2> QED  BY <2>3 DEF Skipping, More, New, N
<1>7. Skipping(f, g, found)  BY <1>6
<1>8. Fuse(g, found) = Rewrite(g, Fused(found), f[N])  BY DEF Fuse, Fused, Skipping, N
<1> HIDE DEF f
<1>9. f = [k \in 0..N |-> IF k = 0 THEN {} ELSE More(k, f[k - 1])]
  BY <1>7 DEF Skipping, More, New, N
<1>10. \A k \in 1..N : f[k] = More(k, f[k - 1])
  <2> TAKE k \in 1..N
  <2>1. k \in 0..N /\ k # 0  BY <1>0
  <2> QED  BY <1>9, <2>1
<1>11. \A k \in 1..N : f[k - 1] \subseteq f[k]  BY <1>10 DEF More
<1>12. ASSUME NEW j \in 0..N PROVE f[j] \subseteq f[N]
  <2> DEFINE Good == {k \in 0..N : k >= j => f[j] \subseteq f[k]}
  <2>1. 0 \in Good
    <3>1. 0 \in 0..N /\ (0 >= j => j = 0)  BY <1>0
    <3> QED  BY <3>1
  <2>2. ASSUME NEW i \in 0..(N - 1), i \in Good PROVE i + 1 \in Good
    <3>1. i + 1 \in 1..N /\ i + 1 \in 0..N /\ (i + 1) - 1 = i  BY <1>0
    <3>2. f[i] \subseteq f[i + 1]  BY <1>11, <3>1
    <3>3. i + 1 >= j => i >= j \/ j = i + 1  OBVIOUS
    <3> QED  BY <2>2, <3>1, <3>2, <3>3
  <2>3. \A k \in 0..N : k \in Good
    <3> HIDE DEF Good
    <3> QED  BY <1>0, <2>1, <2>2, UpTo
  <2> QED  BY <1>0, <2>3
<1>13. ASSUME NEW n \in DOMAIN g, g[n] \in DOMAIN found, g[n].id \notin f[N],
              NEW match \in found[g[n]]
       PROVE  match.skip \subseteq f[N]
  <2>1. n \in 1..N /\ n \in 0..N /\ n - 1 \in 0..N  BY <1>0
  <2>2. g[n].id \notin f[n - 1]  BY <1>12, <1>13, <2>1
  <2>3. f[n] = f[n - 1] \cup New(n)  BY <1>10, <1>13, <2>1, <2>2 DEF More
  <2>4. match.skip \subseteq New(n)  BY <1>13 DEF New
  <2>5. f[n] \subseteq f[N]  BY <1>12, <2>1
  <2> QED  BY <2>3, <2>4, <2>5
<1>14. ASSUME NEW id \in f[N]
       PROVE  \E n \in DOMAIN g :
                g[n] \in DOMAIN found /\ \E match \in found[g[n]] : id \in match.skip
  <2> DEFINE Good == {k \in 0..N : f[k] \in X}
  <2>1. 0 \in Good
    <3>1. 0 \in 0..N  BY <1>0
    <3>2. f[0] = {}  BY <1>9, <3>1
    <3> QED  BY <1>1, <3>1, <3>2
  <2>2. ASSUME NEW i \in 0..(N - 1), i \in Good PROVE i + 1 \in Good
    <3>1. i + 1 \in 1..N /\ i + 1 \in 0..N /\ (i + 1) - 1 = i  BY <1>0
    <3>2. f[i + 1] = More(i + 1, f[i])  BY <1>10, <3>1
    <3>3. f[i] \in X  BY <2>2
    <3>4. f[i + 1] \in X  BY <1>2, <3>1, <3>2, <3>3
    <3> QED  BY <3>1, <3>4
  <2>3. \A k \in 0..N : k \in Good
    <3> HIDE DEF Good
    <3> QED  BY <1>0, <2>1, <2>2, UpTo
  <2>4. f[N] \in X  BY <1>0, <2>3
  <2>5. PICK k \in 1..N : g[k] \in DOMAIN found /\ id \in New(k)  BY <1>14, <2>4 DEF X
  <2> QED  BY <1>0, <2>5 DEF New
<1> QED  BY <1>8, <1>13, <1>14

(* What can stand where match was found, and what that makes superfluous. *)
Absorbs(g, match, n) == Replaces(g, match.node, n) /\ match.skip \subseteq Spent(g)

(* A pass that fuses patterns hands a graph on if what it finds fits. *)
LEMMA FuseFollows ==
  ASSUME NEW g, Orderly(g), NEW found,
         \A n \in DOMAIN g : g[n] \in DOMAIN found =>
           \A match \in found[g[n]] : Absorbs(g, match, n)
  PROVE  Follows(Fuse(g, found), g)
<1>1. \A n \in DOMAIN g : g[n] \in DOMAIN Fused(found) => Replaces(g, Fused(found)[g[n]], n)
  <2> TAKE n \in DOMAIN g
  <2> HAVE g[n] \in DOMAIN Fused(found)
  <2>1. /\ g[n] \in DOMAIN found /\ found[g[n]] # {}
        /\ Fused(found)[g[n]] = (CHOOSE match \in found[g[n]] : TRUE).node
    BY DEF Fused
  <2>2. (CHOOSE match \in found[g[n]] : TRUE) \in found[g[n]]  BY <2>1
  <2> QED  BY <2>1, <2>2 DEF Absorbs
<1>2. PICK dropped : /\ Fuse(g, found) = Rewrite(g, Fused(found), dropped)
                     /\ \A id \in dropped : \E n \in DOMAIN g :
                          g[n] \in DOMAIN found /\ \E match \in found[g[n]] : id \in match.skip
  BY FuseSkips
<1>3. dropped \subseteq Spent(g)  BY <1>2 DEF Absorbs
<1> QED  BY <1>1, <1>2, <1>3, RewriteFollows

-----------------------------------------------------------------------------
(* Walks from a tensor to what it was made from.                           *)

(* A step through the producer of a ready tensor. *)
LEMMA Step ==
  ASSUME NEW g, Orderly(g), NEW n \in DOMAIN g, NEW t, t \in Ready(g, n) \/ t = NoTensor,
         NEW op, ProducedBy(g, t, op), op # "ROPETable"
  PROVE  LET v == Producer(g, t) IN
         /\ t \in Ready(g, n) /\ Producers(g, t) # {}
         /\ v \in Node /\ v.inputs \in Seq(Tensor) /\ Len(v.inputs) \in Nat
         /\ DOMAIN v.inputs = 1..Len(v.inputs)
         /\ \A i \in DOMAIN v.inputs : v.inputs[i] \in Ready(g, n)
         /\ op \notin Lasting => v.id \in Spent(g)
<1>1. Producers(g, t) # {} /\ Producer(g, t).op = op  BY DEF ProducedBy
<1>2. t \in Ready(g, n)  BY <1>1 DEF Orderly
<1> QED  BY <1>1, <1>2, Upstream

(* The last of some inputs of a node that reads what is ready. *)
LEMMA LastInputReady ==
  ASSUME NEW g, NEW n, NEW v, v.inputs \in Seq(Tensor), NEW S \in SUBSET DOMAIN v.inputs,
         \A i \in DOMAIN v.inputs : v.inputs[i] \in Ready(g, n)
  PROVE  LastInput(v, S) \in Ready(g, n) \/ LastInput(v, S) = NoTensor
<1>1. CASE S = {}  BY <1>1 DEF LastInput
<1>2. CASE S # {}
  <2>1. DOMAIN v.inputs = 1..Len(v.inputs) /\ Len(v.inputs) \in Nat  OBVIOUS
  <2>2. Largest(S) \in S  BY <1>2, <2>1, LargestIs
  <2> QED  BY <1>2, <2>2 DEF LastInput
<1> QED  BY <1>1, <1>2

(* And the one that is no constant. *)
LEMMA NonConstantReady ==
  ASSUME NEW g, NEW n, NEW v, v.inputs \in Seq(Tensor),
         \A i \in DOMAIN v.inputs : v.inputs[i] \in Ready(g, n)
  PROVE  NonConstant(g, v) \in Ready(g, n) \/ NonConstant(g, v) = NoTensor
<1> DEFINE S == {i \in DOMAIN v.inputs : ~ ProducedBy(g, v.inputs[i], "Constant")}
<1>1. CASE S = {}  BY <1>1 DEF NonConstant
<1>2. CASE S # {}
  <2>1. S \in SUBSET Nat  OBVIOUS
  <2>2. Smallest(S) \in S  BY <1>2, <2>1, SmallestIs
  <2> QED  BY <1>2, <2>2 DEF NonConstant
<1> QED  BY <1>1, <1>2

(* What a walk may have come to at the nth node. *)
Walked(g, n) == [tensor : Ready(g, n) \cup {NoTensor}, ids : SUBSET Spent(g)]

(* f is a walk of N steps, each of which keeps to X. *)
Walks(f, N, X, base, step) ==
  /\ N \in Nat /\ base \in X /\ step \in [1..N -> [X -> X]]
  /\ f[0] = base
  /\ \A k \in 1..N : f[k - 1] \in X => f[k] = step[k][f[k - 1]]

(* A walk whose steps keep to X stays in X. *)
LEMMA WalkStays ==
  ASSUME NEW N, NEW X, NEW base, NEW step, NEW f, Walks(f, N, X, base, step)
  PROVE  \A k \in 0..N : f[k] \in X
<1>0. /\ N \in Nat /\ base \in X /\ step \in [1..N -> [X -> X]] /\ f[0] = base
      /\ \A k \in 1..N : f[k - 1] \in X => f[k] = step[k][f[k - 1]]
  BY DEF Walks
<1> DEFINE Good == {k \in 0..N : f[k] \in X}
<1>1. 0 \in Good  BY <1>0
<1>2. ASSUME NEW i \in 0..(N - 1), i \in Good PROVE i + 1 \in Good
  <2> DEFINE k == i + 1
  <2>1. k \in 1..N /\ k \in 0..N /\ k - 1 = i  BY <1>0
  <2>2. f[i] \in X  BY <1>2
  <2> HIDE DEF k, Good
  <2>3. f[k] = step[k][f[i]]  BY <1>0, <2>1, <2>2
  <2>4. f[k] \in X  BY <1>0, <2>1, <2>2, <2>3
  <2>5. k \in Good  BY <2>1, <2>4 DEF Good
  <2> QED  BY <2>5 DEF k
<1>3. \A k \in 0..N : k \in Good
  <2> HIDE DEF Good
  <2> QED  BY <1>0, <1>1, <1>2, UpTo
<1> QED  BY <1>3

(* One step of Down. *)
DownStep(g, s, w) ==
  IF ~ Sole(g, w.tensor, s.op) \/ Producer(g, w.tensor).inputs = <<>>
  THEN [tensor |-> NoTensor, ids |-> {}]
  ELSE [tensor |-> IF s.varying THEN NonConstant(g, Producer(g, w.tensor))
                   ELSE Producer(g, w.tensor).inputs[1],
        ids |-> w.ids \cup {Producer(g, w.tensor).id}]

(* One step of Along. *)
AlongStep(g, op, w) ==
  IF ~ ProducedBy(g, w.tensor, op) \/ Producer(g, w.tensor).inputs = <<>>
  THEN [tensor |-> NoTensor, ids |-> {}]
  ELSE [tensor |-> Producer(g, w.tensor).inputs[1], ids |-> w.ids \cup {Producer(g, w.tensor).id}]

(* One step of BehindCasts. *)
CastStep(g, w) ==
  IF ProducedBy(g, w.tensor, "Cast") /\ Producer(g, w.tensor).inputs # <<>>
  THEN [tensor |-> Producer(g, w.tensor).inputs[1], ids |-> w.ids \cup {Producer(g, w.tensor).id}]
  ELSE w

(* One step of BehindTransposes. *)
TransposeStep(g, w) ==
  IF IsHidingTranspose(g, w.tensor)
  THEN [tensor |-> Producer(g, w.tensor).inputs[1],
        pattern |-> <<Producer(g, w.tensor).id>> \o w.pattern]
  ELSE w

(* A path whose nodes go when it is fused. *)
Passing(path) == \A k \in 1..Len(path) : path[k].op \notin Lasting

(* How Down walks. *)
DownWalk(f, g, path, t) ==
  f = [k \in 0..Len(path) |->
         IF k = 0 THEN [tensor |-> t, ids |-> {}] ELSE DownStep(g, path[k], f[k - 1])]

(* From a tensor that is ready, Down comes to one that is, or to none. *)
LEMMA DownReady ==
  ASSUME NEW g, Orderly(g), NEW n \in DOMAIN g, NEW t, t \in Ready(g, n) \/ t = NoTensor,
         NEW path, Len(path) \in Nat, Passing(path)
  PROVE  Down(g, path, t) \in Walked(g, n)
<1> DEFINE N == Len(path)
           X == Walked(g, n)
           base == [tensor |-> t, ids |-> {}]
           step == [k \in 1..N |-> [w \in X |-> DownStep(g, path[k], w)]]
           f == CHOOSE h : DownWalk(h, g, path, t)
<1>0. N \in Nat  BY OrderlyTyped
<1>1. base \in X  BY DEF Walked
<1>2. ASSUME NEW k \in 1..N, NEW w \in X PROVE DownStep(g, path[k], w) \in X
  <2> DEFINE v == Producer(g, w.tensor)
  <2>1. w.tensor \in Ready(g, n) \cup {NoTensor} /\ w.ids \in SUBSET Spent(g)  BY DEF Walked
  <2>2. ASSUME ProducedBy(g, w.tensor, path[k].op), v.inputs # <<>>
        PROVE  /\ v.inputs[1] \in Ready(g, n) /\ v.id \in Spent(g)
               /\ NonConstant(g, v) \in Ready(g, n) \cup {NoTensor}
    <3>1. /\ v \in Node /\ v.inputs \in Seq(Tensor) /\ Len(v.inputs) \in Nat
          /\ DOMAIN v.inputs = 1..Len(v.inputs)
          /\ \A i \in DOMAIN v.inputs : v.inputs[i] \in Ready(g, n)
          /\ v.id \in Spent(g)
      BY <2>1, <2>2, Step DEF Passing, Lasting, Plural, N
    <3>2. 1 \in DOMAIN v.inputs  BY <2>2, <3>1
    <3>3. NonConstant(g, v) \in Ready(g, n) \cup {NoTensor}  BY <3>1, NonConstantReady
    <3> QED  BY <3>1, <3>2, <3>3
  <2> HIDE DEF v
  <2> QED  BY <2>1, <2>2 DEF DownStep, Sole, Walked, v
<1>3. step \in [1..N -> [X -> X]]  BY <1>2
<1> HIDE DEF X, base, N
<1>4. PICK h \in [0..N -> X] : Recursion(h, N, base, step)
  <2> HIDE DEF step
  <2> QED  BY <1>0, <1>1, <1>3, RecursionExists
<1>5. \A k \in 1..N : \A w \in X : step[k][w] = DownStep(g, path[k], w)
  OBVIOUS
<1> HIDE DEF step
<1>6. DownWalk(h, g, path, t)
  <2>1. ASSUME NEW k \in 0..N, k # 0 PROVE step[k][h[k - 1]] = DownStep(g, path[k], h[k - 1])
    <3>1. k \in 1..N /\ k - 1 \in 0..N  BY <1>0, <2>1
    <3>2. h[k - 1] \in X  BY <3>1
    <3> QED  BY <1>5, <3>1, <3>2
  <2>2. h = [k \in 0..N |-> IF k = 0 THEN base ELSE step[k][h[k - 1]]]  BY <1>4 DEF Recursion
  <2>3. h = [k \in 0..N |-> IF k = 0 THEN base ELSE DownStep(g, path[k], h[k - 1])]  BY <2>1, <2>2
  <2> QED  BY <2>3 DEF DownWalk, N, base
<1>7. DownWalk(f, g, path, t)  BY <1>6
<1>8. Down(g, path, t) = f[N]  BY DEF Down, DownStep, DownWalk, N
<1> HIDE DEF f
<1>9. f = [k \in 0..N |-> IF k = 0 THEN base ELSE DownStep(g, path[k], f[k - 1])]
  BY <1>7 DEF DownWalk, N, base
<1>10. f[0] = base /\ \A k \in 1..N : f[k - 1] \in X => f[k] = step[k][f[k - 1]]
  <2>1. 0 \in 0..N /\ \A k \in 1..N : k \in 0..N /\ k # 0  BY <1>0
  <2>2. f[0] = base  BY <1>9, <2>1
  <2>3. ASSUME NEW k \in 1..N, f[k - 1] \in X PROVE f[k] = step[k][f[k - 1]]
    <3>1. f[k] = DownStep(g, path[k], f[k - 1])  BY <1>9, <2>1
    <3> QED  BY <1>5, <2>3, <3>1
  <2> QED  BY <2>2, <2>3
<1>11. Walks(f, N, X, base, step)  BY <1>0, <1>1, <1>3, <1>10 DEF Walks
<1>12. f[N] \in X  BY <1>0, <1>11, WalkStays
<1> QED  BY <1>8, <1>12 DEF X, Walked

(* How Along walks. *)
AlongWalk(f, g, path, t) ==
  f = [k \in 0..Len(path) |->
         IF k = 0 THEN [tensor |-> t, ids |-> {}] ELSE AlongStep(g, path[k], f[k - 1])]

(* So does Along. *)
LEMMA AlongReady ==
  ASSUME NEW g, Orderly(g), NEW n \in DOMAIN g, NEW t, t \in Ready(g, n) \/ t = NoTensor,
         NEW path, Len(path) \in Nat, \A k \in 1..Len(path) : path[k] \notin Lasting
  PROVE  Along(g, path, t) \in Walked(g, n)
<1> DEFINE N == Len(path)
           X == Walked(g, n)
           base == [tensor |-> t, ids |-> {}]
           step == [k \in 1..N |-> [w \in X |-> AlongStep(g, path[k], w)]]
           f == CHOOSE h : AlongWalk(h, g, path, t)
<1>0. N \in Nat  BY OrderlyTyped
<1>1. base \in X  BY DEF Walked
<1>2. ASSUME NEW k \in 1..N, NEW w \in X PROVE AlongStep(g, path[k], w) \in X
  <2> DEFINE v == Producer(g, w.tensor)
  <2>1. w.tensor \in Ready(g, n) \cup {NoTensor} /\ w.ids \in SUBSET Spent(g)  BY DEF Walked
  <2>2. ASSUME ProducedBy(g, w.tensor, path[k]), v.inputs # <<>>
        PROVE  /\ v.inputs[1] \in Ready(g, n) /\ v.id \in Spent(g)
               /\ NonConstant(g, v) \in Ready(g, n) \cup {NoTensor}
    <3>1. /\ v \in Node /\ v.inputs \in Seq(Tensor) /\ Len(v.inputs) \in Nat
          /\ DOMAIN v.inputs = 1..Len(v.inputs)
          /\ \A i \in DOMAIN v.inputs : v.inputs[i] \in Ready(g, n)
          /\ v.id \in Spent(g)
      BY <2>1, <2>2, Step DEF Lasting, Plural
    <3>2. 1 \in DOMAIN v.inputs  BY <2>2, <3>1
    <3>3. NonConstant(g, v) \in Ready(g, n) \cup {NoTensor}  BY <3>1, NonConstantReady
    <3> QED  BY <3>1, <3>2, <3>3
  <2> HIDE DEF v
  <2> QED  BY <2>1, <2>2 DEF AlongStep, Walked, v
<1>3. step \in [1..N -> [X -> X]]  BY <1>2
<1> HIDE DEF X, base, N
<1>4. PICK h \in [0..N -> X] : Recursion(h, N, base, step)
  <2> HIDE DEF step
  <2> QED  BY <1>0, <1>1, <1>3, RecursionExists
<1>5. \A k \in 1..N : \A w \in X : step[k][w] = AlongStep(g, path[k], w)
  OBVIOUS
<1> HIDE DEF step
<1>6. AlongWalk(h, g, path, t)
  <2>1. ASSUME NEW k \in 0..N, k # 0 PROVE step[k][h[k - 1]] = AlongStep(g, path[k], h[k - 1])
    <3>1. k \in 1..N /\ k - 1 \in 0..N  BY <1>0, <2>1
    <3>2. h[k - 1] \in X  BY <3>1
    <3> QED  BY <1>5, <3>1, <3>2
  <2>2. h = [k \in 0..N |-> IF k = 0 THEN base ELSE step[k][h[k - 1]]]  BY <1>4 DEF Recursion
  <2>3. h = [k \in 0..N |-> IF k = 0 THEN base ELSE AlongStep(g, path[k], h[k - 1])]  BY <2>1, <2>2
  <2> QED  BY <2>3 DEF AlongWalk, N, base
<1>7. AlongWalk(f, g, path, t)  BY <1>6
<1>8. Along(g, path, t) = f[N]  BY DEF Along, AlongStep, AlongWalk, N
<1> HIDE DEF f
<1>9. f = [k \in 0..N |-> IF k = 0 THEN base ELSE AlongStep(g, path[k], f[k - 1])]
  BY <1>7 DEF AlongWalk, N, base
<1>10. f[0] = base /\ \A k \in 1..N : f[k - 1] \in X => f[k] = step[k][f[k - 1]]
  <2>1. 0 \in 0..N /\ \A k \in 1..N : k \in 0..N /\ k # 0  BY <1>0
  <2>2. f[0] = base  BY <1>9, <2>1
  <2>3. ASSUME NEW k \in 1..N, f[k - 1] \in X PROVE f[k] = step[k][f[k - 1]]
    <3>1. f[k] = AlongStep(g, path[k], f[k - 1])  BY <1>9, <2>1
    <3> QED  BY <1>5, <2>3, <3>1
  <2> QED  BY <2>2, <2>3
<1>11. Walks(f, N, X, base, step)  BY <1>0, <1>1, <1>3, <1>10 DEF Walks
<1>12. f[N] \in X  BY <1>0, <1>11, WalkStays
<1> QED  BY <1>8, <1>12 DEF X

(* How BehindCasts walks. *)
BehindCastsWalk(f, g, t) ==
  f = [k \in 0..Len(g) |-> IF k = 0 THEN [tensor |-> t, ids |-> {}] ELSE CastStep(g, f[k - 1])]

(* So does BehindCasts. *)
LEMMA BehindCastsReady ==
  ASSUME NEW g, Orderly(g), NEW n \in DOMAIN g, NEW t, t \in Ready(g, n) \/ t = NoTensor
  PROVE  BehindCasts(g, t) \in Walked(g, n)
<1> DEFINE N == Len(g)
           X == Walked(g, n)
           base == [tensor |-> t, ids |-> {}]
           step == [k \in 1..N |-> [w \in X |-> CastStep(g, w)]]
           f == CHOOSE h : BehindCastsWalk(h, g, t)
<1>0. N \in Nat  BY OrderlyTyped
<1>1. base \in X  BY DEF Walked
<1>2. ASSUME NEW k \in 1..N, NEW w \in X PROVE CastStep(g, w) \in X
  <2> DEFINE v == Producer(g, w.tensor)
  <2>1. w.tensor \in Ready(g, n) \cup {NoTensor} /\ w.ids \in SUBSET Spent(g)  BY DEF Walked
  <2>2. ASSUME ProducedBy(g, w.tensor, "Cast"), v.inputs # <<>>
        PROVE  /\ v.inputs[1] \in Ready(g, n) /\ v.id \in Spent(g)
               /\ NonConstant(g, v) \in Ready(g, n) \cup {NoTensor}
    <3>1. /\ v \in Node /\ v.inputs \in Seq(Tensor) /\ Len(v.inputs) \in Nat
          /\ DOMAIN v.inputs = 1..Len(v.inputs)
          /\ \A i \in DOMAIN v.inputs : v.inputs[i] \in Ready(g, n)
          /\ v.id \in Spent(g)
      BY <2>1, <2>2, Step DEF Lasting, Plural, Several
    <3>2. 1 \in DOMAIN v.inputs  BY <2>2, <3>1
    <3>3. NonConstant(g, v) \in Ready(g, n) \cup {NoTensor}  BY <3>1, NonConstantReady
    <3> QED  BY <3>1, <3>2, <3>3
  <2> HIDE DEF v
  <2> QED  BY <2>1, <2>2 DEF CastStep, Walked, v
<1>3. step \in [1..N -> [X -> X]]  BY <1>2
<1> HIDE DEF X, base, N
<1>4. PICK h \in [0..N -> X] : Recursion(h, N, base, step)
  <2> HIDE DEF step
  <2> QED  BY <1>0, <1>1, <1>3, RecursionExists
<1>5. \A k \in 1..N : \A w \in X : step[k][w] = CastStep(g, w)
  OBVIOUS
<1> HIDE DEF step
<1>6. BehindCastsWalk(h, g, t)
  <2>1. ASSUME NEW k \in 0..N, k # 0 PROVE step[k][h[k - 1]] = CastStep(g, h[k - 1])
    <3>1. k \in 1..N /\ k - 1 \in 0..N  BY <1>0, <2>1
    <3>2. h[k - 1] \in X  BY <3>1
    <3> QED  BY <1>5, <3>1, <3>2
  <2>2. h = [k \in 0..N |-> IF k = 0 THEN base ELSE step[k][h[k - 1]]]  BY <1>4 DEF Recursion
  <2>3. h = [k \in 0..N |-> IF k = 0 THEN base ELSE CastStep(g, h[k - 1])]  BY <2>1, <2>2
  <2> QED  BY <2>3 DEF BehindCastsWalk, N, base
<1>7. BehindCastsWalk(f, g, t)  BY <1>6
<1>8. BehindCasts(g, t) = f[N]  BY DEF BehindCasts, CastStep, BehindCastsWalk, N
<1> HIDE DEF f
<1>9. f = [k \in 0..N |-> IF k = 0 THEN base ELSE CastStep(g, f[k - 1])]
  BY <1>7 DEF BehindCastsWalk, N, base
<1>10. f[0] = base /\ \A k \in 1..N : f[k - 1] \in X => f[k] = step[k][f[k - 1]]
  <2>1. 0 \in 0..N /\ \A k \in 1..N : k \in 0..N /\ k # 0  BY <1>0
  <2>2. f[0] = base  BY <1>9, <2>1
  <2>3. ASSUME NEW k \in 1..N, f[k - 1] \in X PROVE f[k] = step[k][f[k - 1]]
    <3>1. f[k] = CastStep(g, f[k - 1])  BY <1>9, <2>1
    <3> QED  BY <1>5, <2>3, <3>1
  <2> QED  BY <2>2, <2>3
<1>11. Walks(f, N, X, base, step)  BY <1>0, <1>1, <1>3, <1>10 DEF Walks
<1>12. f[N] \in X  BY <1>0, <1>11, WalkStays
<1> QED  BY <1>8, <1>12 DEF X, Walked

(* How BehindTransposes walks. *)
BehindTransposesWalk(f, g, t) ==
  f = [k \in 0..Len(g) |->
         IF k = 0 THEN [tensor |-> t, pattern |-> <<>>] ELSE TransposeStep(g, f[k - 1])]

(* BehindTransposes always comes to one. *)
LEMMA BehindTransposesReady ==
  ASSUME NEW g, Orderly(g), NEW n \in DOMAIN g, NEW t \in Ready(g, n)
  PROVE  /\ BehindTransposes(g, t).tensor \in Ready(g, n)
         /\ BehindTransposes(g, t).pattern \in Seq(Spent(g))
<1> DEFINE N == Len(g)
           X == [tensor : Ready(g, n), pattern : Seq(Spent(g))]
           base == [tensor |-> t, pattern |-> <<>>]
           step == [k \in 1..N |-> [w \in X |-> TransposeStep(g, w)]]
           f == CHOOSE h : BehindTransposesWalk(h, g, t)
<1>0. N \in Nat  BY OrderlyTyped
<1>1. base \in X  BY DEF Walked
<1>2. ASSUME NEW k \in 1..N, NEW w \in X PROVE TransposeStep(g, w) \in X
  <2> DEFINE v == Producer(g, w.tensor)
  <2>1. w.tensor \in Ready(g, n) \cup {NoTensor} /\ w.pattern \in Seq(Spent(g))  BY DEF Walked
  <2>2. ASSUME ProducedBy(g, w.tensor, "Transpose"), v.inputs # <<>>
        PROVE  /\ v.inputs[1] \in Ready(g, n) /\ v.id \in Spent(g)
               /\ NonConstant(g, v) \in Ready(g, n) \cup {NoTensor}
    <3>1. /\ v \in Node /\ v.inputs \in Seq(Tensor) /\ Len(v.inputs) \in Nat
          /\ DOMAIN v.inputs = 1..Len(v.inputs)
          /\ \A i \in DOMAIN v.inputs : v.inputs[i] \in Ready(g, n)
          /\ v.id \in Spent(g)
      BY <2>1, <2>2, Step DEF Lasting, Plural, Several
    <3>2. 1 \in DOMAIN v.inputs  BY <2>2, <3>1
    <3>3. NonConstant(g, v) \in Ready(g, n) \cup {NoTensor}  BY <3>1, NonConstantReady
    <3> QED  BY <3>1, <3>2, <3>3
  <2> HIDE DEF v
  <2>3. ASSUME v.id \in Spent(g) PROVE <<v.id>> \o w.pattern \in Seq(Spent(g))  BY <2>1, <2>3
  <2> QED  BY <2>1, <2>2, <2>3 DEF TransposeStep, IsHidingTranspose, Walked, v
<1>3. step \in [1..N -> [X -> X]]  BY <1>2
<1> HIDE DEF X, base, N
<1>4. PICK h \in [0..N -> X] : Recursion(h, N, base, step)
  <2> HIDE DEF step
  <2> QED  BY <1>0, <1>1, <1>3, RecursionExists
<1>5. \A k \in 1..N : \A w \in X : step[k][w] = TransposeStep(g, w)
  OBVIOUS
<1> HIDE DEF step
<1>6. BehindTransposesWalk(h, g, t)
  <2>1. ASSUME NEW k \in 0..N, k # 0 PROVE step[k][h[k - 1]] = TransposeStep(g, h[k - 1])
    <3>1. k \in 1..N /\ k - 1 \in 0..N  BY <1>0, <2>1
    <3>2. h[k - 1] \in X  BY <3>1
    <3> QED  BY <1>5, <3>1, <3>2
  <2>2. h = [k \in 0..N |-> IF k = 0 THEN base ELSE step[k][h[k - 1]]]  BY <1>4 DEF Recursion
  <2>3. h = [k \in 0..N |-> IF k = 0 THEN base ELSE TransposeStep(g, h[k - 1])]  BY <2>1, <2>2
  <2> QED  BY <2>3 DEF BehindTransposesWalk, N, base
<1>7. BehindTransposesWalk(f, g, t)  BY <1>6
<1>8. BehindTransposes(g, t) = f[N]  BY DEF BehindTransposes, TransposeStep, BehindTransposesWalk, N
<1> HIDE DEF f
<1>9. f = [k \in 0..N |-> IF k = 0 THEN base ELSE TransposeStep(g, f[k - 1])]
  BY <1>7 DEF BehindTransposesWalk, N, base
<1>10. f[0] = base /\ \A k \in 1..N : f[k - 1] \in X => f[k] = step[k][f[k - 1]]
  <2>1. 0 \in 0..N /\ \A k \in 1..N : k \in 0..N /\ k # 0  BY <1>0
  <2>2. f[0] = base  BY <1>9, <2>1
  <2>3. ASSUME NEW k \in 1..N, f[k - 1] \in X PROVE f[k] = step[k][f[k - 1]]
    <3>1. f[k] = TransposeStep(g, f[k - 1])  BY <1>9, <2>1
    <3> QED  BY <1>5, <2>3, <3>1
  <2> QED  BY <2>2, <2>3
<1>11. Walks(f, N, X, base, step)  BY <1>0, <1>1, <1>3, <1>10 DEF Walks
<1>12. f[N] \in X  BY <1>0, <1>11, WalkStays
<1> QED  BY <1>8, <1>12 DEF X, Walked

-----------------------------------------------------------------------------
(* Nodes that change their operator, origin or inputs.                     *)

(* What a node becomes keeps its id and its outputs and has another operator. *)
NewOps == (Ops \cup Derived) \ {"Mul", "Sin"}

Renamed(v, op)              == [v EXCEPT !.op = op]
Relabelled(v, op, origin)   == [v EXCEPT !.op = op, !.origin = origin]
Fed(v, op, ins)             == [v EXCEPT !.op = op, !.inputs = ins]
(* What a matched node is rebuilt to. *)
Rebuilt(v, op, origin, ins) == [v EXCEPT !.op = op, !.origin = origin, !.inputs = ins]

(* A node can stand where it stands under the name of another operator, *)
LEMMA RenamedReplaces ==
  ASSUME NEW g, Orderly(g), NEW n \in DOMAIN g, NEW op \in NewOps, Becomes(g[n], op)
  PROVE  Replaces(g, Renamed(g[n], op), n)
<1> DEFINE v == g[n]
           w == Renamed(v, op)
<1>1. v \in Node /\ \A i \in DOMAIN v.inputs : v.inputs[i] \in Ready(g, n)  BY OrderlyTyped
<1> HIDE DEF v
<1>2. w \in Node /\ w.id = v.id /\ w.outputs = v.outputs /\ w.op = op /\ w.inputs = v.inputs
  BY <1>1 DEF Node, NewOps, Renamed
<1> HIDE DEF w
<1>3. \A i \in DOMAIN w.inputs : w.inputs[i] \in Ready(g, n)  BY <1>1, <1>2
<1>4. w.op \notin {"Mul", "Sin"}  BY <1>2 DEF NewOps
<1>5. Replaces(g, w, n)  BY <1>2, <1>3, <1>4, NewReplaces DEF v
<1> QED  BY <1>5 DEF w, v

(* with an origin as well, *)
LEMMA RelabelledReplaces ==
  ASSUME NEW g, Orderly(g), NEW n \in DOMAIN g, NEW op \in NewOps, Becomes(g[n], op),
         NEW origin \in Origins
  PROVE  Replaces(g, Relabelled(g[n], op, origin), n)
<1> DEFINE v == g[n]
           w == Relabelled(v, op, origin)
<1>1. v \in Node /\ \A i \in DOMAIN v.inputs : v.inputs[i] \in Ready(g, n)  BY OrderlyTyped
<1> HIDE DEF v
<1>2. w \in Node /\ w.id = v.id /\ w.outputs = v.outputs /\ w.op = op /\ w.inputs = v.inputs
  BY <1>1 DEF Node, NewOps, Relabelled
<1> HIDE DEF w
<1>3. \A i \in DOMAIN w.inputs : w.inputs[i] \in Ready(g, n)  BY <1>1, <1>2
<1>4. w.op \notin {"Mul", "Sin"}  BY <1>2 DEF NewOps
<1>5. Replaces(g, w, n)  BY <1>2, <1>3, <1>4, NewReplaces DEF v
<1> QED  BY <1>5 DEF w, v

(* with inputs that are ready there, *)
LEMMA FedReplaces ==
  ASSUME NEW g, Orderly(g), NEW n \in DOMAIN g, NEW op \in NewOps, Becomes(g[n], op),
         NEW ins \in Seq(Tensor), \A i \in DOMAIN ins : ins[i] \in Ready(g, n)
  PROVE  Replaces(g, Fed(g[n], op, ins), n)
<1> DEFINE v == g[n]
           w == Fed(v, op, ins)
<1>1. v \in Node /\ \A i \in DOMAIN v.inputs : v.inputs[i] \in Ready(g, n)  BY OrderlyTyped
<1> HIDE DEF v
<1>2. w \in Node /\ w.id = v.id /\ w.outputs = v.outputs /\ w.op = op /\ w.inputs = ins
  BY <1>1 DEF Node, NewOps, Fed
<1> HIDE DEF w
<1>3. \A i \in DOMAIN w.inputs : w.inputs[i] \in Ready(g, n)  BY <1>1, <1>2
<1>4. w.op \notin {"Mul", "Sin"}  BY <1>2 DEF NewOps
<1>5. Replaces(g, w, n)  BY <1>2, <1>3, <1>4, NewReplaces DEF v
<1> QED  BY <1>5 DEF w, v

(* or with both. *)
LEMMA RebuiltReplaces ==
  ASSUME NEW g, Orderly(g), NEW n \in DOMAIN g, NEW op \in NewOps, Becomes(g[n], op),
         NEW origin \in Origins,
         NEW ins \in Seq(Tensor), \A i \in DOMAIN ins : ins[i] \in Ready(g, n)
  PROVE  Replaces(g, Rebuilt(g[n], op, origin, ins), n)
<1> DEFINE v == g[n]
           w == Rebuilt(v, op, origin, ins)
<1>1. v \in Node /\ \A i \in DOMAIN v.inputs : v.inputs[i] \in Ready(g, n)  BY OrderlyTyped
<1> HIDE DEF v
<1>2. w \in Node /\ w.id = v.id /\ w.outputs = v.outputs /\ w.op = op /\ w.inputs = ins
  BY <1>1 DEF Node, NewOps, Rebuilt
<1> HIDE DEF w
<1>3. \A i \in DOMAIN w.inputs : w.inputs[i] \in Ready(g, n)  BY <1>1, <1>2
<1>4. w.op \notin {"Mul", "Sin"}  BY <1>2 DEF NewOps
<1>5. Replaces(g, w, n)  BY <1>2, <1>3, <1>4, NewReplaces DEF v
<1> QED  BY <1>5 DEF w, v

(* The nodes with one of some operators are nodes of the graph with one. *)
LEMMA Named ==
  ASSUME NEW g, NEW ops, NEW v \in WithOp(g, ops)
  PROVE  v.op \in ops /\ v \in ToSet(g)
BY DEF WithOp

(* And have a place in it. *)
LEMMA OfGraph ==
  ASSUME NEW g, NEW v \in ToSet(g)
  PROVE  \E n \in DOMAIN g : v = g[n]
BY DEF ToSet

-----------------------------------------------------------------------------
(* Products by a constant.                                                 *)

(* What a product by a constant reads behind its transposes is ready. *)
LEMMA LinearInputsReady ==
  ASSUME NEW g, Orderly(g), NEW n \in DOMAIN g, NEW v, v.inputs \in Seq(Tensor),
         \A i \in DOMAIN v.inputs : v.inputs[i] \in Ready(g, n), WeightSides(g, v) # {}
  PROVE  /\ LinearInputs(g, v).activation \in Ready(g, n)
         /\ LinearInputs(g, v).weight \in Ready(g, n)
         /\ LinearInputs(g, v).pattern \in Seq(Spent(g))
<1> DEFINE i == Smallest(WeightSides(g, v))
<1>1. WeightSides(g, v) \in SUBSET Nat /\ WeightSides(g, v) \subseteq 1..2  BY DEF WeightSides
<1>2. i \in WeightSides(g, v)  BY <1>1, SmallestIs
<1>3. i \in 1..2 /\ 3 - i \in 1..2 /\ Len(v.inputs) = 2  BY <1>1, <1>2 DEF WeightSides
<1> HIDE DEF i
<1>4. i \in DOMAIN v.inputs /\ 3 - i \in DOMAIN v.inputs  BY <1>3
<1>5. v.inputs[i] \in Ready(g, n) /\ v.inputs[3 - i] \in Ready(g, n)  BY <1>4
<1>6. /\ BehindTransposes(g, v.inputs[i]).tensor \in Ready(g, n)
      /\ BehindTransposes(g, v.inputs[i]).pattern \in Seq(Spent(g))
  BY <1>5, BehindTransposesReady
<1> QED  BY <1>5, <1>6 DEF LinearInputs, i

(* A Linear made of a product and an addition can stand where the addition stood. *)
LEMMA LinearOfAddReplaces ==
  ASSUME NEW g, Orderly(g), NEW n \in DOMAIN g, g[n].op = "Add", ProductSides(g, g[n]) # {}
  PROVE  Replaces(g, LinearOfAdd(g, g[n]), n) /\ FirstOfPattern(g, g[n]) \in Spent(g)
<1> DEFINE v == g[n]
           i == Smallest(ProductSides(g, v))
           product == Absorbed(g, v)
           l == LinearInputs(g, product)
           ins == <<l.activation, l.weight, v.inputs[3 - i]>>
<1>1. ProductSides(g, v) \in SUBSET Nat  BY DEF ProductSides
<1>2. i \in ProductSides(g, v)  BY <1>1, SmallestIs
<1>3. /\ i \in 1..2 /\ Len(v.inputs) = 2 /\ ProducedBy(g, v.inputs[i], "MatMul")
      /\ WeightSides(g, Producer(g, v.inputs[i])) # {}
  BY <1>2 DEF ProductSides
<1>4. /\ product = Producer(g, v.inputs[i])
      /\ LinearOfAdd(g, v) = Rebuilt(v, "Linear", "MatMulAdd", ins)
  BY DEF Absorbed, LinearOfAdd, Rebuilt
<1> HIDE DEF i, product
<1>5. i \in DOMAIN v.inputs /\ 3 - i \in DOMAIN v.inputs  BY <1>3, OrderlyTyped
<1>6. v.inputs[i] \in Ready(g, n) /\ v.inputs[3 - i] \in Ready(g, n)  BY <1>5, OrderlyTyped
<1>7. /\ product.inputs \in Seq(Tensor)
      /\ \A j \in DOMAIN product.inputs : product.inputs[j] \in Ready(g, n)
      /\ product.id \in Spent(g)
  BY <1>3, <1>4, <1>6, Step DEF Lasting, Plural, Several
<1>8. /\ l.activation \in Ready(g, n) /\ l.weight \in Ready(g, n)
      /\ l.pattern \in Seq(Spent(g))
  BY <1>3, <1>4, <1>7, LinearInputsReady
<1>11. FirstOfPattern(g, v) = Head(l.pattern \o <<product.id, v.id>>)
  BY DEF FirstOfPattern, product
<1> HIDE DEF l
<1>12. FirstOfPattern(g, v) \in Spent(g)
  <2> DEFINE s == l.pattern \o <<product.id, v.id>>
  <2>1. Head(s) = s[1]  OBVIOUS
  <2>2. Len(l.pattern) \in Nat /\ s[1] = IF Len(l.pattern) > 0 THEN l.pattern[1] ELSE product.id
    BY <1>8
  <2>3. s[1] \in Spent(g)  BY <1>7, <1>8, <2>2
  <2> QED  BY <1>11, <2>1, <2>3
<1>9. ins \in Seq(Tensor) /\ \A j \in DOMAIN ins : ins[j] \in Ready(g, n)
  BY <1>6, <1>8 DEF Ready
<1>10. "Linear" \in NewOps /\ "MatMulAdd" \in Origins
  BY DEF NewOps, Derived, Origins
<1> HIDE DEF ins
<1>13. Becomes(v, "Linear")  BY DEF Becomes, Plural, Several
<1>14. Replaces(g, LinearOfAdd(g, v), n)  BY <1>4, <1>9, <1>10, <1>13, RebuiltReplaces
<1> QED  BY <1>12, <1>14

(* Products with a bias are fused. *)
LEMMA FuseMatMulAddFollows ==
  ASSUME NEW g, Orderly(g)
  PROVE  Follows(FuseMatMulAdd(g), g)
<1> DEFINE adds == {v \in ToSet(g) : v.op = "Add" /\ ProductSides(g, v) # {}}
           fused == [v \in adds |-> LinearOfAdd(g, v)]
<1>1. \A n \in DOMAIN g : g[n] \in DOMAIN fused => Replaces(g, fused[g[n]], n)
  BY LinearOfAddReplaces
<1> DEFINE dropped == {FirstOfPattern(g, v) : v \in adds}
<1>2. FuseMatMulAdd(g) = Rewrite(g, fused, dropped)  BY DEF FuseMatMulAdd
<1>3. dropped \subseteq Spent(g)
  <2> SUFFICES ASSUME NEW v \in adds PROVE FirstOfPattern(g, v) \in Spent(g)  OBVIOUS
  <2> QED  BY OfGraph, LinearOfAddReplaces
<1> HIDE DEF fused, dropped
<1> QED  BY <1>1, <1>2, <1>3, RewriteFollows

(* Products by a constant become Linear nodes. *)
LEMMA NormalizeConstantMatMulFollows ==
  ASSUME NEW g, Orderly(g)
  PROVE  Follows(NormalizeConstantMatMul(g), g)
<1> DEFINE products == {v \in ToSet(g) : v.op = "MatMul" /\ WeightSides(g, v) # {}}
           fused == [v \in products |-> LinearOfMatMul(g, v)]
<1>1. ASSUME NEW n \in DOMAIN g, g[n] \in DOMAIN fused
      PROVE  Replaces(g, fused[g[n]], n) /\ ToSet(LinearInputs(g, g[n]).pattern) \subseteq Spent(g)
  <2> DEFINE l == LinearInputs(g, g[n])
             ins == <<l.activation, l.weight>>
  <2>1. g[n].op = "MatMul" /\ WeightSides(g, g[n]) # {}  BY <1>1
  <2>2. fused[g[n]] = Rebuilt(g[n], "Linear", "MatMul", ins)
    BY <1>1 DEF LinearOfMatMul, Rebuilt
  <2> HIDE DEF fused
  <2>3. /\ g[n].inputs \in Seq(Tensor)
        /\ \A j \in DOMAIN g[n].inputs : g[n].inputs[j] \in Ready(g, n)
    BY OrderlyTyped
  <2>4. /\ l.activation \in Ready(g, n) /\ l.weight \in Ready(g, n)
        /\ l.pattern \in Seq(Spent(g))
    BY <2>1, <2>3, LinearInputsReady
  <2> HIDE DEF l
  <2>5. ins \in Seq(Tensor) /\ \A j \in DOMAIN ins : ins[j] \in Ready(g, n)
    BY <2>4 DEF Ready
  <2>6. "Linear" \in NewOps /\ "MatMul" \in Origins
    BY DEF NewOps, Ops, Derived, Origins
  <2> HIDE DEF ins
  <2>7. Becomes(g[n], "Linear")  BY <2>1 DEF Becomes, Plural, Several
  <2>8. Replaces(g, fused[g[n]], n)  BY <2>1, <2>2, <2>5, <2>6, <2>7, RebuiltReplaces
  <2>9. ToSet(l.pattern) \subseteq Spent(g)  BY <2>4 DEF ToSet
  <2> QED  BY <2>8, <2>9 DEF l
<1> DEFINE dropped == UNION {ToSet(LinearInputs(g, v).pattern) : v \in products}
<1>2. NormalizeConstantMatMul(g) = Rewrite(g, fused, dropped)  BY DEF NormalizeConstantMatMul
<1>3. dropped \subseteq Spent(g)
  <2> SUFFICES ASSUME NEW v \in products PROVE ToSet(LinearInputs(g, v).pattern) \subseteq Spent(g)
    OBVIOUS
  <2>1. DOMAIN fused = products  OBVIOUS
  <2> HIDE DEF fused
  <2>2. PICK n \in DOMAIN g : v = g[n]  BY OfGraph
  <2> QED  BY <1>1, <2>1, <2>2
<1> HIDE DEF fused, dropped
<1> QED  BY <1>1, <1>2, <1>3, RewriteFollows

-----------------------------------------------------------------------------
(* Passes that give nodes other names.                                     *)

(* Quantised products change their name only. *)
LEMMA NormalizeMatMulNBitsFollows ==
  ASSUME NEW g, Orderly(g)
  PROVE  Follows(NormalizeMatMulNBits(g), g)
<1> DEFINE class == [v \in {u \in ToSet(g) : u.op = "MatMulNBits"} |->
                       [v EXCEPT !.op = "Linear", !.origin = "MatMulNBits"]]
<1>0. "Linear" \in NewOps /\ "MatMulNBits" \in Origins
  BY DEF NewOps, Ops, Derived, Origins
<1>1. ASSUME NEW n \in DOMAIN g, g[n] \in DOMAIN class PROVE Replaces(g, class[g[n]], n)
  <2>1. g[n].op = "MatMulNBits"
        /\ class[g[n]] = Relabelled(g[n], "Linear", "MatMulNBits")
    BY <1>1 DEF Relabelled
  <2> HIDE DEF class
  <2>2. Becomes(g[n], "Linear")  BY <2>1 DEF Becomes, Plural, Several
  <2> QED  BY <1>0, <2>1, <2>2, RelabelledReplaces
<1>2. NormalizeMatMulNBits(g) = Reclassify(g, class)  BY DEF NormalizeMatMulNBits
<1> HIDE DEF class
<1> QED  BY <1>1, <1>2, ReclassifyFollows

(* So do norms, *)
LEMMA NormalizeSimplifiedLayernormFollows ==
  ASSUME NEW g, Orderly(g)
  PROVE  Follows(NormalizeSimplifiedLayernorm(g), g)
<1> DEFINE norms == {v \in ToSet(g) :
                       /\ v.op \in {"SimplifiedLayerNormalization", "LayerNorm"}
                       /\ Len(v.inputs) = 2 /\ ProducedBy(g, v.inputs[2], "Constant")}
           class == [v \in norms |-> [v EXCEPT !.op = "RMSNorm"]]
<1>0. "RMSNorm" \in NewOps /\ "NoOrigin" \in Origins
  BY DEF NewOps, Ops, Derived, Origins
<1>1. ASSUME NEW n \in DOMAIN g, g[n] \in DOMAIN class PROVE Replaces(g, class[g[n]], n)
  <2>1. /\ g[n].op \in {"SimplifiedLayerNormalization", "LayerNorm", "Add"}
        /\ class[g[n]] = Renamed(g[n], "RMSNorm")
    BY <1>1 DEF Renamed
  <2> HIDE DEF class
  <2>2. Becomes(g[n], "RMSNorm")  BY <2>1 DEF Becomes, Plural, Several
  <2> QED  BY <1>0, <2>1, <2>2, RenamedReplaces
<1>2. NormalizeSimplifiedLayernorm(g) = Reclassify(g, class)  BY DEF NormalizeSimplifiedLayernorm
<1> HIDE DEF class
<1> QED  BY <1>1, <1>2, ReclassifyFollows

(* additions of activations, *)
LEMMA FuseResidualAddFollows ==
  ASSUME NEW g, Orderly(g)
  PROVE  Follows(FuseResidualAdd(g), g)
<1> DEFINE adds == {v \in ToSet(g) : /\ v.op = "Add" /\ v.kind = "hidden" /\ Len(v.inputs) = 2
                                     /\ \A i \in 1..2 : ~ ProducedBy(g, v.inputs[i], "Constant")}
           class == [v \in adds |-> [v EXCEPT !.op = "ResidualAdd"]]
<1>0. "ResidualAdd" \in NewOps /\ "NoOrigin" \in Origins
  BY DEF NewOps, Ops, Derived, Origins
<1>1. ASSUME NEW n \in DOMAIN g, g[n] \in DOMAIN class PROVE Replaces(g, class[g[n]], n)
  <2>1. /\ g[n].op \in {"SimplifiedLayerNormalization", "LayerNorm", "Add"}
        /\ class[g[n]] = Renamed(g[n], "ResidualAdd")
    BY <1>1 DEF Renamed
  <2> HIDE DEF class
  <2>2. Becomes(g[n], "ResidualAdd")  BY <2>1 DEF Becomes, Plural, Several
  <2> QED  BY <1>0, <2>1, <2>2, RenamedReplaces
<1>2. FuseResidualAdd(g) = Reclassify(g, class)  BY DEF FuseResidualAdd
<1> HIDE DEF class
<1> QED  BY <1>1, <1>2, ReclassifyFollows

(* A classified node remembers the operator it had, which is one of a model's. *)
LEMMA ClassifiedReplaces ==
  ASSUME NEW g, Orderly(g), NEW n \in DOMAIN g, g[n].op \in Ops \ Several,
         NEW op \in {"AttentionMaskPrep", "ShapeHelper", "LayoutFallback"}
  PROVE  Replaces(g, Classified(g[n], op), n)
<1>1. op \in NewOps /\ g[n].op \in Origins  BY DEF NewOps, Derived, Origins
<1>2. Becomes(g[n], op)  BY DEF Becomes, Plural, Ops
<1>3. Classified(g[n], op) = Relabelled(g[n], op, g[n].op)  BY DEF Classified, Relabelled
<1> QED  BY <1>1, <1>2, <1>3, RelabelledReplaces

(* what an attention's mask is made from, *)
LEMMA ClassifyAttentionMaskPrepFollows ==
  ASSUME NEW g, Orderly(g)
  PROVE  Follows(ClassifyAttentionMaskPrep(g), g)
<1> DEFINE made == {Producer(g, t) : t \in {u \in MaskTensors(g) : Producers(g, u) # {}}}
           class == [v \in {u \in made : u.op \in MaskPrepOps} |->
                       Classified(v, "AttentionMaskPrep")]
<1>0. MaskPrepOps \subseteq Ops \ Several  BY DEF MaskPrepOps, Ops, Several
<1>1. ASSUME NEW n \in DOMAIN g, g[n] \in DOMAIN class PROVE Replaces(g, class[g[n]], n)
  <2> HIDE DEF made
  <2>1. g[n].op \in Ops \ Several /\ class[g[n]] = Classified(g[n], "AttentionMaskPrep")
    BY <1>0, <1>1
  <2> HIDE DEF class
  <2> QED  BY <2>1, ClassifiedReplaces
<1>2. ClassifyAttentionMaskPrep(g) = Reclassify(g, class)  BY DEF ClassifyAttentionMaskPrep
<1> HIDE DEF class
<1> QED  BY <1>1, <1>2, ReclassifyFollows

(* what computes shapes, *)
LEMMA ClassifyShapeHelpersFollows ==
  ASSUME NEW g, Orderly(g)
  PROVE  Follows(ClassifyShapeHelpers(g), g)
<1> DEFINE class == [v \in {u \in ToSet(g) : IsShapeHelper(u)} |-> Classified(v, "ShapeHelper")]
<1>1. ASSUME NEW n \in DOMAIN g, g[n] \in DOMAIN class PROVE Replaces(g, class[g[n]], n)
  <2>1. IsShapeHelper(g[n]) /\ class[g[n]] = Classified(g[n], "ShapeHelper")  BY <1>1
  <2>2. g[n].op \in Ops \ Several  BY <2>1 DEF IsShapeHelper, Ops, Several
  <2> HIDE DEF class
  <2> QED  BY <2>1, <2>2, ClassifiedReplaces
<1>2. ClassifyShapeHelpers(g) = Reclassify(g, class)  BY DEF ClassifyShapeHelpers
<1> HIDE DEF class
<1> QED  BY <1>1, <1>2, ReclassifyFollows

(* and what moves data. *)
LEMMA ClassifyLayoutFallbackFollows ==
  ASSUME NEW g, Orderly(g)
  PROVE  Follows(ClassifyLayoutFallback(g), g)
<1> DEFINE class == [v \in WithOp(g, LayoutOps) |-> Classified(v, "LayoutFallback")]
<1>0. LayoutOps \subseteq Ops \ Several  BY DEF LayoutOps, Ops, Several
<1>1. ASSUME NEW n \in DOMAIN g, g[n] \in DOMAIN class PROVE Replaces(g, class[g[n]], n)
  <2>1. g[n].op \in Ops \ Several /\ class[g[n]] = Classified(g[n], "LayoutFallback")
    BY <1>0, <1>1, Named
  <2> HIDE DEF class
  <2> QED  BY <2>1, ClassifiedReplaces
<1>2. ClassifyLayoutFallback(g) = Reclassify(g, class)  BY DEF ClassifyLayoutFallback
<1> HIDE DEF class
<1> QED  BY <1>1, <1>2, ReclassifyFollows

-----------------------------------------------------------------------------
(* Matches.                                                                *)

(* What matches one of the ways matches some way. *)
LEMMA FirstOfIs ==
  ASSUME NEW ways, DOMAIN ways \subseteq Nat, NEW match \in FirstOf(ways)
  PROVE  \E i \in DOMAIN ways : match \in ways[i]
<1> DEFINE S == {i \in DOMAIN ways : ways[i] # {}}
<1>1. ~ \A i \in DOMAIN ways : ways[i] = {}  BY DEF FirstOf
<1>2. S # {} /\ S \in SUBSET Nat  BY <1>1
<1>3. FirstOf(ways) = ways[Smallest(S)]  BY <1>1 DEF FirstOf
<1> HIDE DEF S
<1>4. Smallest(S) \in S  BY <1>2, SmallestIs
<1> QED  BY <1>3, <1>4 DEF S

(* A node's inputs are ready where it stands. *)
LEMMA InputReady ==
  ASSUME NEW g, Orderly(g), NEW n \in DOMAIN g, NEW i \in 1..Len(g[n].inputs)
  PROVE  g[n].inputs[i] \in Ready(g, n) /\ g[n].inputs[i] \in Tensor
BY OrderlyTyped DEF Ready

-----------------------------------------------------------------------------
(* Embeddings.                                                             *)

(* A gather changes its name. *)
LEMMA AsLookupReplaces ==
  ASSUME NEW g, Orderly(g), NEW n \in DOMAIN g, g[n].op \in {"Gather", "GatherBlockQuantized"}
  PROVE  Replaces(g, AsLookup(g[n]), n)
<1>1. "EmbeddingLookup" \in NewOps /\ g[n].op \in Origins /\ Becomes(g[n], "EmbeddingLookup")
  BY DEF NewOps, Derived, Ops, Origins, Becomes, Plural, Several
<1>2. AsLookup(g[n]) = Relabelled(g[n], "EmbeddingLookup", g[n].op)
  BY DEF AsLookup, Relabelled
<1> QED  BY <1>1, <1>2, RelabelledReplaces

(* Quantised gathers become lookups. *)
LEMMA NormalizeQuantizedEmbeddingFollows ==
  ASSUME NEW g, Orderly(g)
  PROVE  Follows(NormalizeQuantizedEmbedding(g), g)
<1> DEFINE class == [v \in {u \in WithOp(g, {"GatherBlockQuantized"}) : EmbedsQuantized(g, u)} |->
                       AsLookup(v)]
<1>1. ASSUME NEW n \in DOMAIN g, g[n] \in DOMAIN class PROVE Replaces(g, class[g[n]], n)
  <2>1. g[n].op = "GatherBlockQuantized" /\ class[g[n]] = AsLookup(g[n])  BY <1>1, Named
  <2> HIDE DEF class
  <2> QED  BY <2>1, AsLookupReplaces
<1>2. NormalizeQuantizedEmbedding(g) = Reclassify(g, class)  BY DEF NormalizeQuantizedEmbedding
<1> HIDE DEF class
<1> QED  BY <1>1, <1>2, ReclassifyFollows

(* So do plain ones. *)
LEMMA NormalizeEmbeddingGatherFollows ==
  ASSUME NEW g, Orderly(g)
  PROVE  Follows(NormalizeEmbeddingGather(g), g)
<1> DEFINE class == [v \in {u \in WithOp(g, {"Gather"}) : Embeds(g, u)} |-> AsLookup(v)]
<1>1. ASSUME NEW n \in DOMAIN g, g[n] \in DOMAIN class PROVE Replaces(g, class[g[n]], n)
  <2>1. g[n].op = "Gather" /\ class[g[n]] = AsLookup(g[n])  BY <1>1, Named
  <2> HIDE DEF class
  <2> QED  BY <2>1, AsLookupReplaces
<1>2. NormalizeEmbeddingGather(g) = Reclassify(g, class)  BY DEF NormalizeEmbeddingGather
<1> HIDE DEF class
<1> QED  BY <1>1, <1>2, ReclassifyFollows

(* A scaled lookup can stand where the product stood, and absorbs what is spent. *)
LEMMA ScaledLookupFits ==
  ASSUME NEW g, Orderly(g), NEW n \in DOMAIN g, g[n].op = "Mul",
         NEW match \in ScaledLookup(g, g[n])
  PROVE  Absorbs(g, match, n)
<1> DEFINE mul == g[n]
           Node0(v, i) == [AsLookup(v) EXCEPT !.id = mul.id, !.outputs = mul.outputs,
                             !.kind = mul.kind, !.inputs = Append(v.inputs, mul.inputs[3 - i])]
           Found(i) == {u \in ToSet(g) : /\ Producers(g, mul.inputs[i]) # {}
                                         /\ u = Producer(g, mul.inputs[i])
                                         /\ ProducedBy(g, mul.inputs[3 - i], "Constant")
                                         /\ UsedOnce(g, u) /\ IsLookup(g, u)}
           ways == [i \in 1..2 |-> {[node |-> Node0(v, i), skip |-> {v.id}] : v \in Found(i)}]
<1>1. Len(mul.inputs) = 2 /\ ScaledLookup(g, mul) = FirstOf(ways)  BY DEF ScaledLookup
<1>2. PICK i \in 1..2 : match \in ways[i]
  <2>1. DOMAIN ways \subseteq Nat /\ DOMAIN ways = 1..2  OBVIOUS
  <2> HIDE DEF ways
  <2> QED  BY <1>1, <2>1, FirstOfIs
<1>3. PICK v \in Found(i) : match = [node |-> Node0(v, i), skip |-> {v.id}]
  <2> HIDE DEF Node0, Found
  <2> QED  BY <1>2
<1>4. /\ Producers(g, mul.inputs[i]) # {} /\ v = Producer(g, mul.inputs[i])
      /\ v.op = "EmbeddingLookup" \/ v.op = "Gather"
  BY <1>3 DEF IsLookup
<1>5. i \in 1..Len(mul.inputs) /\ 3 - i \in 1..Len(mul.inputs)
  <2> HIDE DEF ways
  <2>1. i = 1 \/ i = 2  BY <1>2
  <2> QED  BY <1>1, <2>1
<1>6. mul.inputs[i] \in Ready(g, n) /\ mul.inputs[3 - i] \in Ready(g, n)  BY <1>5, InputReady
<1>7. v.op # "ROPETable" /\ v.op \notin Lasting  BY <1>4 DEF Lasting, Plural, Several
<1>8. /\ v \in Node /\ v.inputs \in Seq(Tensor)
      /\ \A j \in DOMAIN v.inputs : v.inputs[j] \in Ready(g, n)
      /\ v.id \in Spent(g)
  BY <1>4, <1>6, <1>7, Upstream
<1> DEFINE ins == Append(v.inputs, mul.inputs[3 - i])
<1>9. ins \in Seq(Tensor) /\ \A j \in DOMAIN ins : ins[j] \in Ready(g, n)
  <2>1. mul.inputs[3 - i] \in Tensor  BY <1>6 DEF Ready
  <2>2. ins \in Seq(Tensor)  BY <1>8, <2>1
  <2>3. \A j \in DOMAIN ins :
          (j \in DOMAIN v.inputs /\ ins[j] = v.inputs[j]) \/ ins[j] = mul.inputs[3 - i]
    BY <1>8
  <2> HIDE DEF ins
  <2> QED  BY <1>6, <1>8, <2>2, <2>3
<1> HIDE DEF ins
<1>10. AsLookup(v) \in Node /\ AsLookup(v).op = "EmbeddingLookup"
  <2> DEFINE o == IF v.op = "EmbeddingLookup" THEN v.origin ELSE v.op
  <2>1. o \in Origins  BY <1>4, <1>8 DEF Node, Origins, Ops
  <2>2. AsLookup(v) = Relabelled(v, "EmbeddingLookup", o)  BY DEF AsLookup, Relabelled
  <2> HIDE DEF o
  <2>3. "EmbeddingLookup" \in Derived  BY DEF Derived
  <2> QED  BY <1>8, <2>1, <2>2, <2>3 DEF Node, Relabelled
<1>11. mul \in Node  BY OrderlyTyped
<1> DEFINE a == AsLookup(v)
           w == [a EXCEPT !.id = mul.id, !.outputs = mul.outputs, !.kind = mul.kind, !.inputs = ins]
<1>12. match.node = w /\ match.skip = {v.id}  BY <1>3 DEF ins
<1> HIDE DEF a, mul
<1>13. w \in Node /\ w.id = mul.id /\ w.outputs = mul.outputs /\ w.op = "EmbeddingLookup"
       /\ w.inputs = ins
  BY <1>9, <1>10, <1>11 DEF Node, a
<1> HIDE DEF w
<1>14. \A j \in DOMAIN w.inputs : w.inputs[j] \in Ready(g, n)  BY <1>9, <1>13
<1>15. w.op \notin {"Mul", "Sin"} /\ Becomes(mul, w.op)
  BY <1>13 DEF mul, Becomes, Plural, Several
<1>16. Replaces(g, w, n)  BY <1>13, <1>14, <1>15, NewReplaces DEF mul
<1> QED  BY <1>8, <1>12, <1>16 DEF Absorbs

(* Embeddings are fused. *)
LEMMA FuseEmbeddingLookupFollows ==
  ASSUME NEW g, Orderly(g)
  PROVE  Follows(FuseEmbeddingLookup(g), g)
<1>1. ASSUME NEW h, Orderly(h) PROVE Follows(FuseScaledEmbedding(h), h)
  <2> DEFINE found == [v \in WithOp(h, {"Mul"}) |-> ScaledLookup(h, v)]
  <2>1. ASSUME NEW n \in DOMAIN h, h[n] \in DOMAIN found, NEW match \in found[h[n]]
        PROVE  Absorbs(h, match, n)
    <3>1. h[n].op = "Mul" /\ match \in ScaledLookup(h, h[n])  BY <2>1, Named
    <3> QED  BY <1>1, <3>1, ScaledLookupFits
  <2>2. FuseScaledEmbedding(h) = Fuse(h, found)  BY DEF FuseScaledEmbedding
  <2> HIDE DEF found
  <2> QED  BY <1>1, <2>1, <2>2, FuseFollows
<1> DEFINE h == NormalizeQuantizedEmbedding(g)
           k == FuseScaledEmbedding(h)
<1>2. Follows(h, g)  BY NormalizeQuantizedEmbeddingFollows
<1> HIDE DEF h
<1>3. Follows(k, h)  BY <1>1, <1>2 DEF Follows
<1> HIDE DEF k
<1>4. Follows(NormalizeEmbeddingGather(k), k)  BY <1>3, NormalizeEmbeddingGatherFollows DEF Follows
<1>5. Follows(NormalizeEmbeddingGather(k), g)  BY <1>2, <1>3, <1>4, FollowsOn
<1> QED  BY <1>5 DEF FuseEmbeddingLookup, k, h

-----------------------------------------------------------------------------
(* Norms and gated units.                                                  *)

(* A norm can stand where its last product stood, and absorbs what is spent. *)
LEMMA RmsNormFits ==
  ASSUME NEW g, Orderly(g), NEW n \in DOMAIN g, g[n].op = "Mul", NEW match \in RmsNorm(g, g[n])
  PROVE  Absorbs(g, match, n)
<1> DEFINE v == g[n]
           sides == {i \in 1..2 : /\ Len(v.inputs) = 2 /\ ProducedBy(g, v.inputs[i], "Mul")
                                  /\ ProducedBy(g, v.inputs[3 - i], "Constant")}
           i == Smallest(sides)
           norm == Producer(g, v.inputs[i])
           roots == {j \in DOMAIN norm.inputs : ProducedBy(g, norm.inputs[j], "Div")}
           activation == LastInput(norm, DOMAIN norm.inputs \ roots)
           ins == <<activation, v.inputs[3 - i]>>
           mean == Down(g, <<Varying("Div"), First("Sqrt"), Varying("Add"), First("ReduceMean"),
                             Varying("Pow")>>, LastInput(norm, roots))
           there == /\ sides # {} /\ UsedOnce(g, norm) /\ activation # NoTensor
                    /\ mean.tensor = activation
           w == [v EXCEPT !.op = "RMSNorm", !.inputs = ins]
<1>1. /\ sides # {} /\ activation # NoTensor /\ match.node = w
      /\ match.skip = mean.ids \cup {norm.id}
  <2>1. RmsNorm(g, v) = IF there THEN {[node |-> w, skip |-> mean.ids \cup {norm.id}]} ELSE {}
    BY DEF RmsNorm
  <2> HIDE DEF w, mean
  <2>2. there /\ match = [node |-> w, skip |-> mean.ids \cup {norm.id}]
    <3> HIDE DEF there
    <3> QED  BY <2>1
  <2> QED  BY <2>2
<1>2. sides \in SUBSET Nat  OBVIOUS
<1>3. i \in sides
  <2> HIDE DEF sides
  <2> QED  BY <1>1, <1>2, SmallestIs
<1>4. i \in 1..2 /\ Len(v.inputs) = 2 /\ ProducedBy(g, v.inputs[i], "Mul")
  <2> HIDE DEF i
  <2> QED  BY <1>3
<1> DEFINE path == <<Varying("Div"), First("Sqrt"), Varying("Add"), First("ReduceMean"),
                     Varying("Pow")>>
           fromRoot == LastInput(norm, roots)
<1>13. mean = Down(g, path, fromRoot)  OBVIOUS
<1> HIDE DEF mean, path
<1> HIDE DEF i, sides
<1>5. i \in 1..Len(v.inputs) /\ 3 - i \in 1..Len(v.inputs)  BY <1>4
<1>6. v.inputs[i] \in Ready(g, n) /\ v.inputs[3 - i] \in Ready(g, n)  BY <1>5, InputReady
<1>7. /\ norm.inputs \in Seq(Tensor)
      /\ \A j \in DOMAIN norm.inputs : norm.inputs[j] \in Ready(g, n)
      /\ norm.id \in Spent(g)
  BY <1>4, <1>6, Step DEF Lasting, Plural, Several
<1>14. fromRoot \in Ready(g, n) \/ fromRoot = NoTensor
  <2>1. roots \in SUBSET DOMAIN norm.inputs  OBVIOUS
  <2> HIDE DEF norm, roots
  <2> QED  BY <1>7, <2>1, LastInputReady
<1> HIDE DEF fromRoot
<1>15. mean.ids \subseteq Spent(g)
  <2>1. Len(path) \in Nat /\ Passing(path)
    BY DEF path, Passing, First, Varying, Lasting, Plural, Several
  <2>2. Down(g, path, fromRoot) \in Walked(g, n)  BY <1>14, <2>1, DownReady
  <2> QED  BY <1>13, <2>2 DEF Walked
<1>16. match.skip \subseteq Spent(g)  BY <1>1, <1>7, <1>15
<1>8. activation \in Ready(g, n)
  <2> DEFINE others == DOMAIN norm.inputs \ roots
  <2>1. others \in SUBSET DOMAIN norm.inputs /\ activation = LastInput(norm, others)  OBVIOUS
  <2> HIDE DEF norm, others, activation
  <2>2. LastInput(norm, others) \in Ready(g, n) \/ LastInput(norm, others) = NoTensor
    BY <1>7, <2>1, LastInputReady
  <2> QED  BY <1>1, <2>1, <2>2
<1> HIDE DEF norm, roots
<1> HIDE DEF activation
<1>9. ins \in Seq(Tensor) /\ \A j \in DOMAIN ins : ins[j] \in Ready(g, n)
  BY <1>6, <1>8 DEF Ready
<1>10. "RMSNorm" \in NewOps  BY DEF NewOps, Derived
<1> HIDE DEF ins
<1>11. match.node = Fed(v, "RMSNorm", ins)  BY <1>1 DEF Fed, ins
<1>12. Becomes(v, "RMSNorm")  BY DEF Becomes, Plural, Several
<1>17. Replaces(g, match.node, n)  BY <1>9, <1>10, <1>11, <1>12, FedReplaces
<1> QED  BY <1>16, <1>17 DEF Absorbs

(* Norms that are spelled out are fused. *)
LEMMA FuseRmsNormFollows ==
  ASSUME NEW g, Orderly(g)
  PROVE  Follows(FuseRmsNorm(g), g)
<1> DEFINE found == [v \in WithOp(g, {"Mul"}) |-> RmsNorm(g, v)]
<1>1. ASSUME NEW n \in DOMAIN g, g[n] \in DOMAIN found, NEW match \in found[g[n]]
      PROVE  Absorbs(g, match, n)
  <2>1. g[n].op = "Mul" /\ match \in RmsNorm(g, g[n])  BY <1>1, Named
  <2> QED  BY <2>1, RmsNormFits
<1>2. FuseRmsNorm(g) = Fuse(g, found)  BY DEF FuseRmsNorm
<1> HIDE DEF found
<1> QED  BY <1>1, <1>2, FuseFollows

(* What a Gelu node that a tensor comes from reads is ready. *)
LEMMA GeluNodeReady ==
  ASSUME NEW g, Orderly(g), NEW n \in DOMAIN g, NEW t \in Ready(g, n),
         NEW match \in GeluNode(g, t)
  PROVE  match.gate \in Ready(g, n) /\ match.ids \subseteq Spent(g)
<1> DEFINE v == Producer(g, t)
<1>1. /\ ProducedBy(g, t, "Gelu") /\ v.inputs # <<>>
      /\ match = [gate |-> v.inputs[1], ids |-> {v.id}]
  BY DEF GeluNode, Sole
<1>2. /\ Len(v.inputs) \in Nat /\ v.inputs \in Seq(Tensor) /\ DOMAIN v.inputs = 1..Len(v.inputs)
      /\ \A j \in DOMAIN v.inputs : v.inputs[j] \in Ready(g, n)
      /\ v.id \in Spent(g)
  BY <1>1, Step DEF Lasting, Plural, Several
<1> HIDE DEF v
<1>3. 1 \in DOMAIN v.inputs  BY <1>1, <1>2
<1> QED  BY <1>1, <1>2, <1>3

(* A step through a product or a sum. *)
LEMMA TermReady ==
  ASSUME NEW g, Orderly(g), NEW n \in DOMAIN g, NEW t, t \in Ready(g, n) \/ t = NoTensor,
         NEW op \in {"Add", "Mul"}, Sole(g, t, op)
  PROVE  LET v == Producer(g, t) IN
         /\ v.id \in Spent(g)
         /\ \A S \in SUBSET DOMAIN v.inputs :
              LastInput(v, S) \in Ready(g, n) \/ LastInput(v, S) = NoTensor
<1> DEFINE v == Producer(g, t)
<1>1. ProducedBy(g, t, op) /\ op # "ROPETable" /\ op \notin Lasting
  BY DEF Sole, Lasting, Plural, Several
<1>2. /\ v.inputs \in Seq(Tensor) /\ v.id \in Spent(g)
      /\ \A j \in DOMAIN v.inputs : v.inputs[j] \in Ready(g, n)
  BY <1>1, Step
<1> HIDE DEF v
<1>3. \A S \in SUBSET DOMAIN v.inputs :
        LastInput(v, S) \in Ready(g, n) \/ LastInput(v, S) = NoTensor
  BY <1>2, LastInputReady
<1> QED  BY <1>2, <1>3 DEF v

(* So is what an approximation that is spelled out starts from, and its nodes are spent. *)
LEMMA GeluTanhReady ==
  ASSUME NEW g, Orderly(g), NEW n \in DOMAIN g, NEW t \in Ready(g, n),
         NEW match \in GeluTanh(g, t)
  PROVE  match.gate \in Ready(g, n) /\ match.ids \subseteq Spent(g)
<1> DEFINE half == <<Varying("Mul")>>
           tanh == <<Varying("Add"), First("Tanh"), Varying("Mul")>>
           mixed == Down(g, half, t)
           mix == Producer(g, mixed.tensor)
           sums == {j \in DOMAIN mix.inputs : ProducedBy(g, mix.inputs[j], "Add")}
           gate == LastInput(mix, DOMAIN mix.inputs \ sums)
           grown == LastInput(mix, sums)
           inner == Down(g, tanh, grown)
           sum == Producer(g, inner.tensor)
           cubes == {j \in DOMAIN sum.inputs :
                       sum.inputs[j] # gate /\ ProducedBy(g, sum.inputs[j], "Mul")}
           term == LastInput(sum, cubes)
           cubed == Down(g, half, term)
           cube == Producer(g, cubed.tensor)
           squares == {j \in DOMAIN cube.inputs : cube.inputs[j] # gate}
           square == LastInput(cube, squares)
           there == /\ Sole(g, mixed.tensor, "Mul") /\ gate # NoTensor
                    /\ Sole(g, inner.tensor, "Add") /\ Sole(g, cubed.tensor, "Mul")
                    /\ Sole(g, square, "Mul") /\ Producer(g, square).inputs = <<gate, gate>>
           ids == (UNION {mixed.ids, inner.ids, cubed.ids})
                    \cup {mix.id, sum.id, cube.id, Producer(g, square).id}
<1>1. GeluTanh(g, t) = IF there THEN {[gate |-> gate, ids |-> ids]} ELSE {}  BY DEF GeluTanh
<1>2. Passing(half) /\ Len(half) \in Nat /\ Passing(tanh) /\ Len(tanh) \in Nat
  BY DEF Passing, First, Varying, Lasting, Plural, Several
<1> HIDE DEF half, tanh
<1>3. there /\ match.gate = gate /\ match.ids = ids
  <2> HIDE DEF there, ids, gate
  <2> QED  BY <1>1
<1>4. /\ Sole(g, mixed.tensor, "Mul") /\ gate # NoTensor
      /\ Sole(g, inner.tensor, "Add") /\ Sole(g, cubed.tensor, "Mul")
      /\ Sole(g, square, "Mul")
  BY <1>3
<1> HIDE DEF there
<1>5. mixed \in Walked(g, n)  BY <1>2, DownReady
<1> HIDE DEF mixed
<1>6. mixed.tensor \in Ready(g, n) \/ mixed.tensor = NoTensor  BY <1>5 DEF Walked
<1>7. sums \in SUBSET DOMAIN mix.inputs /\ DOMAIN mix.inputs \ sums \in SUBSET DOMAIN mix.inputs
  OBVIOUS
<1> HIDE DEF sums
<1>8. mix.id \in Spent(g)  BY <1>4, <1>6, TermReady
<1>9. /\ gate \in Ready(g, n) \/ gate = NoTensor
      /\ grown \in Ready(g, n) \/ grown = NoTensor
  BY <1>4, <1>6, <1>7, TermReady
<1> HIDE DEF gate, grown, mix
<1>10. inner \in Walked(g, n)  BY <1>2, <1>9, DownReady
<1> HIDE DEF inner
<1>11. inner.tensor \in Ready(g, n) \/ inner.tensor = NoTensor  BY <1>10 DEF Walked
<1>12. cubes \in SUBSET DOMAIN sum.inputs  OBVIOUS
<1> HIDE DEF cubes
<1>13. sum.id \in Spent(g) /\ (term \in Ready(g, n) \/ term = NoTensor)
  BY <1>4, <1>11, <1>12, TermReady
<1> HIDE DEF term, sum
<1>14. cubed \in Walked(g, n)  BY <1>2, <1>13, DownReady
<1> HIDE DEF cubed
<1>15. cubed.tensor \in Ready(g, n) \/ cubed.tensor = NoTensor  BY <1>14 DEF Walked
<1>16. squares \in SUBSET DOMAIN cube.inputs  OBVIOUS
<1> HIDE DEF squares
<1>17. cube.id \in Spent(g) /\ (square \in Ready(g, n) \/ square = NoTensor)
  BY <1>4, <1>15, <1>16, TermReady
<1> HIDE DEF square, cube
<1>18. Producer(g, square).id \in Spent(g)  BY <1>4, <1>17, TermReady
<1>19. mixed.ids \subseteq Spent(g) /\ inner.ids \subseteq Spent(g) /\ cubed.ids \subseteq Spent(g)
  BY <1>5, <1>10, <1>14 DEF Walked
<1>20. ids \subseteq Spent(g)
  <2> DEFINE walked == UNION {mixed.ids, inner.ids, cubed.ids}
             passed == {mix.id, sum.id, cube.id, Producer(g, square).id}
  <2>1. walked \subseteq Spent(g)  BY <1>19
  <2>2. passed \subseteq Spent(g)  BY <1>8, <1>13, <1>17, <1>18
  <2>3. ids = walked \cup passed  OBVIOUS
  <2> HIDE DEF walked, passed, ids
  <2> QED  BY <2>1, <2>2, <2>3
<1> QED  BY <1>3, <1>4, <1>9, <1>20

(* What goes into a Gelu is ready where its result is. *)
LEMMA GeluReady ==
  ASSUME NEW g, Orderly(g), NEW n \in DOMAIN g, NEW t \in Ready(g, n), NEW match \in Gelu(g, t)
  PROVE  match.gate \in Ready(g, n) /\ match.ids \subseteq Spent(g)
<1> DEFINE ways == <<GeluNode(g, t), GeluTanh(g, t)>>
<1>1. PICK i \in 1..2 : match \in ways[i]
  <2>1. DOMAIN ways = 1..2 /\ DOMAIN ways \subseteq Nat /\ Gelu(g, t) = FirstOf(ways)  BY DEF Gelu
  <2> HIDE DEF ways
  <2> QED  BY <2>1, FirstOfIs
<1>2. match \in GeluNode(g, t) \/ match \in GeluTanh(g, t)  BY <1>1
<1> QED  BY <1>2, GeluNodeReady, GeluTanhReady

(* A gated unit can stand where its last product stood, and absorbs what is spent. *)
LEMMA GeGluFits ==
  ASSUME NEW g, Orderly(g), NEW n \in DOMAIN g, g[n].op = "Mul", NEW match \in GeGlu(g, g[n])
  PROVE  Absorbs(g, match, n)
<1> DEFINE v == g[n]
           ways == [i \in 1..2 |->
                      {[node |-> [v EXCEPT !.op = "GeGLU", !.inputs = <<m.gate, v.inputs[3 - i]>>],
                        skip |-> m.ids] : m \in Gelu(g, v.inputs[i])}]
<1>1. Len(v.inputs) = 2 /\ GeGlu(g, v) = FirstOf(ways)  BY DEF GeGlu
<1>2. PICK i \in 1..2 : match \in ways[i]
  <2>1. DOMAIN ways \subseteq Nat /\ DOMAIN ways = 1..2  OBVIOUS
  <2> HIDE DEF ways
  <2> QED  BY <1>1, <2>1, FirstOfIs
<1>3. PICK m \in Gelu(g, v.inputs[i]) :
        /\ match.node = [v EXCEPT !.op = "GeGLU", !.inputs = <<m.gate, v.inputs[3 - i]>>]
        /\ match.skip = m.ids
  <2> DEFINE W(m) == [v EXCEPT !.op = "GeGLU", !.inputs = <<m.gate, v.inputs[3 - i]>>]
  <2>1. ways[i] = {[node |-> W(m), skip |-> m.ids] : m \in Gelu(g, v.inputs[i])}  BY <1>2
  <2> HIDE DEF ways, W
  <2>2. \E m \in Gelu(g, v.inputs[i]) : match.node = W(m) /\ match.skip = m.ids  BY <1>2, <2>1
  <2> QED  BY <2>2 DEF W
<1> HIDE DEF ways
<1> DEFINE ins == <<m.gate, v.inputs[3 - i]>>
<1>4. i \in 1..Len(v.inputs) /\ 3 - i \in 1..Len(v.inputs)  BY <1>1
<1>5. v.inputs[i] \in Ready(g, n) /\ v.inputs[3 - i] \in Ready(g, n)  BY <1>4, InputReady
<1>6. m.gate \in Ready(g, n) /\ m.ids \subseteq Spent(g)  BY <1>3, <1>5, GeluReady
<1>7. ins \in Seq(Tensor) /\ \A j \in DOMAIN ins : ins[j] \in Ready(g, n)
  BY <1>5, <1>6 DEF Ready
<1>8. "GeGLU" \in NewOps /\ Becomes(v, "GeGLU")
  BY DEF NewOps, Derived, Becomes, Plural, Several
<1> HIDE DEF ins
<1>9. match.node = Fed(v, "GeGLU", ins)  BY <1>3 DEF Fed, ins
<1>10. Replaces(g, match.node, n)  BY <1>7, <1>8, <1>9, FedReplaces
<1> QED  BY <1>3, <1>6, <1>10 DEF Absorbs

(* Gated units are fused. *)
LEMMA FuseGeGluFollows ==
  ASSUME NEW g, Orderly(g)
  PROVE  Follows(FuseGeGlu(g), g)
<1> DEFINE found == [v \in WithOp(g, {"Mul"}) |-> GeGlu(g, v)]
<1>1. ASSUME NEW n \in DOMAIN g, g[n] \in DOMAIN found, NEW match \in found[g[n]]
      PROVE  Absorbs(g, match, n)
  <2>1. g[n].op = "Mul" /\ match \in GeGlu(g, g[n])  BY <1>1, Named
  <2> QED  BY <2>1, GeGluFits
<1>2. FuseGeGlu(g) = Fuse(g, found)  BY DEF FuseGeGlu
<1> HIDE DEF found
<1> QED  BY <1>1, <1>2, FuseFollows

-----------------------------------------------------------------------------
(* Rotary embeddings.                                                      *)

(* A product that puts out a ready tensor reads two. *)
LEMMA MulReads ==
  ASSUME NEW g, Orderly(g), NEW n \in DOMAIN g, NEW t \in Ready(g, n), ProducedBy(g, t, "Mul")
  PROVE  LET v == Producer(g, t) IN
         Len(v.inputs) = 2 /\ \A i \in 1..2 : v.inputs[i] \in Ready(g, n)
<1> DEFINE v == Producer(g, t)
<1>1. PICK k \in DOMAIN g : v = g[k]  BY ProducerIs DEF ProducedBy
<1>2. v.op = "Mul"  BY DEF ProducedBy
<1>3. Len(v.inputs) = 2  BY <1>1, <1>2 DEF Orderly
<1>4. DOMAIN v.inputs = 1..Len(v.inputs) /\ \A i \in DOMAIN v.inputs : v.inputs[i] \in Ready(g, n)
  BY Step
<1> QED  BY <1>3, <1>4

(* The table that an operand of a rotation leads to is ready. *)
LEMMA RopeOperandReady ==
  ASSUME NEW g, Orderly(g), NEW n \in DOMAIN g, NEW t \in Ready(g, n), NEW m \in RopeOperand(g, t)
  PROVE  m.tensor \in Ready(g, n) /\ m.ids \subseteq Spent(g)
<1> DEFINE v == Producer(g, t)
<1>1. CASE ProducedBy(g, t, "Unsqueeze") /\ v.inputs # <<>>
  <2>1. /\ v.inputs \in Seq(Tensor) /\ Len(v.inputs) \in Nat /\ DOMAIN v.inputs = 1..Len(v.inputs)
        /\ \A i \in DOMAIN v.inputs : v.inputs[i] \in Ready(g, n)
        /\ v.id \in Spent(g)
    BY <1>1, Step DEF Lasting, Plural, Several
  <2>2. m.tensor = v.inputs[1] /\ m.ids = {v.id}  BY <1>1 DEF RopeOperand
  <2> HIDE DEF v
  <2>3. 1 \in DOMAIN v.inputs  BY <1>1, <2>1
  <2> QED  BY <2>1, <2>2, <2>3
<1>2. CASE ~ (ProducedBy(g, t, "Unsqueeze") /\ v.inputs # <<>>)
  <2>1. m.tensor = t /\ m.ids = {}  BY <1>2 DEF RopeOperand
  <2> QED  BY <2>1
<1> QED  BY <1>1, <1>2

(* A step to the first input of a node that only one reads. *)
LEMMA SoleReady ==
  ASSUME NEW g, Orderly(g), NEW n \in DOMAIN g, NEW t \in Ready(g, n),
         NEW op \in {"Slice", "Neg", "Concat"}, Sole(g, t, op)
  PROVE  LET v == Producer(g, t) IN
         /\ v.id \in Spent(g)
         /\ v.inputs \in Seq(Tensor) /\ Len(v.inputs) \in Nat /\ DOMAIN v.inputs = 1..Len(v.inputs)
         /\ \A i \in DOMAIN v.inputs : v.inputs[i] \in Ready(g, n)
         /\ v.inputs # <<>> => v.inputs[1] \in Ready(g, n)
<1> DEFINE v == Producer(g, t)
<1>1. ProducedBy(g, t, op) /\ op # "ROPETable" /\ op \notin Lasting
  BY DEF Sole, Lasting, Plural, Several
<1>2. /\ v.inputs \in Seq(Tensor) /\ v.id \in Spent(g)
      /\ Len(v.inputs) \in Nat /\ DOMAIN v.inputs = 1..Len(v.inputs)
      /\ \A j \in DOMAIN v.inputs : v.inputs[j] \in Ready(g, n)
  BY <1>1, Step
<1> HIDE DEF v
<1>3. v.inputs # <<>> => 1 \in DOMAIN v.inputs  BY <1>2
<1> QED  BY <1>2, <1>3 DEF v

(* The nodes that rotate the halves of a tensor are spent. *)
LEMMA RotatedHalvesSpent ==
  ASSUME NEW g, Orderly(g), NEW n \in DOMAIN g, NEW t \in Ready(g, n), NEW x,
         NEW halves \in RotatedHalves(g, t, x)
  PROVE  halves \subseteq Spent(g)
<1> DEFINE v == Producer(g, t)
           Id(u) == Producer(g, u).id
           negated == {i \in 1..2 : /\ NegatedSliceOf(g, v.inputs[i], x)
                                    /\ SliceOf(g, v.inputs[3 - i], x)}
           absent == ~ Sole(g, t, "Concat") \/ Len(v.inputs) # 2
           All(i) == {v.id, Id(v.inputs[i]), Id(Producer(g, v.inputs[i]).inputs[1]),
                      Id(v.inputs[3 - i])}
<1>1. RotatedHalves(g, t, x) = IF absent THEN {} ELSE {All(i) : i \in negated}
  BY DEF RotatedHalves
<1>2. PICK i \in negated : ~ absent /\ halves = All(i)
  <2> HIDE DEF absent, All, negated
  <2> QED  BY <1>1
<1>3. Sole(g, t, "Concat") /\ Len(v.inputs) = 2  BY <1>2
<1>4. /\ i \in 1..2 /\ SliceOf(g, v.inputs[3 - i], x)
      /\ NegatedSliceOf(g, v.inputs[i], x)
  BY <1>2
<1> DEFINE a == v.inputs[i]
           b == v.inputs[3 - i]
           c == Producer(g, a).inputs[1]
<1>5. halves = {v.id, Id(a), Id(c), Id(b)}  BY <1>2
<1>6. v.id \in Spent(g) /\ a \in Ready(g, n) /\ b \in Ready(g, n)
  <2>1. /\ v.id \in Spent(g) /\ DOMAIN v.inputs = 1..Len(v.inputs)
        /\ \A j \in DOMAIN v.inputs : v.inputs[j] \in Ready(g, n)
    BY <1>3, SoleReady
  <2> HIDE DEF v
  <2>2. i \in DOMAIN v.inputs /\ 3 - i \in DOMAIN v.inputs  BY <1>3, <1>4, <2>1
  <2> QED  BY <2>1, <2>2
<1>7. /\ Sole(g, b, "Slice") /\ Sole(g, a, "Neg")
      /\ Producer(g, a).inputs # <<>> /\ Sole(g, c, "Slice")
  BY <1>4 DEF SliceOf, NegatedSliceOf
<1> HIDE DEF a, b, v, negated, absent, All
<1>8. Id(a) \in Spent(g) /\ c \in Ready(g, n)  BY <1>6, <1>7, SoleReady
<1> HIDE DEF c
<1>9. Id(b) \in Spent(g) /\ Id(c) \in Spent(g)  BY <1>6, <1>7, <1>8, SoleReady
<1> QED  BY <1>5, <1>6, <1>8, <1>9

(* What RopeAt makes of an addition. *)
RopeMatch(v, x, cos, sin, halves, cosMul, sinMul) ==
  [node |-> [v EXCEPT !.op = "ROPE", !.inputs = <<x, cos.tensor, sin.tensor>>],
   skip |-> UNION {halves, cos.ids, sin.ids, {cosMul.id, sinMul.id}}]

(* A match reads the operands of the two products on the sides it looks at. *)
LEMMA RopeAtIs ==
  ASSUME NEW g, NEW v, NEW side
  PROVE  \A match \in RopeAt(g, v, side) :
         LET cosMul == Producer(g, v.inputs[side[1]])
             sinMul == Producer(g, v.inputs[3 - side[1]])
             x == cosMul.inputs[side[2]]
         IN  /\ Sole(g, v.inputs[side[1]], "Mul") /\ Sole(g, v.inputs[3 - side[1]], "Mul")
             /\ \E halves \in RotatedHalves(g, sinMul.inputs[side[3]], x),
                   c \in RopeOperand(g, cosMul.inputs[3 - side[2]]),
                   s \in RopeOperand(g, sinMul.inputs[3 - side[3]]) :
                  match = RopeMatch(v, x, c, s, halves, cosMul, sinMul)
<1> DEFINE cosMul == Producer(g, v.inputs[side[1]])
           sinMul == Producer(g, v.inputs[3 - side[1]])
           x == cosMul.inputs[side[2]]
           absent == ~ Sole(g, v.inputs[side[1]], "Mul") \/ ~ Sole(g, v.inputs[3 - side[1]], "Mul")
           H == RotatedHalves(g, sinMul.inputs[side[3]], x)
           C == RopeOperand(g, cosMul.inputs[3 - side[2]])
           S == RopeOperand(g, sinMul.inputs[3 - side[3]])
<1>1. RopeAt(g, v, side) = IF absent THEN {} ELSE
        {RopeMatch(v, x, cos, sin, halves, cosMul, sinMul) :
           halves \in RotatedHalves(g, sinMul.inputs[side[3]], x),
           cos \in RopeOperand(g, cosMul.inputs[3 - side[2]]),
           sin \in RopeOperand(g, sinMul.inputs[3 - side[3]])}
  BY DEF RopeAt, RopeMatch
<1> TAKE match \in RopeAt(g, v, side)
<1>2. PICK halves \in H, c \in C, s \in S :
        ~ absent /\ match = RopeMatch(v, x, c, s, halves, cosMul, sinMul)
  <2> HIDE DEF cosMul, sinMul, x, absent
  <2> QED  BY <1>1
<1> HIDE DEF C, S, H, x
<1> QED  BY <1>2 DEF C, S, H, x

(* A rotation can stand where its addition stood, and absorbs what is spent. *)
LEMMA RopeAtFits ==
  ASSUME NEW g, Orderly(g), NEW n \in DOMAIN g, g[n].op = "Add", Len(g[n].inputs) = 2,
         NEW side, \A k \in 1..3 : side[k] \in 1..2, NEW match \in RopeAt(g, g[n], side)
  PROVE  Absorbs(g, match, n)
<1> DEFINE v == g[n]
           cosMul == Producer(g, v.inputs[side[1]])
           sinMul == Producer(g, v.inputs[3 - side[1]])
           x == cosMul.inputs[side[2]]
           H == RotatedHalves(g, sinMul.inputs[side[3]], x)
           C == RopeOperand(g, cosMul.inputs[3 - side[2]])
           S == RopeOperand(g, sinMul.inputs[3 - side[3]])
<1>0. side[1] \in 1..2 /\ side[2] \in 1..2 /\ side[3] \in 1..2  OBVIOUS
<1>1. Sole(g, v.inputs[side[1]], "Mul") /\ Sole(g, v.inputs[3 - side[1]], "Mul")
  BY RopeAtIs
<1>2. PICK halves \in H, c \in C, s \in S :
        match = RopeMatch(v, x, c, s, halves, cosMul, sinMul)
  BY RopeAtIs
<1>15. match.node = Fed(v, "ROPE", <<x, c.tensor, s.tensor>>)
       /\ match.skip = UNION {halves, c.ids, s.ids, {cosMul.id, sinMul.id}}
  BY <1>2 DEF Fed, RopeMatch
<1>3. side[1] \in 1..Len(v.inputs) /\ 3 - side[1] \in 1..Len(v.inputs)  BY <1>0
<1>4. v.inputs[side[1]] \in Ready(g, n) /\ v.inputs[3 - side[1]] \in Ready(g, n)
  BY <1>3, InputReady
<1>5. /\ ProducedBy(g, v.inputs[side[1]], "Mul") /\ ProducedBy(g, v.inputs[3 - side[1]], "Mul")
  BY <1>1 DEF Sole
<1>6. \A i \in 1..2 : cosMul.inputs[i] \in Ready(g, n)  BY <1>4, <1>5, MulReads
<1>7. \A i \in 1..2 : sinMul.inputs[i] \in Ready(g, n)  BY <1>4, <1>5, MulReads
<1>16. cosMul.id \in Spent(g) /\ sinMul.id \in Spent(g)  BY <1>1, <1>4, TermReady
<1> HIDE DEF cosMul, sinMul
<1>8. /\ side[2] \in 1..2 /\ 3 - side[2] \in 1..2 /\ 3 - side[3] \in 1..2  BY <1>0
<1>9. x \in Ready(g, n)  BY <1>6, <1>8
<1>10. c.tensor \in Ready(g, n) /\ c.ids \subseteq Spent(g)
  <2>1. cosMul.inputs[3 - side[2]] \in Ready(g, n)  BY <1>6, <1>8
  <2> QED  BY <1>2, <2>1, RopeOperandReady
<1>11. s.tensor \in Ready(g, n) /\ s.ids \subseteq Spent(g)
  <2>1. sinMul.inputs[3 - side[3]] \in Ready(g, n)  BY <1>7, <1>8
  <2> QED  BY <1>2, <2>1, RopeOperandReady
<1>17. halves \subseteq Spent(g)
  <2>1. sinMul.inputs[side[3]] \in Ready(g, n)  BY <1>0, <1>7
  <2> QED  BY <1>2, <2>1, RotatedHalvesSpent
<1>18. match.skip \subseteq Spent(g)  BY <1>10, <1>11, <1>15, <1>16, <1>17
<1> DEFINE ins == <<x, c.tensor, s.tensor>>
<1> HIDE DEF x
<1>12. ins \in Seq(Tensor) /\ \A j \in DOMAIN ins : ins[j] \in Ready(g, n)
  BY <1>9, <1>10, <1>11 DEF Ready
<1>13. "ROPE" \in NewOps /\ Becomes(v, "ROPE") BY DEF NewOps, Derived, Becomes, Plural, Several
<1>14. match.node = Fed(v, "ROPE", ins)  BY <1>15 DEF ins, x
<1> HIDE DEF ins
<1>19. Replaces(g, match.node, n)  BY <1>12, <1>13, <1>14, FedReplaces
<1> QED  BY <1>18, <1>19 DEF Absorbs

(* Rotations are fused. *)
LEMMA FuseRopeFollows ==
  ASSUME NEW g, Orderly(g)
  PROVE  Follows(FuseRope(g), g)
<1> DEFINE found == [v \in {u \in WithOp(g, {"Add"}) : Len(u.inputs) = 2} |->
                       FirstOf([k \in DOMAIN Sides |-> RopeAt(g, v, Sides[k])])]
<1>1. ASSUME NEW n \in DOMAIN g, g[n] \in DOMAIN found, NEW match \in found[g[n]]
      PROVE  Absorbs(g, match, n)
  <2> DEFINE ways == [k \in DOMAIN Sides |-> RopeAt(g, g[n], Sides[k])]
  <2>1. g[n].op = "Add" /\ Len(g[n].inputs) = 2 /\ match \in FirstOf(ways)  BY <1>1, Named
  <2>2. DOMAIN ways = 1..8 /\ DOMAIN Sides = 1..8 /\ DOMAIN ways \subseteq Nat  BY DEF Sides
  <2>3. \A k \in 1..8 : ways[k] = RopeAt(g, g[n], Sides[k])  BY <2>2
  <2> HIDE DEF ways
  <2>4. PICK k \in 1..8 : match \in RopeAt(g, g[n], Sides[k])  BY <2>1, <2>2, <2>3, FirstOfIs
  <2>5. \A m \in 1..3 : Sides[k][m] \in 1..2
    <3>1. k = 1 \/ k = 2 \/ k = 3 \/ k = 4 \/ k = 5 \/ k = 6 \/ k = 7 \/ k = 8  BY <2>4
    <3>2. Sides[k][1] \in 1..2 /\ Sides[k][2] \in 1..2 /\ Sides[k][3] \in 1..2  BY <3>1 DEF Sides
    <3> QED  BY <3>2
  <2> DEFINE side == Sides[k]
  <2>6. match \in RopeAt(g, g[n], side) /\ \A m \in 1..3 : side[m] \in 1..2  BY <2>4, <2>5
  <2> HIDE DEF side
  <2> QED  BY <2>1, <2>6, RopeAtFits
<1>2. FuseRope(g) = Fuse(g, found)  BY DEF FuseRope
<1> HIDE DEF found
<1> QED  BY <1>1, <1>2, FuseFollows

-----------------------------------------------------------------------------
(* The cache.                                                              *)

(* A match, as Fuse wants it. *)
Match(node, skip) == [node |-> node, skip |-> skip]

(* The kind of a cache entry, if it has one. *)
LEMMA KvKindIs ==
  ASSUME NEW names, NEW kind \in KvKind(names)
  PROVE  kind = "key" \/ kind = "value"
BY DEF KvKind

(* A match reads what its slice does, and the other input. *)
LEMMA KvStoreIs ==
  ASSUME NEW g, NEW v
  PROVE  \A match \in KvStore(g, v) :
         /\ Len(v.inputs) = 2
         /\ \E i \in 1..2, kind \in {"key", "value"} :
              LET slice == Producer(g, v.inputs[i]) IN
              /\ Sole(g, v.inputs[i], "Slice") /\ slice.inputs # <<>>
              /\ match.node = Rebuilt(v, "KVStore", kind, <<slice.inputs[1], v.inputs[3 - i]>>)
              /\ match.skip = {slice.id}
<1> DEFINE Slice(i) == Producer(g, v.inputs[i])
           Absent(i) == ~ Sole(g, v.inputs[i], "Slice") \/ Slice(i).inputs = <<>>
           Kind(i) == KvKind({Slice(i).inputs[1], v.inputs[3 - i]} \cup ToSet(v.outputs))
           Built(i, kind) == Rebuilt(v, "KVStore", kind, <<Slice(i).inputs[1], v.inputs[3 - i]>>)
           ways == [i \in 1..2 |->
                      IF Absent(i) THEN {}
                      ELSE {Match(Built(i, kind), {Slice(i).id}) : kind \in Kind(i)}]
<1>1. KvStore(g, v) = IF Len(v.inputs) # 2 THEN {} ELSE FirstOf(ways)
  BY DEF KvStore, Match, Rebuilt
<1> HIDE DEF ways
<1> TAKE match \in KvStore(g, v)
<1>2. Len(v.inputs) = 2 /\ match \in FirstOf(ways)  BY <1>1
<1>3. DOMAIN ways = 1..2 /\ DOMAIN ways \subseteq Nat  BY DEF ways
<1>4. PICK i \in 1..2 : match \in ways[i]  BY <1>2, <1>3, FirstOfIs
<1> HIDE DEF Absent, Built, Kind, Slice
<1>5. PICK kind \in Kind(i) : ~ Absent(i) /\ match = Match(Built(i, kind), {Slice(i).id})
  <2>1. ways[i] = IF Absent(i) THEN {}
                  ELSE {Match(Built(i, kind), {Slice(i).id}) : kind \in Kind(i)}
    BY <1>4 DEF ways
  <2> QED  BY <1>4, <2>1
<1>6. match.node = Built(i, kind) /\ match.skip = {Slice(i).id}  BY <1>5 DEF Match
<1>7. kind \in {"key", "value"}  BY <1>5, KvKindIs DEF Kind
<1> QED  BY <1>2, <1>4, <1>5, <1>6, <1>7 DEF Absent, Built, Slice

(* A store can stand where its Concat stood, and absorbs what is spent. *)
LEMMA KvStoreFits ==
  ASSUME NEW g, Orderly(g), NEW n \in DOMAIN g, g[n].op = "Concat", NEW match \in KvStore(g, g[n])
  PROVE  Absorbs(g, match, n)
<1> DEFINE v == g[n]
<1>0. Len(v.inputs) = 2  BY KvStoreIs
<1>1. PICK i \in 1..2, kind \in {"key", "value"} :
        LET slice == Producer(g, v.inputs[i]) IN
        /\ Sole(g, v.inputs[i], "Slice") /\ slice.inputs # <<>>
        /\ match.node = Rebuilt(v, "KVStore", kind, <<slice.inputs[1], v.inputs[3 - i]>>)
        /\ match.skip = {slice.id}
  <2> HIDE DEF v
  <2> QED  BY KvStoreIs DEF v
<1> DEFINE slice == Producer(g, v.inputs[i])
           ins == <<slice.inputs[1], v.inputs[3 - i]>>
<1>2. i \in 1..Len(v.inputs) /\ 3 - i \in 1..Len(v.inputs)
  <2>1. i = 1 \/ i = 2  BY <1>1
  <2> QED  BY <1>0, <2>1
<1>3. v.inputs[i] \in Ready(g, n) /\ v.inputs[3 - i] \in Ready(g, n)  BY <1>2, InputReady
<1>4. /\ slice.inputs \in Seq(Tensor) /\ Len(slice.inputs) \in Nat
      /\ DOMAIN slice.inputs = 1..Len(slice.inputs)
      /\ \A j \in DOMAIN slice.inputs : slice.inputs[j] \in Ready(g, n)
      /\ slice.id \in Spent(g)
  BY <1>1, <1>3, SoleReady
<1>5. /\ slice.inputs # <<>> /\ match.node = Rebuilt(v, "KVStore", kind, ins)
      /\ match.skip = {slice.id}
  BY <1>1
<1> HIDE DEF slice
<1>6. slice.inputs[1] \in Ready(g, n)  BY <1>4, <1>5
<1>7. ins \in Seq(Tensor) /\ \A j \in DOMAIN ins : ins[j] \in Ready(g, n)
  BY <1>3, <1>6 DEF Ready
<1>8. "KVStore" \in NewOps /\ kind \in Origins /\ Becomes(v, "KVStore")
  BY <1>1 DEF NewOps, Derived, Origins, Becomes, Plural, Several
<1> HIDE DEF ins
<1>9. Replaces(g, match.node, n)  BY <1>5, <1>7, <1>8, RebuiltReplaces
<1> QED  BY <1>4, <1>5, <1>9 DEF Absorbs

(* Stores into the cache are fused. *)
LEMMA FuseKvStoreFollows ==
  ASSUME NEW g, Orderly(g)
  PROVE  Follows(FuseKvStore(g), g)
<1> DEFINE found == [v \in WithOp(g, {"Concat"}) |-> KvStore(g, v)]
<1>1. ASSUME NEW n \in DOMAIN g, g[n] \in DOMAIN found, NEW match \in found[g[n]]
      PROVE  Absorbs(g, match, n)
  <2>1. g[n].op = "Concat" /\ match \in KvStore(g, g[n])  BY <1>1, Named
  <2> QED  BY <2>1, KvStoreFits
<1>2. FuseKvStore(g) = Fuse(g, found)  BY DEF FuseKvStore
<1> HIDE DEF found
<1> QED  BY <1>1, <1>2, FuseFollows

(* A match reads what its Expand and Unsqueeze lead to. *)
LEMMA KvLoadIs ==
  ASSUME NEW g, NEW v
  PROVE  \A match \in KvLoad(g, v) :
         LET transposed == v.op = "Transpose"
             last == IF transposed THEN Producer(g, v.inputs[1]) ELSE v
             base == Down(g, <<First("Expand"), First("Unsqueeze")>>, last.inputs[1])
         IN  /\ transposed => v.inputs # <<>> /\ Sole(g, v.inputs[1], "Reshape")
             /\ last.inputs # <<>> /\ base.tensor # NoTensor
             /\ \E origin \in Origins :
                  match.node = Rebuilt(v, "KVLoad", origin, <<base.tensor>>)
             /\ match.skip = base.ids \cup (IF transposed THEN {last.id} ELSE {})
<1> DEFINE transposed == v.op = "Transpose"
           last == IF transposed THEN Producer(g, v.inputs[1]) ELSE v
           loads == IF transposed THEN v.inputs # <<>> /\ Sole(g, v.inputs[1], "Reshape")
                    ELSE /\ v.outputs # <<>>
                         /\ \A u \in WithOp(g, {"Transpose"}) : ~ Contains(u.inputs, v.outputs[1])
           base == Down(g, <<First("Expand"), First("Unsqueeze")>>, last.inputs[1])
           Built(kind) == Rebuilt(v, "KVLoad", IF transposed THEN TransposedOrigin[kind] ELSE kind,
                                  <<base.tensor>>)
           there == loads /\ last.inputs # <<>> /\ base.tensor # NoTensor
           ids == base.ids \cup (IF transposed THEN {last.id} ELSE {})
           kinds == KvKind({base.tensor} \cup ToSet(v.outputs))
<1>1. KvLoad(g, v) = IF there THEN {Match(Built(kind), ids) : kind \in kinds} ELSE {}
  BY DEF KvLoad, Match, Rebuilt
<1> TAKE match \in KvLoad(g, v)
<1> HIDE DEF there, ids, kinds, Built
<1>2. PICK kind \in kinds : there /\ match = Match(Built(kind), ids)  BY <1>1
<1>3. match.node = Built(kind) /\ match.skip = ids  BY <1>2 DEF Match
<1>4. kind = "key" \/ kind = "value"  BY <1>2, KvKindIs DEF kinds
<1> DEFINE origin == IF transposed THEN TransposedOrigin[kind] ELSE kind
<1>5. origin \in Origins  BY <1>4 DEF TransposedOrigin, Origins
<1> HIDE DEF origin
<1>6. match.node = Rebuilt(v, "KVLoad", origin, <<base.tensor>>)  BY <1>3 DEF Built, origin
<1> HIDE DEF base
<1>7. /\ transposed => v.inputs # <<>> /\ Sole(g, v.inputs[1], "Reshape")
      /\ last.inputs # <<>> /\ base.tensor # NoTensor
  BY <1>2 DEF there
<1>8. match.skip = base.ids \cup (IF transposed THEN {last.id} ELSE {})  BY <1>3 DEF ids
<1> HIDE DEF last
<1> QED  BY <1>5, <1>6, <1>7, <1>8 DEF base, last

(* A load can stand where its last node stood, and absorbs what is spent. *)
LEMMA KvLoadFits ==
  ASSUME NEW g, Orderly(g), NEW n \in DOMAIN g, g[n].op \in {"Reshape", "Transpose"},
         NEW match \in KvLoad(g, g[n])
  PROVE  Absorbs(g, match, n)
<1> DEFINE v == g[n]
           transposed == v.op = "Transpose"
           last == IF transposed THEN Producer(g, v.inputs[1]) ELSE v
           path == <<First("Expand"), First("Unsqueeze")>>
           base == Down(g, path, last.inputs[1])
<1>1. PICK origin \in Origins :
             /\ transposed => v.inputs # <<>> /\ Sole(g, v.inputs[1], "Reshape")
             /\ last.inputs # <<>> /\ base.tensor # NoTensor
             /\ match.node = Rebuilt(v, "KVLoad", origin, <<base.tensor>>)
             /\ match.skip = base.ids \cup (IF transposed THEN {last.id} ELSE {})
  BY KvLoadIs
<1>2. /\ last.inputs \in Seq(Tensor) /\ Len(last.inputs) \in Nat
      /\ DOMAIN last.inputs = 1..Len(last.inputs)
      /\ \A j \in DOMAIN last.inputs : last.inputs[j] \in Ready(g, n)
      /\ transposed => last.id \in Spent(g)
  <2>1. CASE transposed
    <3>1. v.inputs # <<>> /\ ProducedBy(g, v.inputs[1], "Reshape")  BY <1>1, <2>1 DEF Sole
    <3>2. 1 \in 1..Len(v.inputs)
      <4>1. v.inputs \in Seq(Tensor)  BY OrderlyTyped
      <4> HIDE DEF v
      <4> QED  BY <3>1, <4>1
    <3>3. v.inputs[1] \in Ready(g, n)  BY <3>2, InputReady
    <3> QED  BY <2>1, <3>1, <3>3, Step DEF Lasting, Plural, Several
  <2>2. CASE ~ transposed  BY <2>2, OrderlyTyped
  <2> QED  BY <2>1, <2>2
<1> HIDE DEF last, base
<1>3. last.inputs[1] \in Ready(g, n)  BY <1>1, <1>2
<1>4. base.tensor \in Ready(g, n) /\ base.ids \subseteq Spent(g)
  <2>1. Len(path) \in Nat /\ Passing(path)  BY DEF Passing, First, Lasting, Plural, Several
  <2> HIDE DEF path
  <2>2. base \in Walked(g, n)  BY <1>3, <2>1, DownReady DEF base
  <2> QED  BY <1>1, <2>2 DEF Walked
<1> DEFINE ins == <<base.tensor>>
<1>5. ins \in Seq(Tensor) /\ \A j \in DOMAIN ins : ins[j] \in Ready(g, n)  BY <1>4 DEF Ready
<1>6. "KVLoad" \in NewOps /\ Becomes(v, "KVLoad")
  BY DEF NewOps, Derived, Becomes, Plural, Several
<1>7. match.node = Rebuilt(v, "KVLoad", origin, ins)  BY <1>1
<1> HIDE DEF ins
<1>8. match.skip \subseteq Spent(g)  BY <1>1, <1>2, <1>4
<1>9. Replaces(g, match.node, n)  BY <1>5, <1>6, <1>7, RebuiltReplaces
<1> QED  BY <1>8, <1>9 DEF Absorbs

(* Loads from the cache are fused. *)
LEMMA FuseKvLoadFollows ==
  ASSUME NEW g, Orderly(g)
  PROVE  Follows(FuseKvLoad(g), g)
<1> DEFINE found == [v \in WithOp(g, {"Reshape", "Transpose"}) |-> KvLoad(g, v)]
<1>1. ASSUME NEW n \in DOMAIN g, g[n] \in DOMAIN found, NEW match \in found[g[n]]
      PROVE  Absorbs(g, match, n)
  <2>1. g[n].op \in {"Reshape", "Transpose"} /\ match \in KvLoad(g, g[n])  BY <1>1, Named
  <2> QED  BY <2>1, KvLoadFits
<1>2. FuseKvLoad(g) = Fuse(g, found)  BY DEF FuseKvLoad
<1> HIDE DEF found
<1> QED  BY <1>1, <1>2, FuseFollows

-----------------------------------------------------------------------------
(* Attention.                                                              *)

(* Tensors that are ready are tensors. *)
LEMMA ReadyTyped ==
  ASSUME NEW g, NEW n, NEW s \in Seq(Ready(g, n))
  PROVE  s \in Seq(Tensor) /\ \A j \in DOMAIN s : s[j] \in Ready(g, n)
<1>1. Ready(g, n) \subseteq Tensor  BY DEF Ready
<1>2. Len(s) \in Nat /\ DOMAIN s = 1..Len(s) /\ \A j \in DOMAIN s : s[j] \in Ready(g, n)  OBVIOUS
<1>3. s = [j \in 1..Len(s) |-> s[j]]  OBVIOUS
<1>4. \A j \in 1..Len(s) : s[j] \in Tensor  BY <1>1, <1>2
<1> QED  BY <1>2, <1>3, <1>4

(* The inputs of a node are a sequence of tensors that are ready where it stands. *)
LEMMA InputsReady ==
  ASSUME NEW g, Orderly(g), NEW n \in DOMAIN g
  PROVE  g[n].inputs \in Seq(Ready(g, n))
<1> DEFINE s == g[n].inputs
<1>1. /\ s \in Seq(Tensor) /\ Len(s) \in Nat /\ DOMAIN s = 1..Len(s)
      /\ \A j \in DOMAIN s : s[j] \in Ready(g, n)
  BY OrderlyTyped
<1> HIDE DEF s
<1>2. s = [j \in 1..Len(s) |-> s[j]]  BY <1>1
<1>3. s \in Seq(Ready(g, n))  BY <1>1, <1>2
<1> QED  BY <1>3 DEF s

(* Grouped attention, whose mask is the last input, is rebuilt. *)
LEMMA NormalizeGroupQueryAttentionFollows ==
  ASSUME NEW g, Orderly(g)
  PROVE  Follows(NormalizeGroupQueryAttention(g), g)
<1> DEFINE Present(t) == t # NoTensor
           Whole(v) == /\ Len(v.inputs) >= 11 /\ Len(v.outputs) >= 3
                       /\ \A i \in {1, 2, 3, 11} : Present(v.inputs[i])
           Ins(v) == SubSeq(v.inputs, 1, 3) \o <<v.inputs[11]>>
                       \o Among(SubSeq(v.inputs, 4, 10), Tensor \ {NoTensor})
           class == [v \in {u \in WithOp(g, {"GroupQueryAttention"}) : Whole(u)} |->
                       Rebuilt(v, "SDPA", "GroupQueryAttention", Ins(v))]
<1>1. ASSUME NEW n \in DOMAIN g, g[n] \in DOMAIN class PROVE Replaces(g, class[g[n]], n)
  <2> DEFINE s == g[n].inputs
             X == Ready(g, n)
             ins == Ins(g[n])
  <2>1. /\ g[n].op = "GroupQueryAttention" /\ Len(s) >= 11
        /\ class[g[n]] = Rebuilt(g[n], "SDPA", "GroupQueryAttention", ins)
    BY <1>1, Named
  <2>2. s \in Seq(X)  BY InputsReady
  <2> HIDE DEF s, X, class
  <2>3. SubSeq(s, 1, 3) \in Seq(X) /\ SubSeq(s, 4, 10) \in Seq(X) /\ s[11] \in X
    BY <2>1, <2>2
  <2> DEFINE rest == Among(SubSeq(s, 4, 10), Tensor \ {NoTensor})
  <2>4. rest \in Seq(X)  BY <2>3, AmongIs
  <2>5. ins = SubSeq(s, 1, 3) \o <<s[11]>> \o rest  BY DEF s
  <2> HIDE DEF rest, ins
  <2>6. ins \in Seq(X)
    <3> DEFINE first == SubSeq(s, 1, 3) \o <<s[11]>>
    <3>1. first \in Seq(X) /\ ins = first \o rest  BY <2>3, <2>5
    <3> HIDE DEF first
    <3> QED  BY <2>4, <3>1
  <2>7. ins \in Seq(Tensor) /\ \A j \in DOMAIN ins : ins[j] \in Ready(g, n)
    BY <2>6, ReadyTyped DEF X
  <2>8. "SDPA" \in NewOps /\ "GroupQueryAttention" \in Origins
    BY DEF NewOps, Derived, Origins, Ops
  <2>9. Becomes(g[n], "SDPA")  BY <2>1 DEF Becomes, Plural
  <2> QED  BY <2>1, <2>7, <2>8, <2>9, RebuiltReplaces
<1>2. NormalizeGroupQueryAttention(g) = Reclassify(g, class)
  BY DEF NormalizeGroupQueryAttention, Rebuilt
<1> HIDE DEF class
<1> QED  BY <1>1, <1>2, ReclassifyFollows

(* The side that comes from an operator is one of two inputs. *)
LEMMA SideFromIs ==
  ASSUME NEW g, NEW v, v.inputs \in Seq(Tensor), NEW op, SideFrom(g, v, op) # {}
  PROVE  LET i == Smallest(SideFrom(g, v, op)) IN
         /\ i \in DOMAIN v.inputs /\ 3 - i \in DOMAIN v.inputs
         /\ ProducedBy(g, v.inputs[i], op)
<1> DEFINE made == {i \in DOMAIN v.inputs : ProducedBy(g, v.inputs[i], op)}
           S == SideFrom(g, v, op)
<1>1. Len(v.inputs) = 2 /\ S = made  BY DEF SideFrom
<1>2. DOMAIN v.inputs = 1..2  BY <1>1
<1>3. S \in SUBSET Nat  BY <1>1, <1>2
<1>4. Smallest(S) \in S
  <2> HIDE DEF S
  <2> QED  BY <1>3, SmallestIs DEF S
<1>5. Smallest(S) \in made  BY <1>1, <1>4
<1> HIDE DEF S
<1>6. Smallest(S) \in DOMAIN v.inputs /\ ProducedBy(g, v.inputs[Smallest(S)], op)  BY <1>5
<1>7. 3 - Smallest(S) \in DOMAIN v.inputs  BY <1>2, <1>6
<1> QED  BY <1>6, <1>7 DEF S

(* What is scaled for attention is ready where its product is. *)
LEMMA ScaledReady ==
  ASSUME NEW g, Orderly(g), NEW n \in DOMAIN g, NEW t \in Ready(g, n)
  PROVE  Scaled(g, t).tensor \in Ready(g, n) /\ Scaled(g, t).ids \subseteq Spent(g)
<1> DEFINE v == Producer(g, t)
           scales == {i \in 1..2 : ProducedBy(g, v.inputs[i], "Constant")}
           there == Sole(g, t, "Mul") /\ Len(v.inputs) = 2 /\ scales # {}
<1>1. CASE there
  <2>1. Scaled(g, t).tensor = v.inputs[3 - Smallest(scales)] /\ Scaled(g, t).ids = {v.id}
    BY <1>1 DEF Scaled
  <2>2. scales # {} /\ Sole(g, t, "Mul") /\ ProducedBy(g, t, "Mul")  BY <1>1 DEF Sole
  <2>7. v.id \in Spent(g)  BY <2>2, TermReady
  <2>3. \A i \in 1..2 : v.inputs[i] \in Ready(g, n)  BY <2>2, MulReads
  <2>4. scales \in SUBSET Nat /\ scales \subseteq 1..2  OBVIOUS
  <2> HIDE DEF scales, v
  <2>5. Smallest(scales) \in 1..2  BY <2>2, <2>4, SmallestIs
  <2>6. 3 - Smallest(scales) \in 1..2  BY <2>5
  <2> QED  BY <2>1, <2>3, <2>6, <2>7
<1>2. CASE ~ there
  <2>1. Scaled(g, t).tensor = t /\ Scaled(g, t).ids = {}  BY <1>2 DEF Scaled
  <2> QED  BY <2>1
<1> QED  BY <1>1, <1>2

(* Attention can stand where its last node stood, and absorbs what is spent. *)
LEMMA SdpaFits ==
  ASSUME NEW g, Orderly(g), NEW n \in DOMAIN g, g[n].op = "Reshape", NEW match \in Sdpa(g, g[n])
  PROVE  Absorbs(g, match, n)
<1> DEFINE v == g[n]
           path == <<First("Transpose")>>
           turned == Down(g, path, v.inputs[1])
           attend == Producer(g, turned.tensor)
           softSide == SideFrom(g, attend, "Softmax")
           soft == Producer(g, attend.inputs[Smallest(softSide)])
           masked == Producer(g, soft.inputs[1])
           scoreSide == SideFrom(g, masked, "MatMul")
           scores == Producer(g, masked.inputs[Smallest(scoreSide)])
           query == Scaled(g, scores.inputs[1])
           key == Scaled(g, scores.inputs[2])
           ins == <<query.tensor, key.tensor, attend.inputs[3 - Smallest(softSide)],
                    masked.inputs[3 - Smallest(scoreSide)]>>
           there == /\ v.inputs # <<>>
                    /\ Sole(g, turned.tensor, "MatMul")
                    /\ softSide # {} /\ soft.inputs # <<>> /\ UsedOnce(g, soft)
                    /\ Sole(g, soft.inputs[1], "Add")
                    /\ scoreSide # {} /\ Len(scores.inputs) = 2 /\ UsedOnce(g, scores)
           origin == ScaledOrigin(query, key)
           ids == UNION {query.ids, key.ids, turned.ids, {scores.id, masked.id, soft.id, attend.id}}
<1>1. there /\ match.node = Rebuilt(v, "SDPA", origin, ins) /\ match.skip = ids
  <2> DEFINE w == Rebuilt(v, "SDPA", origin, ins)
  <2>1. Sdpa(g, v) = IF there THEN {[node |-> w, skip |-> ids]} ELSE {}
    BY DEF Sdpa, Rebuilt
  <2> HIDE DEF w, ids, there, ins, origin
  <2>2. there /\ match = [node |-> w, skip |-> ids]  BY <2>1
  <2>3. there /\ match.node = w /\ match.skip = ids  BY <2>2
  <2> QED  BY <2>3 DEF w
<1>2. there  BY <1>1
<1>3. v.inputs # <<>> /\ ProducedBy(g, turned.tensor, "MatMul")  BY <1>2 DEF Sole
<1>4. v.inputs[1] \in Ready(g, n)
  <2>1. v.inputs \in Seq(Ready(g, n))  BY InputsReady
  <2> HIDE DEF v
  <2> QED  BY <1>3, <2>1
<1>5. /\ turned.tensor \in Ready(g, n) \/ turned.tensor = NoTensor
      /\ turned.ids \subseteq Spent(g)
  <2>1. Len(path) \in Nat /\ Passing(path)  BY DEF Passing, First, Lasting, Plural, Several
  <2> HIDE DEF path
  <2>2. turned \in Walked(g, n)  BY <1>4, <2>1, DownReady
  <2> HIDE DEF turned
  <2> QED  BY <2>2 DEF Walked
<1> HIDE DEF turned
<1>6. /\ attend.inputs \in Seq(Tensor)
      /\ \A j \in DOMAIN attend.inputs : attend.inputs[j] \in Ready(g, n)
      /\ attend.id \in Spent(g)
  BY <1>3, <1>5, Step DEF Lasting, Plural, Several
<1>7. softSide # {} /\ soft.inputs # <<>> /\ ProducedBy(g, soft.inputs[1], "Add")
  BY <1>2 DEF Sole
<1> HIDE DEF attend
<1> DEFINE sSide == Smallest(softSide)
<1>8. /\ sSide \in DOMAIN attend.inputs /\ 3 - sSide \in DOMAIN attend.inputs
      /\ ProducedBy(g, attend.inputs[sSide], "Softmax")
  BY <1>6, <1>7, SideFromIs
<1>9. attend.inputs[sSide] \in Ready(g, n) /\ attend.inputs[3 - sSide] \in Ready(g, n)
  BY <1>6, <1>8
<1>10. /\ soft.inputs \in Seq(Tensor) /\ Len(soft.inputs) \in Nat
       /\ DOMAIN soft.inputs = 1..Len(soft.inputs)
       /\ \A j \in DOMAIN soft.inputs : soft.inputs[j] \in Ready(g, n)
       /\ soft.id \in Spent(g)
  BY <1>8, <1>9, Step DEF Lasting, Plural, Several
<1> HIDE DEF sSide, softSide, soft
<1>11. soft.inputs[1] \in Ready(g, n)  BY <1>7, <1>10
<1>12. /\ masked.inputs \in Seq(Tensor)
       /\ \A j \in DOMAIN masked.inputs : masked.inputs[j] \in Ready(g, n)
       /\ masked.id \in Spent(g)
  BY <1>7, <1>11, Step DEF Lasting, Plural, Several
<1> HIDE DEF masked
<1> DEFINE mSide == Smallest(scoreSide)
<1>13. scoreSide # {} /\ Len(scores.inputs) = 2  BY <1>2 DEF soft, sSide
<1>14. /\ mSide \in DOMAIN masked.inputs /\ 3 - mSide \in DOMAIN masked.inputs
       /\ ProducedBy(g, masked.inputs[mSide], "MatMul")
  BY <1>12, <1>13, SideFromIs
<1>15. masked.inputs[mSide] \in Ready(g, n) /\ masked.inputs[3 - mSide] \in Ready(g, n)
  BY <1>12, <1>14
<1>16. /\ scores.inputs \in Seq(Tensor) /\ DOMAIN scores.inputs = 1..Len(scores.inputs)
       /\ \A j \in DOMAIN scores.inputs : scores.inputs[j] \in Ready(g, n)
       /\ scores.id \in Spent(g)
  BY <1>14, <1>15, Step DEF Lasting, Plural, Several
<1> HIDE DEF mSide, scoreSide, scores
<1>17. scores.inputs[1] \in Ready(g, n) /\ scores.inputs[2] \in Ready(g, n)  BY <1>13, <1>16
<1>18. /\ query.tensor \in Ready(g, n) /\ key.tensor \in Ready(g, n)
       /\ query.ids \subseteq Spent(g) /\ key.ids \subseteq Spent(g)
  BY <1>17, ScaledReady
<1>19. origin \in Origins  BY DEF ScaledOrigin, Origins
<1> HIDE DEF query, key, origin
<1>20. ins = <<query.tensor, key.tensor, attend.inputs[3 - sSide], masked.inputs[3 - mSide]>>
  BY DEF sSide, mSide
<1>21. match.node = Rebuilt(v, "SDPA", origin, ins)  BY <1>1
<1> HIDE DEF ins
<1>22. ins \in Seq(Tensor) /\ \A j \in DOMAIN ins : ins[j] \in Ready(g, n)
  BY <1>9, <1>15, <1>18, <1>20 DEF Ready
<1>23. "SDPA" \in NewOps /\ Becomes(v, "SDPA")  BY DEF NewOps, Derived, Becomes, Plural
<1>24. match.skip \subseteq Spent(g)
  <2>1. match.skip = ids  BY <1>1
  <2>2. {scores.id, masked.id, soft.id, attend.id} \subseteq Spent(g)
    BY <1>6, <1>10, <1>12, <1>16
  <2>3. UNION {query.ids, key.ids, turned.ids, {scores.id, masked.id, soft.id, attend.id}}
          \subseteq Spent(g)
    BY <1>5, <1>18, <2>2
  <2> QED  BY <2>1, <2>3 DEF query, key, scores, masked, soft, attend, turned,
                             mSide, scoreSide, sSide, softSide
<1>25. Replaces(g, match.node, n)  BY <1>19, <1>21, <1>22, <1>23, RebuiltReplaces
<1> QED  BY <1>24, <1>25 DEF Absorbs

(* Attention is fused. *)
LEMMA FuseSdpaFollows ==
  ASSUME NEW g, Orderly(g)
  PROVE  Follows(FuseSdpa(g), g)
<1> DEFINE found == [v \in WithOp(g, {"Reshape"}) |-> Sdpa(g, v)]
<1>1. ASSUME NEW n \in DOMAIN g, g[n] \in DOMAIN found, NEW match \in found[g[n]]
      PROVE  Absorbs(g, match, n)
  <2>1. g[n].op = "Reshape" /\ match \in Sdpa(g, g[n])  BY <1>1, Named
  <2> QED  BY <2>1, SdpaFits
<1>2. FuseSdpa(g) = Fuse(g, found)  BY DEF FuseSdpa
<1> HIDE DEF found
<1> QED  BY <1>1, <1>2, FuseFollows

-----------------------------------------------------------------------------
(* Rotary tables, which take the place of the cosine and put out both.     *)

(* The positions that a table is made from are ready where their path ends. *)
LEMMA PositionPathReady ==
  ASSUME NEW g, Orderly(g), NEW n \in DOMAIN g, NEW t \in Ready(g, n), NEW p \in PositionPath(g, t)
  PROVE  p.tensor \in Ready(g, n) /\ p.ids \subseteq Spent(g)
<1> DEFINE casts == BehindCasts(g, t)
           steps == <<"Unsqueeze">>
           path == Along(g, steps, casts.tensor)
<1>1. /\ casts.tensor \in Ready(g, n) \/ casts.tensor = NoTensor
      /\ casts.ids \subseteq Spent(g)
  <2>1. casts \in Walked(g, n)  BY BehindCastsReady
  <2> HIDE DEF casts
  <2> QED  BY <2>1 DEF Walked
<1> HIDE DEF casts
<1>2. path \in Walked(g, n)
  <2>1. Len(steps) \in Nat /\ \A k \in 1..Len(steps) : steps[k] \notin Lasting
    BY DEF Lasting, Plural, Several
  <2> HIDE DEF steps
  <2> QED  BY <1>1, <2>1, AlongReady
<1> DEFINE q == [path EXCEPT !.ids = @ \cup casts.ids]
<1>3. PositionPath(g, t) = IF IsIndex(g, path.tensor) THEN {q} ELSE {}
  BY DEF PositionPath, casts
<1> HIDE DEF steps
<1> HIDE DEF path
<1>5. /\ q.tensor = path.tensor /\ path.tensor \in Ready(g, n) \cup {NoTensor}
      /\ q.ids \subseteq Spent(g)
  BY <1>1, <1>2 DEF Walked
<1> HIDE DEF q
<1>6. p = q /\ IsIndex(g, path.tensor)  BY <1>3
<1>7. Producers(g, path.tensor) # {}  BY <1>6 DEF IsIndex
<1>8. path.tensor # NoTensor  BY <1>7 DEF Orderly
<1> QED  BY <1>5, <1>6, <1>8

(* The nodes that lead from a shape to a tensor are spent. *)
LEMMA ShapeOfSpent ==
  ASSUME NEW g, Orderly(g), NEW n \in DOMAIN g, NEW t \in Ready(g, n), NEW position,
         NEW shape \in ShapeOf(g, t, position)
  PROVE  shape \subseteq Spent(g)
<1> DEFINE where == Producer(g, t)
           equal == Producer(g, where.inputs[1])
           concat == Producer(g, where.inputs[3])
           steps == <<"Concat", "Unsqueeze", "Gather", "Shape">>
           path == Along(g, steps, where.inputs[3])
           there == /\ ProducedBy(g, t, "Where") /\ Len(where.inputs) = 3
                    /\ ProducedBy(g, where.inputs[1], "Equal")
                    /\ ProducedBy(g, where.inputs[3], "Concat")
                    /\ equal.inputs # <<>> /\ equal.inputs[1] = concat.outputs[1]
                    /\ path.tensor = position
           ids == path.ids \cup {where.id, equal.id}
<1>1. ShapeOf(g, t, position) = IF there THEN {ids} ELSE {}  BY DEF ShapeOf
<1>2. there /\ shape = ids
  <2> HIDE DEF there, ids
  <2> QED  BY <1>1
<1>3. /\ ProducedBy(g, t, "Where") /\ Len(where.inputs) = 3
      /\ ProducedBy(g, where.inputs[1], "Equal")
  BY <1>2
<1> HIDE DEF there
<1>4. /\ where.id \in Spent(g) /\ DOMAIN where.inputs = 1..Len(where.inputs)
      /\ \A j \in DOMAIN where.inputs : where.inputs[j] \in Ready(g, n)
  BY <1>3, Step DEF Lasting, Plural, Several
<1> HIDE DEF where
<1>5. where.inputs[1] \in Ready(g, n) /\ where.inputs[3] \in Ready(g, n)  BY <1>3, <1>4
<1>6. equal.id \in Spent(g)  BY <1>3, <1>5, Step DEF Lasting, Plural, Several
<1>7. path.ids \subseteq Spent(g)
  <2>1. Len(steps) \in Nat /\ \A k \in 1..Len(steps) : steps[k] \notin Lasting
    BY DEF Lasting, Plural, Several
  <2> HIDE DEF steps
  <2>2. path \in Walked(g, n)  BY <1>5, <2>1, AlongReady
  <2> HIDE DEF path
  <2> QED  BY <2>2 DEF Walked
<1> QED  BY <1>2, <1>4, <1>6, <1>7

(* A table for a cosine and its sine. *)
Table(cos, p, sin, t) ==
  [cos EXCEPT !.op = "ROPETable", !.inputs = <<p.tensor, t>>,
              !.outputs = <<cos.outputs[1], sin.outputs[1]>>]

(* A match, with what it makes superfluous. *)
RopeTableMatch(cos, p, sin, shape, expand, product, turned, concat) ==
  [node |-> [cos EXCEPT !.op = "ROPETable", !.inputs = <<p.tensor, expand.inputs[1]>>,
                        !.outputs = <<cos.outputs[1], sin.outputs[1]>>],
   skip |-> p.ids \cup shape
              \cup {expand.id, product.id, turned.id, concat.id, sin.id}]

(* Where a rotary table comes from. *)
RopeTableFound(g, cos) ==
  LET concat == Producer(g, cos.inputs[1])
      turned == Producer(g, concat.inputs[1])
      product == Producer(g, turned.inputs[1])
      sides == {i \in 1..2 : PositionPath(g, product.inputs[i]) # {}}
      expand == Producer(g, product.inputs[3 - Smallest(sides)])
  IN  /\ Len(cos.inputs) = 1 /\ cos.outputs # <<>> /\ Uses(g, cos.inputs[1]) = 2
      /\ ProducedBy(g, cos.inputs[1], "Concat")
      /\ Len(concat.inputs) = 2
      /\ ProducedBy(g, concat.inputs[1], "Transpose") /\ turned.inputs # <<>>
      /\ ProducedBy(g, turned.inputs[1], "MatMul") /\ Len(product.inputs) = 2
      /\ sides # {}
      /\ ProducedBy(g, product.inputs[3 - Smallest(sides)], "Expand")
      /\ Len(expand.inputs) = 2

(* And what the match is. *)
RopeTableOf(g, cos, match) ==
  LET concat == Producer(g, cos.inputs[1])
      turned == Producer(g, concat.inputs[1])
      product == Producer(g, turned.inputs[1])
      sides == {i \in 1..2 : PositionPath(g, product.inputs[i]) # {}}
      expand == Producer(g, product.inputs[3 - Smallest(sides)])
  IN  \E p \in PositionPath(g, product.inputs[Smallest(sides)]), sin \in WithOp(g, {"Sin"}) :
        /\ Contains(sin.inputs, cos.inputs[1]) /\ sin.outputs # <<>>
        /\ match.node = Table(cos, p, sin, expand.inputs[1])
        /\ \E shape \in ShapeOf(g, expand.inputs[2], p.tensor) :
             match.skip = p.ids \cup shape
                            \cup {expand.id, product.id, turned.id, concat.id, sin.id}

(* A match stands at the end of such a path. *)
LEMMA RopeTableIs ==
  ASSUME NEW g, NEW cos
  PROVE  \A match \in RopeTable(g, cos) : RopeTableFound(g, cos) /\ RopeTableOf(g, cos, match)
<1> DEFINE concat == Producer(g, cos.inputs[1])
           sins == {v \in WithOp(g, {"Sin"}) : Contains(v.inputs, cos.inputs[1]) /\ v.outputs # <<>>}
           turned == Producer(g, concat.inputs[1])
           product == Producer(g, turned.inputs[1])
           sides == {i \in 1..2 : PositionPath(g, product.inputs[i]) # {}}
           expand == Producer(g, product.inputs[3 - Smallest(sides)])
           there == /\ Len(cos.inputs) = 1 /\ cos.outputs # <<>>
                    /\ Uses(g, cos.inputs[1]) = 2 /\ sins # {}
                    /\ ProducedBy(g, cos.inputs[1], "Concat")
                    /\ Len(concat.inputs) = 2 /\ concat.inputs[1] = concat.inputs[2]
                    /\ ProducedBy(g, concat.inputs[1], "Transpose") /\ turned.inputs # <<>>
                    /\ ProducedBy(g, turned.inputs[1], "MatMul") /\ Len(product.inputs) = 2
                    /\ sides # {}
                    /\ ProducedBy(g, product.inputs[3 - Smallest(sides)], "Expand")
                    /\ Len(expand.inputs) = 2
           P == PositionPath(g, product.inputs[Smallest(sides)])
           S(p) == ShapeOf(g, expand.inputs[2], p.tensor)
<1>1. RopeTable(g, cos) =
        IF there THEN UNION {{RopeTableMatch(cos, p, s, shape, expand, product, turned, concat) :
                                s \in sins, shape \in S(p)} : p \in P}
        ELSE {}
  BY DEF RopeTable, RopeTableMatch
<1> TAKE match \in RopeTable(g, cos)
<1>2. there => RopeTableFound(g, cos)  BY DEF RopeTableFound
<1> HIDE DEF there, S
<1>3. PICK p \in P, sin \in sins : \E shape \in S(p) :
        there /\ match = RopeTableMatch(cos, p, sin, shape, expand, product, turned, concat)
  <2> HIDE DEF concat, turned, product, sides, expand, P, sins
  <2> QED  BY <1>1
<1> HIDE DEF concat, turned, product, sides, expand, P
<1>4. /\ match.node = Table(cos, p, sin, expand.inputs[1])
      /\ \E shape \in S(p) :
           match.skip = p.ids \cup shape
                          \cup {expand.id, product.id, turned.id, concat.id, sin.id}
  BY <1>3 DEF RopeTableMatch, Table
<1>5. sin \in WithOp(g, {"Sin"}) /\ Contains(sin.inputs, cos.inputs[1]) /\ sin.outputs # <<>>
  BY <1>3
<1>6. RopeTableOf(g, cos, match)
  BY <1>3, <1>4, <1>5 DEF RopeTableOf, concat, turned, product, sides, expand, P, S
<1> QED  BY <1>2, <1>3, <1>6

(* Who reads a tensor, and where. *)
Readers(g, t) ==
  {u \in UNION {{<<n, i>> : i \in DOMAIN g[n].inputs} : n \in DOMAIN g} : g[u[1]].inputs[u[2]] = t}

(* There are finitely many. *)
LEMMA ReadersFinite ==
  ASSUME NEW g, Orderly(g), NEW t
  PROVE  IsFiniteSet(Readers(g, t))
<1> DEFINE D == DOMAIN g
           P(n) == {<<n, i>> : i \in DOMAIN g[n].inputs}
           all == {P(n) : n \in D}
<1>1. IsFiniteSet(D)  BY OrderlyTyped, FS_Interval
<1>2. ASSUME NEW n \in D PROVE IsFiniteSet(P(n))
  <2> DEFINE ins == DOMAIN g[n].inputs
             f == [i \in ins |-> <<n, i>>]
  <2>1. IsFiniteSet(ins)
    <3> DEFINE m == Len(g[n].inputs)
    <3>1. ins = 1..m /\ m \in Nat  BY OrderlyTyped
    <3> HIDE DEF m, ins
    <3> QED  BY <3>1, FS_Interval
  <2>2. f \in Surjection(ins, P(n))  BY DEF Surjection
  <2> HIDE DEF f, ins, P
  <2> QED  BY <2>1, <2>2, FS_Surjection
<1>3. IsFiniteSet(all)
  <2> DEFINE f == [n \in D |-> P(n)]
  <2>1. f \in Surjection(D, all)  BY DEF Surjection
  <2> HIDE DEF f, D, all
  <2> QED  BY <1>1, <2>1, FS_Surjection
<1>4. \A T \in all : IsFiniteSet(T)
  <2> HIDE DEF P
  <2> QED  BY <1>2
<1>5. IsFiniteSet(UNION all)
  <2> HIDE DEF all
  <2> QED  BY <1>3, <1>4, FS_UNION
<1>6. Readers(g, t) \subseteq UNION all  BY DEF Readers
<1> HIDE DEF all
<1> QED  BY <1>5, <1>6, FS_Subset

(* A tensor that three nodes read has more than two uses. *)
LEMMA ThreeReaders ==
  ASSUME NEW g, Orderly(g), NEW t,
         NEW a \in DOMAIN g, NEW b \in DOMAIN g, NEW c \in DOMAIN g, a # b, b # c, a # c,
         \A n \in {a, b, c} : 1 \in DOMAIN g[n].inputs /\ g[n].inputs[1] = t
  PROVE  Uses(g, t) # 2
<1> DEFINE R == Readers(g, t)
           three == {<<a, 1>>, <<b, 1>>, <<c, 1>>}
<1>1. IsFiniteSet(R)  BY ReadersFinite
<1>2. three \subseteq R
  <2>1. \A n \in {a, b, c} : <<n, 1>> \in R  BY DEF Readers
  <2> HIDE DEF R
  <2> QED  BY <2>1
<1>3. Cardinality(three) = 3 /\ IsFiniteSet(three)
  <2> DEFINE one == {<<a, 1>>}
             two == one \cup {<<b, 1>>}
  <2>1. IsFiniteSet(one) /\ Cardinality(one) = 1  BY FS_Singleton
  <2>2. <<b, 1>> \notin one /\ <<c, 1>> \notin two  OBVIOUS
  <2> HIDE DEF one
  <2>3. IsFiniteSet(two) /\ Cardinality(two) = 2
    <3>1. /\ IsFiniteSet(one \cup {<<b, 1>>})
          /\ Cardinality(one \cup {<<b, 1>>}) = Cardinality(one) + 1
      BY <2>1, <2>2, FS_AddElement
    <3> QED  BY <2>1, <3>1
  <2>4. three = two \cup {<<c, 1>>}  BY DEF one
  <2> HIDE DEF two, three
  <2>5. IsFiniteSet(two \cup {<<c, 1>>}) /\ Cardinality(two \cup {<<c, 1>>}) = Cardinality(two) + 1
    BY <2>2, <2>3, FS_AddElement
  <2> QED  BY <2>3, <2>4, <2>5
<1> HIDE DEF three
<1>4. Cardinality(three) <= Cardinality(R)
  <2> HIDE DEF R
  <2> QED  BY <1>1, <1>2, FS_Subset
<1>5. Cardinality(R) \in Nat
  <2> HIDE DEF R
  <2> QED  BY <1>1, FS_CardinalityType
<1>6. Uses(g, t) = Cardinality(R)  BY DEF Uses, Readers
<1> HIDE DEF R
<1> QED  BY <1>3, <1>4, <1>5, <1>6

(* What the nth node, a cosine, becomes when the kth is the sine of the same. *)
Joins(g, match, n, k) ==
  /\ k \in DOMAIN g /\ g[k].op = "Sin" /\ g[k].outputs # <<>> /\ g[k].id \in match.skip
  /\ 1 \in DOMAIN g[n].inputs /\ 1 \in DOMAIN g[k].inputs /\ g[k].inputs[1] = g[n].inputs[1]
  /\ Uses(g, g[n].inputs[1]) = 2
  /\ match.node.op = "ROPETable" /\ g[n].outputs # <<>>
  /\ match.node.outputs = <<g[n].outputs[1], g[k].outputs[1]>>

(* What a node that a table is made through reads is ready, and the node is spent. *)
LEMMA TableStep ==
  ASSUME NEW g, Orderly(g), NEW n \in DOMAIN g, NEW t \in Ready(g, n),
         NEW op \in {"Concat", "Transpose", "MatMul", "Expand"}, ProducedBy(g, t, op)
  PROVE  LET v == Producer(g, t) IN
         /\ v.id \in Spent(g) /\ v.inputs \in Seq(Tensor) /\ DOMAIN v.inputs = 1..Len(v.inputs)
         /\ \A j \in DOMAIN v.inputs : v.inputs[j] \in Ready(g, n)
<1>1. op # "ROPETable" /\ op \notin Lasting  BY DEF Lasting, Plural, Several
<1> QED  BY <1>1, Step

(* The positions and the frequencies are ready where the cosine stands. *)
LEMMA TableInputs ==
  ASSUME NEW g, Orderly(g), NEW n \in DOMAIN g, RopeTableFound(g, g[n])
  PROVE  LET concat == Producer(g, g[n].inputs[1])
             turned == Producer(g, concat.inputs[1])
             product == Producer(g, turned.inputs[1])
             sides == {i \in 1..2 : PositionPath(g, product.inputs[i]) # {}}
             expand == Producer(g, product.inputs[3 - Smallest(sides)])
         IN  /\ product.inputs[Smallest(sides)] \in Ready(g, n)
             /\ expand.inputs[1] \in Ready(g, n) /\ expand.inputs[2] \in Ready(g, n)
             /\ {expand.id, product.id, turned.id, concat.id} \subseteq Spent(g)
<1> DEFINE cos == g[n]
           concat == Producer(g, cos.inputs[1])
           turned == Producer(g, concat.inputs[1])
           product == Producer(g, turned.inputs[1])
           sides == {i \in 1..2 : PositionPath(g, product.inputs[i]) # {}}
           side == Smallest(sides)
           expand == Producer(g, product.inputs[3 - side])
<1>0. /\ Len(cos.inputs) = 1 /\ ProducedBy(g, cos.inputs[1], "Concat") /\ Len(concat.inputs) = 2
      /\ ProducedBy(g, concat.inputs[1], "Transpose") /\ turned.inputs # <<>>
      /\ ProducedBy(g, turned.inputs[1], "MatMul") /\ Len(product.inputs) = 2
      /\ sides # {} /\ ProducedBy(g, product.inputs[3 - side], "Expand") /\ Len(expand.inputs) = 2
  BY DEF RopeTableFound
<1>1. cos.inputs[1] \in Ready(g, n)
  <2> HIDE DEF cos, concat, turned, product, sides, expand
  <2>1. 1 \in 1..Len(cos.inputs)  BY <1>0
  <2> QED  BY <2>1, InputReady DEF cos
<1>2. concat.inputs[1] \in Ready(g, n) /\ concat.id \in Spent(g)
  <2>1. /\ concat.id \in Spent(g) /\ DOMAIN concat.inputs = 1..Len(concat.inputs)
        /\ \A j \in DOMAIN concat.inputs : concat.inputs[j] \in Ready(g, n)
    BY <1>0, <1>1, TableStep
  <2> HIDE DEF concat, turned, product, sides, side, expand
  <2> QED  BY <1>0, <2>1
<1>3. turned.inputs[1] \in Ready(g, n) /\ turned.id \in Spent(g)
  <2>1. /\ turned.id \in Spent(g) /\ turned.inputs \in Seq(Tensor)
        /\ DOMAIN turned.inputs = 1..Len(turned.inputs)
        /\ \A j \in DOMAIN turned.inputs : turned.inputs[j] \in Ready(g, n)
    BY <1>0, <1>2, TableStep
  <2> HIDE DEF turned
  <2> QED  BY <1>0, <2>1
<1>4. product.id \in Spent(g) /\ \A j \in 1..2 : product.inputs[j] \in Ready(g, n)
  <2>1. /\ product.id \in Spent(g) /\ DOMAIN product.inputs = 1..Len(product.inputs)
        /\ \A j \in DOMAIN product.inputs : product.inputs[j] \in Ready(g, n)
    BY <1>0, <1>3, TableStep
  <2> HIDE DEF product
  <2> QED  BY <1>0, <2>1
<1>5. side \in 1..2
  <2> HIDE DEF product
  <2>1. sides \in SUBSET Nat /\ sides \subseteq 1..2  OBVIOUS
  <2>2. sides # {}  BY <1>0
  <2> HIDE DEF sides
  <2>3. Smallest(sides) \in sides  BY <2>1, <2>2, SmallestIs
  <2> QED  BY <2>1, <2>3
<1>6. ProducedBy(g, product.inputs[3 - side], "Expand") /\ Len(expand.inputs) = 2  BY <1>0
<1> HIDE DEF product, side
<1>7. product.inputs[side] \in Ready(g, n) /\ product.inputs[3 - side] \in Ready(g, n)
  <2>1. 3 - side \in 1..2  BY <1>5
  <2> QED  BY <1>4, <1>5, <2>1
<1>8. /\ expand.inputs[1] \in Ready(g, n) /\ expand.inputs[2] \in Ready(g, n)
      /\ expand.id \in Spent(g)
  <2>1. /\ expand.id \in Spent(g) /\ DOMAIN expand.inputs = 1..Len(expand.inputs)
        /\ \A j \in DOMAIN expand.inputs : expand.inputs[j] \in Ready(g, n)
    BY <1>6, <1>7, TableStep
  <2> HIDE DEF expand
  <2> QED  BY <1>6, <2>1
<1>9. {expand.id, product.id, turned.id, concat.id} \subseteq Spent(g)
  <2> HIDE DEF expand, turned, concat
  <2> QED  BY <1>2, <1>3, <1>4, <1>8
<1> QED  BY <1>7, <1>8, <1>9 DEF product, side

(* A table of ready tensors can stand where the cosine stood. *)
LEMMA TableStands ==
  ASSUME NEW g, Orderly(g), NEW n \in DOMAIN g, g[n].op = "Cos", g[n].outputs # <<>>,
         NEW k \in DOMAIN g, g[k].outputs # <<>>, NEW p, p.tensor \in Ready(g, n),
         NEW t \in Ready(g, n)
  PROVE  /\ Stands(g, Table(g[n], p, g[k], t), n)
         /\ Table(g[n], p, g[k], t).op = "ROPETable"
         /\ Table(g[n], p, g[k], t).outputs = <<g[n].outputs[1], g[k].outputs[1]>>
<1> DEFINE cos == g[n]
           ins == <<p.tensor, t>>
           outs == <<cos.outputs[1], g[k].outputs[1]>>
           w == Table(cos, p, g[k], t)
<1>1. cos \in Node /\ cos.op = "Cos"  BY OrderlyTyped
<1>2. ins \in Seq(Tensor) /\ ToSet(ins) \subseteq Ready(g, n)
  <2>1. ins \in Seq(Ready(g, n))  OBVIOUS
  <2> HIDE DEF ins
  <2> QED  BY <2>1, ReadyTyped DEF ToSet
<1>3. cos.outputs[1] \in Tensor /\ g[k].outputs[1] \in Tensor  BY OrderlyTyped
<1>4. outs \in Seq(Tensor) /\ ToSet(outs) = {cos.outputs[1], g[k].outputs[1]}
  <2>1. DOMAIN outs = 1..2 /\ outs[1] = cos.outputs[1] /\ outs[2] = g[k].outputs[1]  OBVIOUS
  <2>2. outs \in Seq(Tensor)  BY <1>3
  <2> HIDE DEF outs
  <2> QED  BY <2>1, <2>2 DEF ToSet
<1>5. Producers(g, cos.outputs[1]) # {} /\ Producers(g, g[k].outputs[1]) # {}
  <2>1. \A m \in DOMAIN g : g[m].outputs # <<>> => Producers(g, g[m].outputs[1]) # {}
    <3> TAKE m \in DOMAIN g
    <3> HAVE g[m].outputs # <<>>
    <3>1. 1 \in DOMAIN g[m].outputs
      <4>1. g[m].outputs \in Seq(Tensor)  BY OrderlyTyped
      <4> QED  BY <4>1
    <3>2. g[m].outputs[1] \in ToSet(g[m].outputs)  BY <3>1 DEF ToSet
    <3> QED  BY <3>2, OutputsProduced
  <2> QED  BY <2>1
<1>6. w = [cos EXCEPT !.op = "ROPETable", !.inputs = ins, !.outputs = outs]  BY DEF Table
<1>7. "ROPETable" \in Derived  BY DEF Derived
<1> HIDE DEF ins, w, outs, cos
<1>8. /\ w \in Node /\ w.id = cos.id /\ w.op = "ROPETable" /\ w.inputs = ins /\ w.outputs = outs
  BY <1>1, <1>2, <1>4, <1>6, <1>7 DEF Node
<1>9. Stands(g, w, n)  BY <1>1, <1>2, <1>4, <1>5, <1>8 DEF Stands, cos, Plural
<1> QED  BY <1>8, <1>9 DEF w, outs, cos

(* So can what RopeTable finds, and it joins a cosine and its sine. *)
LEMMA RopeTableStands ==
  ASSUME NEW g, Orderly(g), NEW n \in DOMAIN g, g[n].op = "Cos", NEW match \in RopeTable(g, g[n])
  PROVE  /\ Stands(g, match.node, n)
         /\ \E k \in DOMAIN g :
              Joins(g, match, n, k) /\ match.skip \subseteq Spent(g) \cup {g[k].id}
<1> DEFINE cos == g[n]
           concat == Producer(g, cos.inputs[1])
           turned == Producer(g, concat.inputs[1])
           product == Producer(g, turned.inputs[1])
           sides == {i \in 1..2 : PositionPath(g, product.inputs[i]) # {}}
           expand == Producer(g, product.inputs[3 - Smallest(sides)])
           t == expand.inputs[1]
           x == product.inputs[Smallest(sides)]
           s == expand.inputs[2]
           passed == {expand.id, product.id, turned.id, concat.id}
<1>1. RopeTableFound(g, cos) /\ RopeTableOf(g, cos, match)  BY RopeTableIs
<1>2. PICK p \in PositionPath(g, x), sin \in WithOp(g, {"Sin"}) :
        /\ Contains(sin.inputs, cos.inputs[1]) /\ sin.outputs # <<>>
        /\ match.node = Table(cos, p, sin, t)
        /\ \E shape \in ShapeOf(g, s, p.tensor) :
             match.skip = p.ids \cup shape
                            \cup {expand.id, product.id, turned.id, concat.id, sin.id}
  BY <1>1 DEF RopeTableOf
<1>3. x \in Ready(g, n) /\ t \in Ready(g, n) /\ s \in Ready(g, n) /\ passed \subseteq Spent(g)
  BY <1>1, TableInputs
<1>11. PICK shape \in ShapeOf(g, s, p.tensor) :
         match.skip = p.ids \cup shape \cup passed \cup {sin.id}
  <2>1. PICK shape \in ShapeOf(g, s, p.tensor) :
          match.skip = p.ids \cup shape
                         \cup {expand.id, product.id, turned.id, concat.id, sin.id}
    BY <1>2
  <2> HIDE DEF expand, product, turned, concat, s
  <2>2. match.skip = p.ids \cup shape \cup passed \cup {sin.id}  BY <2>1
  <2> QED  BY <2>1, <2>2
<1>4. Len(cos.inputs) = 1 /\ cos.outputs # <<>> /\ Uses(g, cos.inputs[1]) = 2
  BY <1>1 DEF RopeTableFound
<1> HIDE DEF x, t, s, passed
<1>5. p.tensor \in Ready(g, n) /\ p.ids \subseteq Spent(g)  BY <1>2, <1>3, PositionPathReady
<1>12. shape \subseteq Spent(g)  BY <1>3, <1>11, ShapeOfSpent
<1>6. sin.op = "Sin" /\ sin \in ToSet(g)  BY Named
<1>7. PICK k \in DOMAIN g : sin = g[k]  BY <1>6, OfGraph
<1>8. /\ Stands(g, match.node, n) /\ match.node.op = "ROPETable"
      /\ match.node.outputs = <<cos.outputs[1], g[k].outputs[1]>>
  <2>1. match.node = Table(g[n], p, g[k], t) /\ g[k].outputs # <<>> /\ g[n].outputs # <<>>
    BY <1>2, <1>4, <1>7
  <2>2. /\ Stands(g, Table(g[n], p, g[k], t), n)
        /\ Table(g[n], p, g[k], t).op = "ROPETable"
        /\ Table(g[n], p, g[k], t).outputs = <<g[n].outputs[1], g[k].outputs[1]>>
    BY <1>3, <1>5, <2>1, TableStands
  <2> QED  BY <2>1, <2>2
<1>9. /\ 1 \in DOMAIN cos.inputs /\ 1 \in DOMAIN g[k].inputs
      /\ g[k].inputs[1] = cos.inputs[1]
  <2>1. Len(g[k].inputs) = 1  BY <1>6, <1>7 DEF Orderly
  <2>2. DOMAIN cos.inputs = 1..Len(cos.inputs) /\ DOMAIN g[k].inputs = 1..Len(g[k].inputs)
        /\ cos.inputs \in Seq(Tensor) /\ g[k].inputs \in Seq(Tensor)
    BY OrderlyTyped
  <2>3. Contains(g[k].inputs, cos.inputs[1])  BY <1>2, <1>7
  <2>4. \E j \in 1..Len(g[k].inputs) : g[k].inputs[j] = cos.inputs[1]  BY <2>3 DEF Contains
  <2> QED  BY <1>4, <2>1, <2>2, <2>4
<1>10. Joins(g, match, n, k)  BY <1>2, <1>4, <1>6, <1>7, <1>8, <1>9, <1>11 DEF Joins
<1>13. match.skip \subseteq Spent(g) \cup {g[k].id}  BY <1>3, <1>5, <1>7, <1>11, <1>12
<1> QED  BY <1>8, <1>10, <1>13

(* How the node w that stands at the place of the nth comes to put out t: the nth did, or it
   is a cosine and its sine, which is dropped, did. *)
Keeps(g, n, t) == n \in Producers(g, t)

(* The kth, a sine that is dropped, did. *)
TakesOver(g, n, k, t, dropped) ==
  /\ k \in Producers(g, t) /\ g[k].op = "Sin" /\ g[n].op = "Cos" /\ g[k].id \in dropped
  /\ 1 \in DOMAIN g[n].inputs /\ 1 \in DOMAIN g[k].inputs /\ g[k].inputs[1] = g[n].inputs[1]
  /\ Uses(g, g[n].inputs[1]) = 2

(* What a table puts out, its cosine did or the sine that it drops. *)
LEMMA JoinedOutputs ==
  ASSUME NEW g, Orderly(g), NEW n \in DOMAIN g, g[n].op = "Cos", NEW match, NEW dropped,
         match.skip \subseteq dropped, NEW k \in DOMAIN g, Joins(g, match, n, k),
         NEW t, Contains(match.node.outputs, t)
  PROVE  Keeps(g, n, t) \/ TakesOver(g, n, k, t, dropped)
<1>1. /\ g[k].op = "Sin" /\ g[k].outputs # <<>> /\ g[k].id \in match.skip
      /\ 1 \in DOMAIN g[n].inputs /\ 1 \in DOMAIN g[k].inputs /\ g[k].inputs[1] = g[n].inputs[1]
      /\ Uses(g, g[n].inputs[1]) = 2 /\ g[n].outputs # <<>>
      /\ match.node.outputs = <<g[n].outputs[1], g[k].outputs[1]>>
  BY DEF Joins
<1>2. t = g[n].outputs[1] \/ t = g[k].outputs[1]
  <2> DEFINE s == <<g[n].outputs[1], g[k].outputs[1]>>
  <2>1. Contains(s, t)  BY <1>1
  <2>2. Len(s) = 2 /\ s[1] = g[n].outputs[1] /\ s[2] = g[k].outputs[1]  OBVIOUS
  <2> HIDE DEF s
  <2>3. \E j \in 1..2 : s[j] = t  BY <2>1, <2>2 DEF Contains
  <2> QED  BY <2>2, <2>3
<1>3. \A m \in DOMAIN g : g[m].outputs # <<>> => m \in Producers(g, g[m].outputs[1])
  <2> TAKE m \in DOMAIN g
  <2> HAVE g[m].outputs # <<>>
  <2>1. 1 \in DOMAIN g[m].outputs
    <3>1. g[m].outputs \in Seq(Tensor)  BY OrderlyTyped
    <3> QED  BY <3>1
  <2>2. g[m].outputs[1] \in ToSet(g[m].outputs)  BY <2>1 DEF ToSet
  <2> QED  BY <2>2, OutputsProduced
<1> QED  BY <1>1, <1>2, <1>3 DEF Keeps, TakesOver

(* Two nodes that are kept, or whose matches are, put out the same only if they are one. *)
LEMMA OneSource ==
  ASSUME NEW g, Orderly(g), NEW dropped, NEW t \in Tensor,
         NEW m \in DOMAIN g, NEW n \in DOMAIN g, g[m].id \notin dropped, g[n].id \notin dropped,
         Keeps(g, m, t) \/ \E k \in DOMAIN g : TakesOver(g, m, k, t, dropped),
         Keeps(g, n, t) \/ \E k \in DOMAIN g : TakesOver(g, n, k, t, dropped)
  PROVE  m = n
<1>0. \A i, j \in Producers(g, t) : i = j  BY DEF Orderly
<1>1. CASE Keeps(g, m, t) /\ Keeps(g, n, t)  BY <1>0, <1>1 DEF Keeps
<1>2. ASSUME NEW i \in DOMAIN g, g[i].id \notin dropped, Keeps(g, i, t),
             NEW j \in DOMAIN g, NEW k \in DOMAIN g, TakesOver(g, j, k, t, dropped)
      PROVE  FALSE
  BY <1>0, <1>2 DEF Keeps, TakesOver
<1>3. ASSUME NEW k \in DOMAIN g, TakesOver(g, m, k, t, dropped),
             NEW l \in DOMAIN g, TakesOver(g, n, l, t, dropped)
      PROVE  m = n
  <2>1. k = l  BY <1>0, <1>3 DEF TakesOver
  <2> SUFFICES ASSUME m # n PROVE FALSE  OBVIOUS
  <2> DEFINE u == g[m].inputs[1]
  <2>2. m # k /\ n # k  BY <1>3, <2>1 DEF TakesOver
  <2>3. \A i \in {m, n, k} : 1 \in DOMAIN g[i].inputs /\ g[i].inputs[1] = u
    BY <1>3, <2>1 DEF TakesOver
  <2>4. Uses(g, u) = 2  BY <1>3 DEF TakesOver
  <2> HIDE DEF u
  <2> QED  BY <2>2, <2>3, <2>4, ThreeReaders
<1> QED  BY <1>1, <1>2, <1>3

(* A cosine or a sine has one output. *)
LEMMA OnlyOutput ==
  ASSUME NEW g, Orderly(g), NEW n \in DOMAIN g, g[n].op \in {"Cos", "Sin"},
         NEW t \in ToSet(g[n].outputs)
  PROVE  t = g[n].outputs[1]
<1>1. Len(g[n].outputs) \in Nat /\ DOMAIN g[n].outputs = 1..Len(g[n].outputs)  BY OrderlyTyped
<1>2. ~ Len(g[n].outputs) > 1  BY DEF Orderly, Plural, Several
<1>3. PICK i \in DOMAIN g[n].outputs : g[n].outputs[i] = t  BY DEF ToSet
<1> QED  BY <1>1, <1>2, <1>3

(* A table puts out what its cosine did and what its sine did. *)
LEMMA JoinedContains ==
  ASSUME NEW g, NEW match, NEW n, NEW k, Joins(g, match, n, k)
  PROVE  /\ Contains(match.node.outputs, g[n].outputs[1])
         /\ Contains(match.node.outputs, g[k].outputs[1])
<1> DEFINE s == <<g[n].outputs[1], g[k].outputs[1]>>
<1>1. match.node.outputs = s  BY DEF Joins
<1>2. Len(s) = 2 /\ s[1] = g[n].outputs[1] /\ s[2] = g[k].outputs[1]  OBVIOUS
<1> HIDE DEF s
<1> QED  BY <1>1, <1>2 DEF Contains

(* The sine of a cosine that a table takes over is the same whichever match it is found in. *)
LEMMA OneSine ==
  ASSUME NEW g, Orderly(g), NEW n \in DOMAIN g, g[n].op = "Cos", NEW m1, NEW m2,
         NEW j \in DOMAIN g, Joins(g, m1, n, j), NEW k \in DOMAIN g, Joins(g, m2, n, k)
  PROVE  j = k
<1> SUFFICES ASSUME j # k PROVE FALSE  OBVIOUS
<1> DEFINE u == g[n].inputs[1]
<1>1. n # j /\ n # k  BY DEF Joins
<1>2. \A i \in {n, j, k} : 1 \in DOMAIN g[i].inputs /\ g[i].inputs[1] = u  BY DEF Joins
<1>3. Uses(g, u) = 2  BY DEF Joins
<1> HIDE DEF u
<1> QED  BY <1>1, <1>2, <1>3, ThreeReaders

(* Rotary tables are fused; a sine that is dropped is put out by its table. *)
LEMMA FuseRopeTableFollows ==
  ASSUME NEW g, Orderly(g)
  PROVE  Follows(FuseRopeTable(g), g)
<1> DEFINE found == [v \in WithOp(g, {"Cos"}) |-> RopeTable(g, v)]
           h == FuseRopeTable(g)
<1>1. ASSUME NEW n \in DOMAIN g, g[n] \in DOMAIN Fused(found)
      PROVE  /\ g[n] \in DOMAIN found /\ g[n].op = "Cos"
             /\ \E match \in RopeTable(g, g[n]) :
                  match \in found[g[n]] /\ Fused(found)[g[n]] = match.node
  <2> DEFINE v == g[n]
             ms == RopeTable(g, v)
  <2>1. v \in DOMAIN found /\ found[v] # {} /\ Fused(found)[v] = (CHOOSE m \in found[v] : TRUE).node
    <3> HIDE DEF found
    <3> QED  BY <1>1 DEF Fused
  <2>2. found[v] = ms /\ v \in WithOp(g, {"Cos"})  BY <2>1
  <2> HIDE DEF found, ms
  <2>3. (CHOOSE m \in ms : TRUE) \in ms  BY <2>1, <2>2
  <2>4. v.op = "Cos"  BY <2>2, Named
  <2> QED  BY <2>1, <2>2, <2>3, <2>4 DEF ms
<1>2. h = Fuse(g, found)  BY DEF FuseRopeTable
<1> HIDE DEF found, h
<1>3. PICK dropped : /\ h = Rewrite(g, Fused(found), dropped)
                     /\ \A n \in DOMAIN g : g[n] \in DOMAIN found /\ g[n].id \notin dropped
                          => \A match \in found[g[n]] : match.skip \subseteq dropped
                     /\ \A id \in dropped : \E n \in DOMAIN g :
                          g[n] \in DOMAIN found /\ \E match \in found[g[n]] : id \in match.skip
  BY <1>2, FuseSkips
<1>4. \A n \in DOMAIN g : g[n] \in DOMAIN Fused(found) => Stands(g, Fused(found)[g[n]], n)
  <2> TAKE n \in DOMAIN g
  <2> HAVE g[n] \in DOMAIN Fused(found)
  <2>1. PICK match \in RopeTable(g, g[n]) : g[n].op = "Cos" /\ Fused(found)[g[n]] = match.node
    BY <1>1
  <2>2. Stands(g, match.node, n)  BY <2>1, RopeTableStands
  <2> QED  BY <2>1, <2>2
<1>5. \A n \in DOMAIN g : g[n].id \notin dropped /\ g[n] \in DOMAIN Fused(found)
                            => Fused(found)[g[n]] \in Node
  BY <1>4 DEF Stands
<1>6. h \in Seq(Node) /\ \E e : Rewrites(e, h, g, Fused(found), dropped)
  BY <1>3, <1>5, RewriteIs
<1>7. PICK e : Rewrites(e, h, g, Fused(found), dropped)  BY <1>6
<1>8. /\ e \in [DOMAIN h -> DOMAIN g]
      /\ \A a, b \in DOMAIN h : a < b => e[a] < e[b]
      /\ \A a \in DOMAIN h :
           /\ e[a] \in DOMAIN g /\ g[e[a]].id \notin dropped
           /\ g[e[a]] \in DOMAIN Fused(found) => h[a] = Fused(found)[g[e[a]]]
           /\ g[e[a]] \notin DOMAIN Fused(found) => h[a] = g[e[a]]
  BY <1>7 DEF Rewrites
<1>9. \A a \in DOMAIN h : Stands(g, h[a], e[a])
  <2> TAKE a \in DOMAIN h
  <2>1. e[a] \in DOMAIN g  BY <1>8
  <2>2. Stands(g, g[e[a]], e[a])  BY <2>1, KeptReplaces DEF Replaces
  <2> QED  BY <1>4, <1>8, <2>1, <2>2
<1>10. ASSUME NEW a \in DOMAIN h, NEW t, Contains(h[a].outputs, t)
       PROVE  Keeps(g, e[a], t) \/ \E k \in DOMAIN g : TakesOver(g, e[a], k, t, dropped)
  <2> DEFINE n == e[a]
  <2>1. n \in DOMAIN g /\ g[n].id \notin dropped  BY <1>8
  <2>2. CASE g[n] \notin DOMAIN Fused(found)
    <3>1. h[a] = g[n]  BY <1>8, <2>2
    <3> QED  BY <1>10, <2>1, <3>1 DEF Keeps, Producers
  <2>3. CASE g[n] \in DOMAIN Fused(found)
    <3>1. PICK match \in RopeTable(g, g[n]) :
            /\ g[n].op = "Cos" /\ g[n] \in DOMAIN found /\ match \in found[g[n]]
            /\ Fused(found)[g[n]] = match.node
      BY <1>1, <2>1, <2>3
    <3>2. match.skip \subseteq dropped  BY <1>3, <2>1, <3>1
    <3>3. h[a] = match.node  BY <1>8, <2>3, <3>1
    <3> HIDE DEF n
    <3>4. PICK k \in DOMAIN g : Joins(g, match, n, k)  BY <2>1, <3>1, RopeTableStands
    <3>5. Contains(match.node.outputs, t)  BY <1>10, <3>3
    <3>6. Keeps(g, n, t) \/ TakesOver(g, n, k, t, dropped)
      BY <2>1, <3>1, <3>2, <3>4, <3>5, JoinedOutputs
    <3> QED  BY <3>6 DEF n
  <2> QED  BY <2>2, <2>3
<1>11. ASSUME NEW t \in Tensor, NEW a \in Producers(h, t), NEW b \in Producers(h, t) PROVE a = b
  <2>1. /\ a \in DOMAIN h /\ Contains(h[a].outputs, t)
        /\ b \in DOMAIN h /\ Contains(h[b].outputs, t)
    BY DEF Producers
  <2>2. e[a] = e[b]
    <3> DEFINE m == e[a]
               n == e[b]
    <3>1. m \in DOMAIN g /\ n \in DOMAIN g /\ g[m].id \notin dropped /\ g[n].id \notin dropped
      BY <1>8, <2>1
    <3>2. Keeps(g, m, t) \/ \E k \in DOMAIN g : TakesOver(g, m, k, t, dropped)  BY <1>10, <2>1
    <3>3. Keeps(g, n, t) \/ \E k \in DOMAIN g : TakesOver(g, n, k, t, dropped)  BY <1>10, <2>1
    <3> HIDE DEF m, n
    <3>4. m = n  BY <3>1, <3>2, <3>3, OneSource
    <3> QED  BY <3>4 DEF m, n
  <2>3. a \in Nat /\ b \in Nat /\ e[a] \in Nat /\ e[b] \in Nat
    <3>1. DOMAIN g = 1..Len(g)  BY OrderlyTyped
    <3>2. DOMAIN h = 1..Len(h)  BY <1>6
    <3> QED  BY <1>8, <2>1, <3>1, <3>2
  <2>4. ~ (e[a] < e[b]) /\ ~ (e[b] < e[a])  BY <2>2, <2>3
  <2>5. ~ (a < b) /\ ~ (b < a)  BY <1>8, <2>1, <2>4
  <2> QED  BY <2>3, <2>5
<1>12. Orderly(h) /\ Read(h) \subseteq Read(g)  BY <1>6, <1>8, <1>9, <1>11, StandInOrder
<1>13. ASSUME NEW v \in DOMAIN found
       PROVE  v.op = "Cos" /\ found[v] = RopeTable(g, v)
  <2>1. v \in WithOp(g, {"Cos"}) /\ found[v] = RopeTable(g, v)  BY <1>13 DEF found
  <2> QED  BY <2>1, Named
<1>14. ASSUME NEW id \in dropped, id \notin Spent(g)
       PROVE  \E n \in DOMAIN g, k \in DOMAIN g :
                /\ g[k].id = id /\ g[n].op = "Cos" /\ g[n] \in DOMAIN found
                /\ \E match \in RopeTable(g, g[n]) : Joins(g, match, n, k)
  <2>1. PICK n \in DOMAIN g : g[n] \in DOMAIN found /\ \E match \in found[g[n]] : id \in match.skip
    BY <1>3
  <2>2. g[n].op = "Cos" /\ found[g[n]] = RopeTable(g, g[n])  BY <1>13, <2>1
  <2>3. PICK match \in RopeTable(g, g[n]) : id \in match.skip  BY <2>1, <2>2
  <2>4. PICK k \in DOMAIN g : Joins(g, match, n, k) /\ match.skip \subseteq Spent(g) \cup {g[k].id}
    BY <2>2, RopeTableStands
  <2>5. g[k].id = id  BY <1>14, <2>3, <2>4
  <2> QED  BY <2>1, <2>2, <2>4, <2>5
<1>15. ASSUME NEW n \in DOMAIN g, g[n].op = "Cos"
       PROVE  g[n].id \notin dropped
  <2>1. SUFFICES ASSUME g[n].id \in dropped PROVE FALSE  OBVIOUS
  <2>2. g[n].id \notin Spent(g)  BY <1>15, SpentIs
  <2>3. PICK m \in DOMAIN g, k \in DOMAIN g :
          g[k].id = g[n].id /\ \E match \in RopeTable(g, g[m]) : Joins(g, match, m, k)
    BY <1>14, <2>1, <2>2
  <2>4. g[k].op = "Sin"  BY <2>3 DEF Joins
  <2>5. k = n  BY <2>3 DEF Orderly
  <2> QED  BY <1>15, <2>4, <2>5
(* A cosine and the sine that its table takes over are put out by the table. *)
<1>16. ASSUME NEW n \in DOMAIN g, g[n] \in DOMAIN Fused(found),
              NEW k \in DOMAIN g, NEW other, Joins(g, other, n, k)
       PROVE  \E a \in DOMAIN h : /\ Contains(h[a].outputs, g[n].outputs[1])
                                  /\ Contains(h[a].outputs, g[k].outputs[1])
  <2>1. PICK match \in RopeTable(g, g[n]) : g[n].op = "Cos" /\ Fused(found)[g[n]] = match.node
    BY <1>1, <1>16
  <2>2. g[n].id \notin dropped  BY <1>15, <2>1
  <2>3. PICK a \in DOMAIN h : e[a] = n  BY <1>7, <2>2 DEF Rewrites
  <2>4. h[a] = match.node  BY <1>8, <1>16, <2>1, <2>3
  <2>5. PICK j \in DOMAIN g : Joins(g, match, n, j)  BY <2>1, RopeTableStands
  <2>6. j = k  BY <1>16, <2>1, <2>5, OneSine
  <2>7. /\ Contains(match.node.outputs, g[n].outputs[1])
        /\ Contains(match.node.outputs, g[k].outputs[1])
    BY <2>5, <2>6, JoinedContains
  <2> QED  BY <2>4, <2>7
<1>17. ASSUME NEW t \in Unread(g) PROVE Producers(h, t) # {}
  <2>1. PICK n \in Producers(g, t) : t \notin Read(g)  BY <1>17 DEF Unread
  <2>2. n \in DOMAIN g /\ t \in ToSet(g[n].outputs) /\ Contains(g[n].outputs, t)
    BY <2>1, ProducersOutput DEF Producers
  <2>3. g[n].id \notin Spent(g)  BY <2>1, <2>2, SpentIs
  <2>4. CASE g[n].id \notin dropped /\ g[n] \notin DOMAIN Fused(found)
    <3>1. PICK a \in DOMAIN h : e[a] = n  BY <1>7, <2>2, <2>4 DEF Rewrites
    <3>2. h[a] = g[n]  BY <1>8, <2>4, <3>1
    <3> QED  BY <2>2, <3>1, <3>2 DEF Producers
  <2>5. CASE g[n] \in DOMAIN Fused(found)
    <3>1. PICK match \in RopeTable(g, g[n]) : g[n].op = "Cos"  BY <1>1, <2>2, <2>5
    <3>2. PICK k \in DOMAIN g : Joins(g, match, n, k)  BY <2>2, <3>1, RopeTableStands
    <3>3. t = g[n].outputs[1]  BY <2>2, <3>1, OnlyOutput
    <3>4. \E a \in DOMAIN h : Contains(h[a].outputs, t)  BY <1>16, <2>2, <2>5, <3>2, <3>3
    <3> QED  BY <3>4 DEF Producers
  <2>6. CASE g[n].id \in dropped
    <3>1. PICK m \in DOMAIN g, k \in DOMAIN g :
            /\ g[k].id = g[n].id /\ g[m].op = "Cos" /\ g[m] \in DOMAIN found
            /\ \E match \in RopeTable(g, g[m]) : Joins(g, match, m, k)
      BY <1>14, <2>3, <2>6
    <3>2. PICK match \in RopeTable(g, g[m]) : Joins(g, match, m, k)  BY <3>1
    <3>3. k = n /\ g[n].op = "Sin"  BY <2>2, <3>1, <3>2 DEF Orderly, Joins
    <3>4. found[g[m]] # {}  BY <1>13, <3>1, <3>2
    <3>5. g[m] \in DOMAIN Fused(found)  BY <3>1, <3>4 DEF Fused
    <3>6. t = g[k].outputs[1]  BY <2>2, <3>3, OnlyOutput
    <3>7. \E a \in DOMAIN h : Contains(h[a].outputs, t)  BY <1>16, <3>2, <3>5, <3>6
    <3> QED  BY <3>7 DEF Producers
  <2> QED  BY <2>4, <2>5, <2>6
<1>18. Follows(h, g)  BY <1>12, <1>17, KeptFollows
<1> QED  BY <1>18 DEF h

-----------------------------------------------------------------------------
(* Identities.                                                             *)

(* How Resolve follows copies. *)
Resolving(f, alias, t, n) ==
  f = [k \in 0..n |-> IF k = 0 THEN t ELSE alias[f[k - 1]]]

(* A chain of copies stays in a set that the copies of its elements are in. *)
LEMMA ResolveStays ==
  ASSUME NEW n \in Nat, NEW X, NEW alias, \A u \in X : alias[u] \in X, NEW t \in X
  PROVE  Resolve(alias, t, n) \in X
<1> DEFINE step == [k \in 1..n |-> [u \in X |-> alias[u]]]
           f == CHOOSE h : Resolving(h, alias, t, n)
<1>1. step \in [1..n -> [X -> X]]  OBVIOUS
<1>2. PICK h \in [0..n -> X] : Recursion(h, n, t, step)
  <2> HIDE DEF step
  <2> QED  BY <1>1, RecursionExists
<1>3. \A k \in 1..n : \A u \in X : step[k][u] = alias[u]  OBVIOUS
<1> HIDE DEF step
<1>4. Resolving(h, alias, t, n)
  <2>1. ASSUME NEW k \in 0..n, k # 0 PROVE step[k][h[k - 1]] = alias[h[k - 1]]
    <3>1. k \in 1..n /\ k - 1 \in 0..n  BY <2>1
    <3>2. h[k - 1] \in X  BY <3>1
    <3> QED  BY <1>3, <3>1, <3>2
  <2>2. h = [k \in 0..n |-> IF k = 0 THEN t ELSE step[k][h[k - 1]]]  BY <1>2 DEF Recursion
  <2>3. h = [k \in 0..n |-> IF k = 0 THEN t ELSE alias[h[k - 1]]]  BY <2>1, <2>2
  <2> QED  BY <2>3 DEF Resolving
<1>5. Resolving(f, alias, t, n)  BY <1>4
<1>6. Resolve(alias, t, n) = f[n]  BY DEF Resolve, Resolving
<1> HIDE DEF f
<1>7. f[0] = t /\ \A k \in 1..n : f[k - 1] \in X => f[k] = step[k][f[k - 1]]
  <2>0. f = [k \in 0..n |-> IF k = 0 THEN t ELSE alias[f[k - 1]]]  BY <1>5 DEF Resolving
  <2>1. 0 \in 0..n /\ \A k \in 1..n : k \in 0..n /\ k # 0  OBVIOUS
  <2>2. f[0] = t  BY <2>0, <2>1
  <2>3. ASSUME NEW k \in 1..n, f[k - 1] \in X PROVE f[k] = step[k][f[k - 1]]
    <3>1. f[k] = alias[f[k - 1]]  BY <2>0, <2>1
    <3> QED  BY <1>3, <2>3, <3>1
  <2> QED  BY <2>2, <2>3
<1>8. Walks(f, n, X, t, step)  BY <1>1, <1>7 DEF Walks
<1>9. f[n] \in X  BY <1>8, WalkStays
<1> QED  BY <1>6, <1>9

(* A node whose inputs are renamed. *)
Moved(v, alias, n) ==
  [v EXCEPT !.inputs = [j \in DOMAIN v.inputs |-> Resolve(alias, v.inputs[j], n)]]

(* One step of the scan. *)
EliminateStep(g, k, w) ==
  IF IsIdentity(g[k])
  THEN [w EXCEPT !.alias[g[k].outputs[1]] = Resolve(w.alias, g[k].inputs[1], Len(g))]
  ELSE [w EXCEPT !.nodes = Append(@, Moved(g[k], w.alias, Len(g)))]

(* How EliminateIdentities scans. *)
Scanning(f, g) ==
  f = [k \in 0..Len(g) |-> IF k = 0 THEN [alias |-> [t \in Tensor |-> t], nodes |-> <<>>]
                           ELSE EliminateStep(g, k, f[k - 1])]

(* What it holds. *)
ScanType == [alias : [Tensor -> Tensor], nodes : Seq(Node)]

(* An identity reads one ready tensor and puts out one. *)
LEMMA IdentityReads ==
  ASSUME NEW g, Orderly(g), NEW k \in DOMAIN g, IsIdentity(g[k])
  PROVE  /\ g[k].inputs[1] \in Ready(g, k) /\ g[k].inputs[1] \in Tensor
         /\ g[k].outputs[1] \in Tensor /\ k \in Producers(g, g[k].outputs[1])
         /\ g[k].op = "Identity"
<1>1. g[k].op = "Identity" /\ Len(g[k].inputs) = 1 /\ Len(g[k].outputs) = 1  BY DEF IsIdentity
<1>2. 1 \in 1..Len(g[k].inputs) /\ 1 \in DOMAIN g[k].outputs  BY <1>1, OrderlyTyped
<1>3. g[k].inputs[1] \in Ready(g, k) /\ g[k].inputs[1] \in Tensor  BY <1>2, InputReady
<1>4. g[k].outputs[1] \in ToSet(g[k].outputs)  BY <1>2 DEF ToSet
<1>5. k \in Producers(g, g[k].outputs[1])  BY <1>4, OutputsProduced
<1>6. g[k].outputs[1] \in Tensor  BY <1>2, OrderlyTyped
<1> QED  BY <1>1, <1>3, <1>5, <1>6

(* A node with renamed inputs is what it was else. *)
LEMMA MovedTyped ==
  ASSUME NEW v \in Node, NEW n \in Nat, NEW alias, \A u \in Tensor : alias[u] \in Tensor
  PROVE  /\ Moved(v, alias, n) \in Node
         /\ LET w == Moved(v, alias, n) IN
            /\ w.id = v.id /\ w.op = v.op /\ w.outputs = v.outputs
            /\ Len(w.inputs) = Len(v.inputs) /\ DOMAIN w.inputs = DOMAIN v.inputs
            /\ \A j \in DOMAIN w.inputs : w.inputs[j] = Resolve(alias, v.inputs[j], n)
<1> DEFINE ins == [j \in DOMAIN v.inputs |-> Resolve(alias, v.inputs[j], n)]
           w == [v EXCEPT !.inputs = ins]
<1>1. v.inputs \in Seq(Tensor) /\ Len(v.inputs) \in Nat /\ DOMAIN v.inputs = 1..Len(v.inputs)
  BY DEF Node
<1>2. \A j \in DOMAIN v.inputs : Resolve(alias, v.inputs[j], n) \in Tensor
  BY <1>1, ResolveStays
<1>3. ins \in Seq(Tensor) /\ Len(ins) = Len(v.inputs) /\ DOMAIN ins = DOMAIN v.inputs
  BY <1>1, <1>2
<1>4. \A j \in DOMAIN ins : ins[j] = Resolve(alias, v.inputs[j], n)  OBVIOUS
<1>5. Moved(v, alias, n) = w  BY DEF Moved
<1> HIDE DEF ins
<1>6. w \in Node /\ w.id = v.id /\ w.op = v.op /\ w.outputs = v.outputs /\ w.inputs = ins
  BY <1>3 DEF Node
<1> HIDE DEF w
<1> QED  BY <1>3, <1>4, <1>5, <1>6

(* One step is typed, and either learns a copy or keeps a node. *)
LEMMA ScanTyped ==
  ASSUME NEW g, Orderly(g), NEW k \in DOMAIN g, NEW w \in ScanType
  PROVE  /\ EliminateStep(g, k, w) \in ScanType
         /\ IsIdentity(g[k]) =>
              /\ EliminateStep(g, k, w).nodes = w.nodes
              /\ EliminateStep(g, k, w).alias = [w.alias EXCEPT ![g[k].outputs[1]] =
                                          Resolve(w.alias, g[k].inputs[1], Len(g))]
         /\ ~ IsIdentity(g[k]) =>
              /\ EliminateStep(g, k, w).alias = w.alias
              /\ EliminateStep(g, k, w).nodes = Append(w.nodes, Moved(g[k], w.alias, Len(g)))
<1>1. w.alias \in [Tensor -> Tensor] /\ w.nodes \in Seq(Node)  BY DEF ScanType
<1>2. Len(g) \in Nat /\ g[k] \in Node  BY OrderlyTyped
<1>3. CASE IsIdentity(g[k])
  <2> DEFINE t == Resolve(w.alias, g[k].inputs[1], Len(g))
             alias == [w.alias EXCEPT ![g[k].outputs[1]] = t]
             s == [w EXCEPT !.alias[g[k].outputs[1]] = t]
  <2>1. g[k].inputs[1] \in Tensor /\ g[k].outputs[1] \in Tensor  BY <1>3, IdentityReads
  <2>2. t \in Tensor  BY <1>1, <1>2, <2>1, ResolveStays
  <2>3. EliminateStep(g, k, w) = s  BY <1>3 DEF EliminateStep
  <2> HIDE DEF t
  <2>4. alias \in [Tensor -> Tensor]  BY <1>1, <2>2
  <2>5. s = [w EXCEPT !.alias = alias]  BY DEF ScanType
  <2> HIDE DEF s, alias
  <2>6. s.alias = alias /\ s.nodes = w.nodes /\ s \in ScanType  BY <1>1, <2>4, <2>5 DEF ScanType
  <2> QED  BY <1>3, <2>3, <2>6 DEF alias, t
<1>4. CASE ~ IsIdentity(g[k])
  <2> DEFINE moved == Moved(g[k], w.alias, Len(g))
             nodes == Append(w.nodes, moved)
             s == [w EXCEPT !.nodes = Append(@, moved)]
  <2>1. moved \in Node  BY <1>1, <1>2, MovedTyped
  <2>2. EliminateStep(g, k, w) = s  BY <1>4 DEF EliminateStep
  <2> HIDE DEF moved
  <2>3. nodes \in Seq(Node)  BY <1>1, <2>1
  <2>4. s = [w EXCEPT !.nodes = nodes]  BY DEF ScanType
  <2> HIDE DEF s, nodes
  <2>5. s.alias = w.alias /\ s.nodes = nodes /\ s \in ScanType  BY <1>1, <2>3, <2>4 DEF ScanType
  <2> QED  BY <1>4, <2>2, <2>5 DEF nodes, moved
<1> QED  BY <1>3, <1>4

(* The copies found so far are of tensors that are ready where the copies are. *)
CopiesReady(g, alias) == \A n \in DOMAIN g : \A u \in Ready(g, n) : alias[u] \in Ready(g, n)

(* The nodes kept of the first k, each with its inputs renamed. *)
Keeping(d, r, g, k) ==
  /\ d \in [DOMAIN r -> 1..k]
  /\ \A a, b \in DOMAIN r : a < b => d[a] < d[b]
  /\ \A a \in DOMAIN r : Replaces(g, r[a], d[a])
  /\ \A i \in 1..k : ~ IsIdentity(g[i]) => \E a \in DOMAIN r : d[a] = i

(* They stay so when a copy is learnt. *)
LEMMA CopiesStayReady ==
  ASSUME NEW g, Orderly(g), NEW k \in DOMAIN g, IsIdentity(g[k]),
         NEW alias \in [Tensor -> Tensor], CopiesReady(g, alias)
  PROVE  CopiesReady(g, [alias EXCEPT ![g[k].outputs[1]] =
                           Resolve(alias, g[k].inputs[1], Len(g))])
<1> DEFINE o == g[k].outputs[1]
           t == g[k].inputs[1]
           to == Resolve(alias, t, Len(g))
           new == [alias EXCEPT ![o] = to]
<1>1. t \in Ready(g, k) /\ o \in Tensor /\ k \in Producers(g, o) /\ g[k].op = "Identity"
  BY IdentityReads
<1>2. Len(g) \in Nat /\ k \in Nat  BY OrderlyTyped
<1>3. ASSUME NEW n \in DOMAIN g, NEW u \in Ready(g, n) PROVE new[u] \in Ready(g, n)
  <2>1. u \in Tensor  BY DEF Ready
  <2>2. CASE u # o
    <3>1. new[u] = alias[u]  BY <2>1, <2>2
    <3> QED  BY <3>1 DEF CopiesReady
  <2>3. CASE u = o
    <3>1. new[u] = to
      <4> HIDE DEF o, to
      <4> QED  BY <1>1, <2>3
    <3>2. k < n  BY <1>1, <2>3 DEF Ready
    <3>3. Ready(g, k) \subseteq Ready(g, n)
      <4> SUFFICES ASSUME NEW x \in Ready(g, k) PROVE x \in Ready(g, n)  OBVIOUS
      <4>1. \A m \in Producers(g, x) : m \in Nat  BY OrderlyTyped DEF Producers
      <4>2. n \in Nat  BY OrderlyTyped
      <4> QED  BY <1>2, <3>2, <4>1, <4>2 DEF Ready
    <3>4. t \in Ready(g, n)  BY <1>1, <3>3
    <3>5. \A x \in Ready(g, n) : alias[x] \in Ready(g, n)  BY DEF CopiesReady
    <3>6. to \in Ready(g, n)  BY <1>2, <3>4, <3>5, ResolveStays
    <3> QED  BY <3>1, <3>6
  <2> QED  BY <2>2, <2>3
<1> QED  BY <1>3 DEF CopiesReady

(* So a node with its inputs renamed can stand where it stands. *)
LEMMA MovedReplaces ==
  ASSUME NEW g, Orderly(g), NEW k \in DOMAIN g, NEW alias \in [Tensor -> Tensor],
         CopiesReady(g, alias)
  PROVE  Replaces(g, Moved(g[k], alias, Len(g)), k)
<1> DEFINE v == g[k]
           w == Moved(v, alias, Len(g))
<1>1. v \in Node /\ Len(g) \in Nat /\ \A j \in DOMAIN v.inputs : v.inputs[j] \in Ready(g, k)
  BY OrderlyTyped
<1>2. \A u \in Tensor : alias[u] \in Tensor  OBVIOUS
<1>3. /\ w \in Node /\ w.id = v.id /\ w.op = v.op /\ w.outputs = v.outputs
      /\ Len(w.inputs) = Len(v.inputs) /\ DOMAIN w.inputs = DOMAIN v.inputs
      /\ \A j \in DOMAIN w.inputs : w.inputs[j] = Resolve(alias, v.inputs[j], Len(g))
  BY <1>1, <1>2, MovedTyped
<1>4. \A u \in Ready(g, k) : alias[u] \in Ready(g, k)  BY DEF CopiesReady
<1>5. \A j \in DOMAIN v.inputs : Resolve(alias, v.inputs[j], Len(g)) \in Ready(g, k)
  BY <1>1, <1>4, ResolveStays
<1> HIDE DEF w
<1>6. ToSet(w.inputs) \subseteq Ready(g, k)  BY <1>3, <1>5 DEF ToSet
<1>7. \A t \in ToSet(v.outputs) : k \in Producers(g, t)  BY OutputsProduced
<1>9. Len(v.outputs) > 1 => v.op \in Plural  BY DEF Orderly
<1>8. Replaces(g, w, k)  BY <1>3, <1>6, <1>7, <1>9 DEF Replaces, Stands
<1> QED  BY <1>8 DEF w

(* One node more is dropped or kept. *)
LEMMA KeepingMore ==
  ASSUME NEW g, Orderly(g), NEW k \in DOMAIN g, NEW r \in Seq(Node), NEW d, Keeping(d, r, g, k - 1)
  PROVE  /\ IsIdentity(g[k]) => Keeping(d, r, g, k)
         /\ \A w \in Node : Replaces(g, w, k) => \E c : Keeping(c, Append(r, w), g, k)
<1>1. k \in Nat /\ k \in 1..k /\ Len(r) \in Nat /\ DOMAIN r = 1..Len(r)  BY OrderlyTyped
<1>2. /\ 1..(k - 1) \subseteq 1..k /\ \A j \in 1..(k - 1) : j < k
      /\ \A j \in 1..k : j \in 1..(k - 1) \/ j = k
  BY <1>1
<1>3. /\ d \in [DOMAIN r -> 1..(k - 1)]
      /\ \A a, b \in DOMAIN r : a < b => d[a] < d[b]
      /\ \A a \in DOMAIN r : Replaces(g, r[a], d[a])
      /\ \A i \in 1..(k - 1) : ~ IsIdentity(g[i]) => \E a \in DOMAIN r : d[a] = i
  BY DEF Keeping
<1>4. d \in [DOMAIN r -> 1..k]
  <2> HIDE DEF Keeping
  <2>1. \A a \in DOMAIN r : d[a] \in 1..k  BY <1>2, <1>3
  <2> QED  BY <1>3, <2>1
<1>5. IsIdentity(g[k]) => Keeping(d, r, g, k)  BY <1>2, <1>3, <1>4 DEF Keeping
<1>6. ASSUME NEW w \in Node, Replaces(g, w, k) PROVE \E c : Keeping(c, Append(r, w), g, k)
  <2> DEFINE q == Append(r, w)
             c == [a \in 1..(Len(r) + 1) |-> IF a \in DOMAIN r THEN d[a] ELSE k]
  <2>1. /\ DOMAIN q = 1..(Len(r) + 1)
        /\ \A a \in DOMAIN q : (a \in DOMAIN r /\ q[a] = r[a]) \/ (a = Len(r) + 1 /\ q[a] = w)
        /\ \A a \in DOMAIN r : a < Len(r) + 1 /\ a \in DOMAIN q
        /\ Len(r) + 1 \notin DOMAIN r
    BY <1>1
  <2>2. /\ \A a \in DOMAIN r : c[a] = d[a]
        /\ c[Len(r) + 1] = k
    BY <1>1
  <2> HIDE DEF q
  <2>3. c \in [DOMAIN q -> 1..k]
    <3>1. \A a \in 1..(Len(r) + 1) : c[a] \in 1..k  BY <1>1, <1>4, <2>1, <2>2
    <3> QED  BY <2>1, <3>1
  <2> HIDE DEF c
  <2>4. ASSUME NEW a \in DOMAIN q, NEW b \in DOMAIN q, a < b PROVE c[a] < c[b]
    <3>1. a \in DOMAIN r
      <4>1. ~ (Len(r) + 1 < b)  BY <1>1, <2>1
      <4> QED  BY <2>1, <2>4, <4>1
    <3>2. CASE b \in DOMAIN r  BY <1>3, <2>2, <2>4, <3>1, <3>2
    <3>3. CASE b = Len(r) + 1
      <4>1. d[a] \in 1..(k - 1)  BY <1>3, <3>1
      <4> QED  BY <1>2, <2>2, <3>1, <3>3, <4>1
    <3> QED  BY <2>1, <3>2, <3>3
  <2>5. ASSUME NEW a \in DOMAIN q PROVE Replaces(g, q[a], c[a])
    BY <1>3, <1>6, <2>1, <2>2
  <2>7. ASSUME NEW i \in 1..k, ~ IsIdentity(g[i]) PROVE \E a \in DOMAIN q : c[a] = i
    <3>1. CASE i = k  BY <2>1, <2>2, <3>1
    <3>2. CASE i \in 1..(k - 1)
      <4>1. PICK a \in DOMAIN r : d[a] = i  BY <1>3, <2>7, <3>2
      <4> QED  BY <2>1, <2>2, <4>1
    <3> QED  BY <1>2, <3>1, <3>2
  <2>6. Keeping(c, q, g, k)  BY <2>3, <2>4, <2>5, <2>7 DEF Keeping
  <2> QED  BY <2>6 DEF q
<1> QED  BY <1>5, <1>6

(* Identities are eliminated in order, and nothing else that no node reads is lost. *)
LEMMA EliminateIdentitiesKeeps ==
  ASSUME NEW g, Orderly(g)
  PROVE  /\ Orderly(EliminateIdentities(g))
         /\ Unread(g) \ Copies(g) \subseteq Unread(EliminateIdentities(g))
<1> DEFINE N == Len(g)
           X == ScanType
           base == [alias |-> [t \in Tensor |-> t], nodes |-> <<>>]
           step == [k \in 1..N |-> [w \in X |-> EliminateStep(g, k, w)]]
           f == CHOOSE h : Scanning(h, g)
<1>0. N \in Nat /\ DOMAIN g = 1..N  BY OrderlyTyped
<1>1. base \in X  BY DEF ScanType
<1>3. step \in [1..N -> [X -> X]]
  <2>1. \A k \in 1..N : \A w \in X : EliminateStep(g, k, w) \in X  BY <1>0, ScanTyped
  <2> HIDE DEF X
  <2> QED  BY <2>1
<1> HIDE DEF X, base, N
<1>4. PICK h \in [0..N -> X] : Recursion(h, N, base, step)
  <2> HIDE DEF step
  <2> QED  BY <1>0, <1>1, <1>3, RecursionExists
<1>5. \A k \in 1..N : \A w \in X : step[k][w] = EliminateStep(g, k, w)
  OBVIOUS
<1> HIDE DEF step
<1>6. Scanning(h, g)
  <2>1. ASSUME NEW k \in 0..N, k # 0 PROVE step[k][h[k - 1]] = EliminateStep(g, k, h[k - 1])
    <3>1. k \in 1..N /\ k - 1 \in 0..N  BY <1>0, <2>1
    <3>2. h[k - 1] \in X  BY <3>1
    <3> QED  BY <1>5, <3>1, <3>2
  <2>2. h = [k \in 0..N |-> IF k = 0 THEN base ELSE step[k][h[k - 1]]]  BY <1>4 DEF Recursion
  <2>3. h = [k \in 0..N |-> IF k = 0 THEN base ELSE EliminateStep(g, k, h[k - 1])]  BY <2>1, <2>2
  <2> QED  BY <2>3 DEF Scanning, N, base
<1>7. Scanning(f, g)  BY <1>6
<1>8. EliminateIdentities(g) = f[N].nodes
  BY DEF EliminateIdentities, EliminateStep, Moved, Scanning, N
<1> HIDE DEF f
<1>9. f = [k \in 0..N |-> IF k = 0 THEN base ELSE EliminateStep(g, k, f[k - 1])]
  BY <1>7 DEF Scanning, N, base
<1>10. f[0] = base /\ \A k \in 1..N : f[k] = EliminateStep(g, k, f[k - 1])
  <2>1. 0 \in 0..N /\ \A k \in 1..N : k \in 0..N /\ k # 0  BY <1>0
  <2> QED  BY <1>9, <2>1
<1> DEFINE Good == {k \in 0..N : /\ f[k] \in X /\ CopiesReady(g, f[k].alias)
                                 /\ \E d : Keeping(d, f[k].nodes, g, k)}
<1>11. 0 \in Good
  <2>1. base.alias = [t \in Tensor |-> t] /\ base.nodes = <<>>  BY DEF base
  <2>2. CopiesReady(g, base.alias)  BY <2>1 DEF CopiesReady, Ready
  <2> DEFINE d == [a \in {} |-> 1]
  <2>3. Keeping(d, <<>>, g, 0)  BY DEF Keeping
  <2> HIDE DEF d
  <2> QED  BY <1>0, <1>1, <1>10, <2>1, <2>2, <2>3
<1>12. ASSUME NEW i \in 0..(N - 1), i \in Good PROVE i + 1 \in Good
  <2> DEFINE k == i + 1
             w == f[i]
             u == f[k]
  <2>1. k \in DOMAIN g /\ k \in 1..N /\ k \in 0..N /\ k - 1 = i  BY <1>0
  <2>2. w \in X /\ CopiesReady(g, w.alias)  BY <1>12
  <2>3. PICK d : Keeping(d, w.nodes, g, i)  BY <1>12
  <2> HIDE DEF k, Good
  <2>4. u = EliminateStep(g, k, w)  BY <1>10, <2>1
  <2>5. u \in X
    <3>1. w \in ScanType  BY <2>2 DEF X
    <3> HIDE DEF u, w
    <3>2. EliminateStep(g, k, w) \in ScanType  BY <2>1, <3>1, ScanTyped
    <3> QED  BY <2>4, <3>2 DEF X
  <2>6. w.alias \in [Tensor -> Tensor] /\ w.nodes \in Seq(Node)  BY <2>2 DEF X, ScanType
  <2> HIDE DEF u, w
  <2>7. Keeping(d, w.nodes, g, k - 1)  BY <2>1, <2>3
  <2>8. CASE IsIdentity(g[k])
    <3>1. /\ u.nodes = w.nodes
          /\ u.alias = [w.alias EXCEPT ![g[k].outputs[1]] =
                          Resolve(w.alias, g[k].inputs[1], Len(g))]
      BY <2>1, <2>2, <2>4, <2>8, ScanTyped DEF X
    <3>2. CopiesReady(g, u.alias)  BY <2>1, <2>2, <2>6, <2>8, <3>1, CopiesStayReady
    <3>3. Keeping(d, u.nodes, g, k)  BY <2>1, <2>6, <2>7, <2>8, <3>1, KeepingMore
    <3> QED  BY <2>1, <2>5, <3>2, <3>3 DEF Good, u, k
  <2>9. CASE ~ IsIdentity(g[k])
    <3> DEFINE moved == Moved(g[k], w.alias, Len(g))
    <3>1. u.alias = w.alias /\ u.nodes = Append(w.nodes, moved)
      <4>1. w \in ScanType  BY <2>2 DEF X
      <4>2. /\ EliminateStep(g, k, w).alias = w.alias
            /\ EliminateStep(g, k, w).nodes = Append(w.nodes, Moved(g[k], w.alias, Len(g)))
        BY <2>1, <2>9, <4>1, ScanTyped
      <4> HIDE DEF moved
      <4> QED  BY <2>4, <4>2 DEF moved
    <3>2. Replaces(g, moved, k)  BY <2>1, <2>2, <2>6, MovedReplaces
    <3>3. moved \in Node  BY <3>2 DEF Replaces, Stands
    <3> HIDE DEF moved
    <3>4. \E c : Keeping(c, u.nodes, g, k)  BY <2>1, <2>6, <2>7, <3>1, <3>2, <3>3, KeepingMore
    <3>5. CopiesReady(g, u.alias)  BY <2>2, <3>1
    <3> QED  BY <2>1, <2>5, <3>4, <3>5 DEF Good, u, k
  <2> QED  BY <2>8, <2>9
<1>13. \A k \in 0..N : k \in Good
  <2> HIDE DEF Good
  <2> QED  BY <1>0, <1>11, <1>12, UpTo
<1>14. N \in Good  BY <1>0, <1>13
<1> DEFINE r == f[N].nodes
<1>15. r \in Seq(Node)  BY <1>14 DEF X, ScanType
<1>16. PICK d : Keeping(d, r, g, N)  BY <1>14
<1> HIDE DEF Good, r
<1>17. /\ d \in [DOMAIN r -> DOMAIN g] /\ \A a, b \in DOMAIN r : a < b => d[a] < d[b]
       /\ \A a \in DOMAIN r : Replaces(g, r[a], d[a])
  BY <1>0, <1>16 DEF Keeping
<1>18. Orderly(r) /\ Read(r) \subseteq Read(g)  BY <1>15, <1>17, ReplacedInOrder
<1>19. ASSUME NEW t \in Unread(g), t \notin Copies(g) PROVE t \in Unread(r)
  <2>1. t \in Tensor /\ Producers(g, t) # {} /\ t \notin Read(g)  BY DEF Unread
  <2>2. PICK n \in DOMAIN g : Producers(g, t) = {n} /\ Producer(g, t) = g[n]
    BY <2>1, ProducerIs
  <2>3. ~ IsIdentity(g[n])  BY <1>19, <2>1, <2>2 DEF Copies, Produced
  <2>4. PICK a \in DOMAIN r : d[a] = n  BY <1>0, <1>16, <2>2, <2>3 DEF Keeping
  <2>5. r[a].outputs = g[n].outputs  BY <1>17, <2>4 DEF Replaces
  <2>6. a \in Producers(r, t)  BY <2>2, <2>4, <2>5 DEF Producers
  <2> QED  BY <1>18, <2>1, <2>6 DEF Unread
<1> QED  BY <1>8, <1>18, <1>19 DEF r

-----------------------------------------------------------------------------
(* All passes.                                                             *)

(* Every pass hands on a graph in order, with what no node reads but for copies. *)
LEMMA PassKeeps ==
  ASSUME NEW g, Orderly(g), NEW k \in 1..PassCount
  PROVE  /\ Orderly(Pass(k, g))
         /\ Unread(g) \ Copies(g) \subseteq Unread(Pass(k, g))
         /\ k # 1 => Follows(Pass(k, g), g)
<1>1. k = 1 => /\ Orderly(Pass(k, g))
               /\ Unread(g) \ Copies(g) \subseteq Unread(Pass(k, g))
  <2> SUFFICES ASSUME k = 1
               PROVE  /\ Orderly(EliminateIdentities(g))
                      /\ Unread(g) \ Copies(g) \subseteq Unread(EliminateIdentities(g))
    BY DEF Pass
  <2> QED  BY EliminateIdentitiesKeeps
<1>2. k = 2 => Follows(Pass(k, g), g)
  <2> SUFFICES ASSUME k = 2 PROVE Follows(NormalizeMatMulNBits(g), g)  BY DEF Pass
  <2> QED  BY NormalizeMatMulNBitsFollows
<1>3. k = 3 => Follows(Pass(k, g), g)
  <2> SUFFICES ASSUME k = 3 PROVE Follows(FuseMatMulAdd(g), g)  BY DEF Pass
  <2> QED  BY FuseMatMulAddFollows
<1>4. k = 4 => Follows(Pass(k, g), g)
  <2> SUFFICES ASSUME k = 4 PROVE Follows(NormalizeConstantMatMul(g), g)  BY DEF Pass
  <2> QED  BY NormalizeConstantMatMulFollows
<1>5. k = 5 => Follows(Pass(k, g), g)
  <2> SUFFICES ASSUME k = 5 PROVE Follows(FuseEmbeddingLookup(g), g)  BY DEF Pass
  <2> QED  BY FuseEmbeddingLookupFollows
<1>6. k = 6 => Follows(Pass(k, g), g)
  <2> SUFFICES ASSUME k = 6 PROVE Follows(NormalizeSimplifiedLayernorm(g), g)  BY DEF Pass
  <2> QED  BY NormalizeSimplifiedLayernormFollows
<1>7. k = 7 => Follows(Pass(k, g), g)
  <2> SUFFICES ASSUME k = 7 PROVE Follows(FuseRmsNorm(g), g)  BY DEF Pass
  <2> QED  BY FuseRmsNormFollows
<1>8. k = 8 => Follows(Pass(k, g), g)
  <2> SUFFICES ASSUME k = 8 PROVE Follows(FuseGeGlu(g), g)  BY DEF Pass
  <2> QED  BY FuseGeGluFollows
<1>9. k = 9 => Follows(Pass(k, g), g)
  <2> SUFFICES ASSUME k = 9 PROVE Follows(FuseRopeTable(g), g)  BY DEF Pass
  <2> QED  BY FuseRopeTableFollows
<1>10. k = 10 => Follows(Pass(k, g), g)
  <2> SUFFICES ASSUME k = 10 PROVE Follows(FuseRope(g), g)  BY DEF Pass
  <2> QED  BY FuseRopeFollows
<1>11. k = 11 => Follows(Pass(k, g), g)
  <2> SUFFICES ASSUME k = 11 PROVE Follows(FuseKvStore(g), g)  BY DEF Pass
  <2> QED  BY FuseKvStoreFollows
<1>12. k = 12 => Follows(Pass(k, g), g)
  <2> SUFFICES ASSUME k = 12 PROVE Follows(FuseKvLoad(g), g)  BY DEF Pass
  <2> QED  BY FuseKvLoadFollows
<1>13. k = 13 => Follows(Pass(k, g), g)
  <2> SUFFICES ASSUME k = 13 PROVE Follows(NormalizeGroupQueryAttention(g), g)  BY DEF Pass
  <2> QED  BY NormalizeGroupQueryAttentionFollows
<1>14. k = 14 => Follows(Pass(k, g), g)
  <2> SUFFICES ASSUME k = 14 PROVE Follows(FuseSdpa(g), g)  BY DEF Pass
  <2> QED  BY FuseSdpaFollows
<1>15. k = 15 => Follows(Pass(k, g), g)
  <2> SUFFICES ASSUME k = 15 PROVE Follows(FuseResidualAdd(g), g)  BY DEF Pass
  <2> QED  BY FuseResidualAddFollows
<1>16. k = 16 => Follows(Pass(k, g), g)
  <2> SUFFICES ASSUME k = 16 PROVE Follows(ClassifyAttentionMaskPrep(g), g)  BY DEF Pass
  <2> QED  BY ClassifyAttentionMaskPrepFollows
<1>17. k = 17 => Follows(Pass(k, g), g)
  <2> SUFFICES ASSUME k = 17 PROVE Follows(ClassifyShapeHelpers(g), g)  BY DEF Pass
  <2> QED  BY ClassifyShapeHelpersFollows
<1>18. k = 18 => Follows(Pass(k, g), g)
  <2> SUFFICES ASSUME k = 18 PROVE Follows(ClassifyLayoutFallback(g), g)  BY DEF Pass
  <2> QED  BY ClassifyLayoutFallbackFollows
<1>19. k # 1 => Follows(Pass(k, g), g)
  BY <1>2, <1>3, <1>4, <1>5, <1>6, <1>7, <1>8, <1>9, <1>10, <1>11, <1>12, <1>13, <1>14, <1>15,
     <1>16, <1>17, <1>18 DEF PassCount
<1> QED  BY <1>1, <1>19 DEF Follows

-----------------------------------------------------------------------------
(* The import.                                                             *)

(* An id that is made is new, because one suffix more than there are ids is tried. *)
LEMMA FreshId ==
  ASSUME NEW seen \in SUBSET NodeId, IsFiniteSet(seen),
         NEW prefix \in {"Input", "Constant", "node"}, NEW name \in NodeName
  PROVE  UniqueId(seen, prefix, name) \in NodeId \ seen
<1> DEFINE C == Cardinality(seen)
           id(k) == <<prefix, name, k>>
           free == {k \in 0..C : id(k) \notin seen}
<1>1. C \in Nat  BY FS_CardinalityType
<1>2. free # {}
  <2> SUFFICES ASSUME free = {} PROVE FALSE  OBVIOUS
  <2> DEFINE f == [k \in 0..C |-> id(k)]
  <2>1. f \in [0..C -> seen]  OBVIOUS
  <2>2. IsFiniteSet(0..C) /\ Cardinality(0..C) = C + 1  BY <1>1, FS_Interval
  <2>3. C < Cardinality(0..C)  BY <1>1, <2>2
  <2>4. PICK x, y \in 0..C : x # y /\ f[x] = f[y]
    <3> DEFINE S == 0..C
    <3>1. f \in [S -> seen] /\ IsFiniteSet(S) /\ Cardinality(seen) < Cardinality(S)
      BY <2>1, <2>2, <2>3
    <3> HIDE DEF f, S
    <3>2. \E x, y \in S : x # y /\ f[x] = f[y]  BY <3>1, FS_PigeonHole
    <3> QED  BY <3>2 DEF S
  <2> QED  BY <2>4
<1>3. free \in SUBSET Nat  BY <1>1
<1>4. Smallest(free) \in free
  <2> HIDE DEF free
  <2> QED  BY <1>2, <1>3, SmallestIs
<1>5. UniqueId(seen, prefix, name) = id(Smallest(free))  BY DEF UniqueId
<1>6. Smallest(free) \in Nat /\ id(Smallest(free)) \notin seen  BY <1>3, <1>4
<1> HIDE DEF free
<1> QED  BY <1>5, <1>6 DEF NodeId

(* A node without its id. *)
Body == [op : Ops, inputs : Seq(Tensor), outputs : Seq(Tensor), kind : Kinds, origin : Origins]

(* What the nodes of a graph are made from. *)
Draft == [prefix : {"Input", "Constant", "node"}, name : NodeName, node : Body]

(* How ImportGraph makes nodes from drafts. *)
Importing(f, all) ==
  f = [k \in 0..Len(all) |->
         IF k = 0 THEN [seen |-> {}, nodes |-> <<>>]
         ELSE LET w == f[k - 1]
                  id == UniqueId(w.seen, all[k].prefix, all[k].name)
              IN  [seen |-> w.seen \cup {id}, nodes |-> Append(w.nodes, WithId(id, all[k].node))]]

(* What the import holds: ids that are taken, and nodes. *)
FiniteIds == {S \in SUBSET NodeId : IsFiniteSet(S)}
(* And the nodes that have been made so far. *)
ImportType == [seen : FiniteIds, nodes : Seq(Node)]

(* The nodes that have been made of the first k drafts, under ids of their own. *)
Made(w, all, k) ==
  /\ Len(w.nodes) = k
  /\ \A a \in 1..k : w.nodes[a] = WithId(w.nodes[a].id, all[a].node) /\ w.nodes[a].id \in w.seen
  /\ \A a, b \in 1..k : w.nodes[a].id = w.nodes[b].id => a = b

(* One node more. *)
LEMMA MakeOne ==
  ASSUME NEW w \in ImportType, NEW v \in Draft
  PROVE  LET id == UniqueId(w.seen, v.prefix, v.name)
         IN  /\ id \notin w.seen
             /\ WithId(id, v.node) \in Node /\ WithId(id, v.node).id = id
             /\ [seen |-> w.seen \cup {id}, nodes |-> Append(w.nodes, WithId(id, v.node))]
                  \in ImportType
<1> DEFINE id == UniqueId(w.seen, v.prefix, v.name)
           node == WithId(id, v.node)
<1>1. w.seen \in SUBSET NodeId /\ IsFiniteSet(w.seen) /\ w.nodes \in Seq(Node)
  BY DEF ImportType, FiniteIds
<1>2. v.prefix \in {"Input", "Constant", "node"} /\ v.name \in NodeName /\ v.node \in Body
  BY DEF Draft
<1>3. id \in NodeId \ w.seen  BY <1>1, <1>2, FreshId
<1> HIDE DEF id
<1>4. node \in Node /\ node.id = id  BY <1>2, <1>3 DEF WithId, Node, Body
<1> HIDE DEF node
<1>5. Append(w.nodes, node) \in Seq(Node)  BY <1>1, <1>4
<1>6. w.seen \cup {id} \in FiniteIds
  <2>1. IsFiniteSet(w.seen \cup {id})  BY <1>1, FS_AddElement
  <2> QED  BY <1>1, <1>3, <2>1 DEF FiniteIds
<1>7. [seen |-> w.seen \cup {id}, nodes |-> Append(w.nodes, node)] \in ImportType
  BY <1>5, <1>6 DEF ImportType
<1> QED  BY <1>3, <1>4, <1>7 DEF id, node

(* The next node has an id of its own too. *)
LEMMA MadeMore ==
  ASSUME NEW all \in Seq(Draft), NEW k \in 1..Len(all), NEW w \in ImportType,
         Made(w, all, k - 1), NEW id, id \notin w.seen,
         WithId(id, all[k].node) \in Node, WithId(id, all[k].node).id = id
  PROVE  Made([seen |-> w.seen \cup {id}, nodes |-> Append(w.nodes, WithId(id, all[k].node))],
              all, k)
<1> DEFINE node == WithId(id, all[k].node)
           r == Append(w.nodes, node)
           seen == w.seen \cup {id}
           q == [seen |-> seen, nodes |-> r]
<1>1. /\ w.nodes \in Seq(Node) /\ Len(w.nodes) = k - 1 /\ k \in Nat /\ Len(all) \in Nat
      /\ node.id = id
  BY DEF ImportType, Made
<1> DEFINE s == w.nodes
<1> HIDE DEF node
<1>2. node \in Node  BY DEF node
<1>3. Len(r) = k /\ r[k] = node /\ \A a \in 1..(k - 1) : r[a] = s[a]  BY <1>1, <1>2
<1>4. \A a \in 1..k : a = k \/ a \in 1..(k - 1)  BY <1>1
<1> HIDE DEF r
<1>5. ASSUME NEW a \in 1..k PROVE r[a] = WithId(r[a].id, all[a].node) /\ r[a].id \in seen
  <2>1. CASE a = k  BY <1>1, <1>3, <2>1 DEF node
  <2>2. CASE a \in 1..(k - 1)  BY <1>3, <2>2 DEF Made
  <2> QED  BY <1>4, <2>1, <2>2
<1>6. ASSUME NEW a \in 1..k, NEW b \in 1..k, r[a].id = r[b].id PROVE a = b
  <2>1. \A c \in 1..(k - 1) : r[c].id \in w.seen /\ r[c].id = s[c].id  BY <1>3 DEF Made
  <2>2. r[k].id = id  BY <1>1, <1>3
  <2>3. CASE a \in 1..(k - 1) /\ b \in 1..(k - 1)  BY <1>6, <2>1, <2>3 DEF Made
  <2> QED  BY <1>4, <1>6, <2>1, <2>2, <2>3
<1>7. q.nodes = r /\ q.seen = seen  OBVIOUS
<1> HIDE DEF q, seen
<1>8. Made(q, all, k)  BY <1>3, <1>5, <1>6, <1>7 DEF Made
<1> QED  BY <1>8 DEF q, seen, r, node

(* What ImportGraph makes nodes from, as it has them. *)
Drafts(m) ==
  LET values == PureInputs(m)
  IN  [n \in DOMAIN values |-> ValueNode(values[n], "Input")]
      \o [n \in DOMAIN m.initializers |-> ValueNode(m.initializers[n], "Constant")]
      \o [n \in DOMAIN m.nodes |-> NamedNode(m, n)]

(* It makes one of each, under an id of its own. *)
LEMMA ImportMakes ==
  ASSUME NEW m, Drafts(m) \in Seq(Draft)
  PROVE  \E w \in ImportType : /\ ImportGraph(m) = w.nodes
                               /\ Made(w, Drafts(m), Len(Drafts(m)))
<1> DEFINE all == Drafts(m)
           N == Len(all)
           X == ImportType
           base == [seen |-> {}, nodes |-> <<>>]
           One(k, w) == LET id == UniqueId(w.seen, all[k].prefix, all[k].name)
                        IN  [seen |-> w.seen \cup {id},
                             nodes |-> Append(w.nodes, WithId(id, all[k].node))]
           step == [k \in 1..N |-> [w \in X |-> One(k, w)]]
           f == CHOOSE h : Importing(h, all)
<1>1. ImportGraph(m) = f[N].nodes  BY DEF ImportGraph, Importing, Drafts
<1>2. all \in Seq(Draft) /\ N \in Nat /\ \A k \in 1..N : all[k] \in Draft
  <2> HIDE DEF Drafts
  <2> QED  OBVIOUS
<1>3. base \in X
  <2>1. {} \in FiniteIds  BY FS_EmptySet DEF FiniteIds
  <2> QED  BY <2>1 DEF ImportType
<1>4. \A k \in 1..N : \A w \in X : One(k, w) \in X
  <2> HIDE DEF all, N
  <2> QED  BY <1>2, MakeOne
<1>5. step \in [1..N -> [X -> X]]
  <2> HIDE DEF X, One, N
  <2> QED  BY <1>4
<1>6. PICK h \in [0..N -> X] : Recursion(h, N, base, step)
  <2> HIDE DEF step, base, N, X
  <2> QED  BY <1>2, <1>3, <1>5, RecursionExists
<1>7. Importing(h, all)
  <2>1. ASSUME NEW k \in 0..N, k # 0 PROVE step[k][h[k - 1]] = One(k, h[k - 1])
    <3>1. k \in 1..N /\ k - 1 \in 0..N  BY <1>2, <2>1
    <3> HIDE DEF One, X, N
    <3>2. h[k - 1] \in X  BY <3>1
    <3> QED  BY <3>1, <3>2
  <2> HIDE DEF step, X, One, base, N
  <2>2. h = [k \in 0..N |-> IF k = 0 THEN base ELSE step[k][h[k - 1]]]  BY <1>6 DEF Recursion
  <2>3. h = [k \in 0..N |-> IF k = 0 THEN base ELSE One(k, h[k - 1])]  BY <2>1, <2>2
  <2> HIDE DEF all
  <2> QED  BY <2>3 DEF Importing, N, base, One
<1>8. Importing(f, all)
  <2> HIDE DEF all
  <2> QED  BY <1>7
<1> HIDE DEF f, X, step, all
<1>9. f = [k \in 0..N |-> IF k = 0 THEN base ELSE One(k, f[k - 1])]  BY <1>8 DEF Importing
<1> HIDE DEF N, base, One
<1>10. f[0] = base /\ \A k \in 1..N : f[k] = One(k, f[k - 1])
  <2>1. 0 \in 0..N /\ \A k \in 1..N : k \in 0..N /\ k # 0  BY <1>2
  <2> QED  BY <1>9, <2>1
<1> DEFINE Good == {k \in 0..N : f[k] \in X /\ Made(f[k], all, k)}
<1>11. 0 \in Good
  <2>1. base.nodes = <<>>  BY DEF base
  <2>2. Made(base, all, 0)  BY <2>1 DEF Made
  <2> QED  BY <1>2, <1>3, <1>10, <2>2
<1>12. ASSUME NEW i \in 0..(N - 1), i \in Good PROVE i + 1 \in Good
  <2> DEFINE k == i + 1
             w == f[i]
             id == UniqueId(w.seen, all[k].prefix, all[k].name)
  <2>1. k \in 1..N /\ k \in 0..N /\ k - 1 = i  BY <1>2
  <2>2. w \in ImportType /\ Made(w, all, k - 1)  BY <1>12, <2>1 DEF X
  <2>3. all[k] \in Draft  BY <1>2, <2>1
  <2> HIDE DEF k, w, Good
  <2>4. /\ id \notin w.seen /\ WithId(id, all[k].node) \in Node /\ WithId(id, all[k].node).id = id
        /\ One(k, w) \in ImportType
    BY <2>2, <2>3, MakeOne DEF One
  <2>5. Made(One(k, w), all, k)
    <3>1. k \in 1..Len(all)  BY <2>1 DEF N
    <3>2. One(k, w) = [seen |-> w.seen \cup {id},
                       nodes |-> Append(w.nodes, WithId(id, all[k].node))]
      BY DEF One
    <3> HIDE DEF id
    <3> QED  BY <1>2, <2>2, <2>4, <3>1, <3>2, MadeMore
  <2>6. f[k] = One(k, w)  BY <1>10, <2>1 DEF w
  <2> QED  BY <2>1, <2>4, <2>5, <2>6 DEF Good, X, k
<1>13. \A k \in 0..N : k \in Good
  <2> HIDE DEF Good
  <2> QED  BY <1>2, <1>11, <1>12, UpTo
<1>14. f[N] \in ImportType /\ Made(f[N], all, N)  BY <1>2, <1>13 DEF X
<1> QED  BY <1>1, <1>14 DEF all, N

(* Drafts whose tensors are each put out once, and before they are read. *)
DraftsOrdered(all) ==
  /\ \A i, j \in DOMAIN all : \A t \in ToSet(all[i].node.outputs) :
       t # NoTensor /\ (t \in ToSet(all[j].node.outputs) => i = j)
  /\ \A i, j \in DOMAIN all : \A t \in ToSet(all[i].node.inputs) :
       t \in ToSet(all[j].node.outputs) => j < i
  /\ \A i \in DOMAIN all : LET v == all[i].node IN
       /\ v.op \in DOMAIN Arity => Len(v.inputs) = Arity[v.op]
       /\ Len(v.outputs) > 1 => v.op \in Several

(* The graph that is made of them is in order. *)
LEMMA MadeInOrder ==
  ASSUME NEW all \in Seq(Draft), DraftsOrdered(all), NEW w \in ImportType, Made(w, all, Len(all))
  PROVE  Orderly(w.nodes)
<1> DEFINE r == w.nodes
<1>1. r \in Seq(Node) /\ Len(all) \in Nat /\ Len(r) = Len(all)
  BY DEF Made, ImportType
<1>2. DOMAIN r = 1..Len(all) /\ DOMAIN all = 1..Len(all)  BY <1>1
<1>3. ASSUME NEW n \in DOMAIN r
      PROVE  /\ r[n] \in Node /\ all[n] \in Draft /\ all[n].node \in Body
             /\ r[n].op = all[n].node.op /\ r[n].inputs = all[n].node.inputs
             /\ r[n].outputs = all[n].node.outputs
  <2>1. r[n] = WithId(r[n].id, all[n].node)  BY <1>2 DEF Made
  <2>2. all[n] \in Draft /\ r[n] \in Node  BY <1>1, <1>2
  <2>3. all[n].node \in Body  BY <2>2 DEF Draft
  <2> HIDE DEF r
  <2> QED  BY <2>1, <2>2, <2>3 DEF WithId
<1>4. \A a, b \in DOMAIN r : r[a].id = r[b].id => a = b  BY <1>2 DEF Made
<1> HIDE DEF r
<1>5. ASSUME NEW t, NEW n \in Producers(r, t)
      PROVE  n \in DOMAIN r /\ t \in ToSet(all[n].node.outputs)
  <2>1. n \in DOMAIN r /\ Contains(r[n].outputs, t)  BY <1>5 DEF Producers
  <2> QED  BY <1>3, <2>1 DEF Contains, ToSet
<1>6. \A t \in Tensor : \A a, b \in Producers(r, t) : a = b
  BY <1>2, <1>5 DEF DraftsOrdered
<1>7. Producers(r, NoTensor) = {}  BY <1>2, <1>5 DEF DraftsOrdered
<1>8. ASSUME NEW n \in DOMAIN r
      PROVE  /\ \A t \in ToSet(r[n].inputs) : \A j \in Producers(r, t) : j < n
             /\ r[n].op = "Mul" => Len(r[n].inputs) = 2
             /\ r[n].op = "Sin" => Len(r[n].inputs) = 1
             /\ Len(r[n].outputs) > 1 => r[n].op \in Plural
  <2>1. ASSUME NEW t \in ToSet(r[n].inputs) PROVE \A j \in Producers(r, t) : j < n
    <3>1. t \in ToSet(all[n].node.inputs)  BY <1>3, <2>1
    <3> QED  BY <1>2, <1>5, <3>1 DEF DraftsOrdered
  <2>2. LET v == all[n].node IN
        /\ v.op \in DOMAIN Arity => Len(v.inputs) = Arity[v.op]
        /\ Len(v.outputs) > 1 => v.op \in Several
    BY <1>2 DEF DraftsOrdered
  <2>3. "Mul" \in DOMAIN Arity /\ Arity["Mul"] = 2 /\ "Sin" \in DOMAIN Arity /\ Arity["Sin"] = 1
    BY DEF Arity
  <2>4. /\ r[n].op = all[n].node.op /\ r[n].inputs = all[n].node.inputs
        /\ r[n].outputs = all[n].node.outputs
    BY <1>3
  <2> HIDE DEF Arity
  <2> QED  BY <2>1, <2>2, <2>3, <2>4 DEF Plural
<1>9. Orderly(r)  BY <1>1, <1>4, <1>6, <1>7, <1>8 DEF Orderly
<1> QED  BY <1>9 DEF r

(* An element of three sequences in a row is one of the first, the second or the third. *)
InOneOf(s, a, b, c, i) ==
  \/ i \in DOMAIN a /\ s[i] = a[i]
  \/ \E n \in DOMAIN b : i = Len(a) + n /\ s[i] = b[n]
  \/ \E n \in DOMAIN c : i = Len(a) + Len(b) + n /\ s[i] = c[n]

(* And each of theirs is in the row. *)
Holds(s, a, b, c) ==
  /\ \A n \in DOMAIN a : n \in DOMAIN s /\ s[n] = a[n]
  /\ \A n \in DOMAIN b : Len(a) + n \in DOMAIN s /\ s[Len(a) + n] = b[n]
  /\ \A n \in DOMAIN c : LET k == Len(a) + Len(b) + n IN k \in DOMAIN s /\ s[k] = c[n]

(* Both hold of a concatenation. *)
LEMMA InARow ==
  ASSUME NEW X, NEW a \in Seq(X), NEW b \in Seq(X), NEW c \in Seq(X),
         NEW s, s = a \o b \o c
  PROVE  /\ s \in Seq(X)
         /\ \A i \in DOMAIN s : InOneOf(s, a, b, c, i)
         /\ Holds(s, a, b, c)
<1>1. /\ Len(a) \in Nat /\ Len(b) \in Nat /\ Len(c) \in Nat
      /\ DOMAIN a = 1..Len(a) /\ DOMAIN b = 1..Len(b) /\ DOMAIN c = 1..Len(c)
  OBVIOUS
<1>2. a \o b \in Seq(X) /\ Len(a \o b) = Len(a) + Len(b)  OBVIOUS
<1>3. s \in Seq(X) /\ Len(s) = Len(a) + Len(b) + Len(c)  BY <1>2
<1>4. ASSUME NEW i \in DOMAIN s
      PROVE  \/ i \in DOMAIN a /\ s[i] = a[i]
             \/ \E n \in DOMAIN b : i = Len(a) + n /\ s[i] = b[n]
             \/ \E n \in DOMAIN c : i = Len(a) + Len(b) + n /\ s[i] = c[n]
  <2>1. i \in 1..(Len(a) + Len(b) + Len(c)) /\ i \in Nat  BY <1>1, <1>3
  <2>2. CASE i <= Len(a)
    <3>1. i \in DOMAIN a  BY <1>1, <2>1, <2>2
    <3>2. s[i] = a[i]  BY <1>1, <1>2, <2>1, <2>2
    <3> QED  BY <3>1, <3>2
  <2>3. CASE i > Len(a) /\ i <= Len(a) + Len(b)
    <3> DEFINE n == i - Len(a)
    <3>1. n \in DOMAIN b /\ i = Len(a) + n  BY <1>1, <2>1, <2>3
    <3>2. s[i] = b[n]  BY <1>1, <1>2, <2>1, <2>3
    <3> HIDE DEF n
    <3> QED  BY <3>1, <3>2
  <2>4. CASE i > Len(a) + Len(b)
    <3> DEFINE n == i - (Len(a) + Len(b))
    <3>1. n \in DOMAIN c /\ i = Len(a) + Len(b) + n  BY <1>1, <2>1, <2>4
    <3>2. s[i] = c[n]  BY <1>1, <1>2, <1>3, <2>1, <2>4
    <3> HIDE DEF n
    <3> QED  BY <3>1, <3>2
  <2> QED  BY <1>1, <2>1, <2>2, <2>3, <2>4
<1>5. Holds(s, a, b, c)
  <2>1. \A n \in DOMAIN a : n \in DOMAIN s /\ s[n] = a[n]  BY <1>1, <1>2, <1>3
  <2>2. \A n \in DOMAIN b : Len(a) + n \in DOMAIN s /\ s[Len(a) + n] = b[n]
    <3> TAKE n \in DOMAIN b
    <3>1. n \in Nat /\ n >= 1 /\ n <= Len(b)  BY <1>1
    <3>2. Len(a) + n \in 1..(Len(a) + Len(b))  BY <1>1, <3>1
    <3>3. Len(a) + n \in DOMAIN s  BY <1>1, <1>3, <3>2
    <3>4. (a \o b)[Len(a) + n] = b[n]  BY <1>1, <3>1
    <3>5. s[Len(a) + n] = (a \o b)[Len(a) + n]  BY <1>1, <1>2, <3>2
    <3> QED  BY <3>3, <3>4, <3>5
  <2>3. ASSUME NEW n \in DOMAIN c
        PROVE  LET k == Len(a) + Len(b) + n IN k \in DOMAIN s /\ s[k] = c[n]
    <3>1. n \in Nat /\ n >= 1 /\ n <= Len(c)  BY <1>1
    <3> QED  BY <1>1, <1>2, <1>3, <3>1
  <2> QED  BY <2>1, <2>2, <2>3 DEF Holds
<1> QED  BY <1>3, <1>4, <1>5 DEF InOneOf

(* Where a draft comes from. *)
DraftOf(m, values, i, v) ==
  \/ i \in DOMAIN values /\ v = ValueNode(values[i], "Input")
  \/ \E n \in DOMAIN m.initializers :
       i = Len(values) + n /\ v = ValueNode(m.initializers[n], "Constant")
  \/ \E n \in DOMAIN m.nodes :
       i = Len(values) + Len(m.initializers) + n /\ v = NamedNode(m, n)

(* And that all are drafted. *)
AllDrafted(m, values, all) ==
  /\ \A n \in DOMAIN values : n \in DOMAIN all /\ all[n] = ValueNode(values[n], "Input")
  /\ \A n \in DOMAIN m.initializers : \E i \in DOMAIN all :
       all[i] = ValueNode(m.initializers[n], "Constant")
  /\ \A n \in DOMAIN m.nodes : \E i \in DOMAIN all : all[i] = NamedNode(m, n)

(* Which they are, for each model. *)
LEMMA DraftsAre ==
  ASSUME NEW m, IsModel(m), PureInputs(m) \in Seq(ModelValue)
  PROVE  /\ Drafts(m) \in Seq(Draft)
         /\ \A i \in DOMAIN Drafts(m) : DraftOf(m, PureInputs(m), i, Drafts(m)[i])
         /\ AllDrafted(m, PureInputs(m), Drafts(m))
<1> DEFINE values == PureInputs(m)
           a == [n \in DOMAIN values |-> ValueNode(values[n], "Input")]
           b == [n \in DOMAIN m.initializers |-> ValueNode(m.initializers[n], "Constant")]
           c == [n \in DOMAIN m.nodes |-> NamedNode(m, n)]
<1>1. m.initializers \in Seq(ModelValue) /\ m.nodes \in Seq(ModelNode)  BY DEF IsModel
<1>2. \A v \in ModelValue : ValueNode(v, "Input") \in Draft /\ ValueNode(v, "Constant") \in Draft
  <2> TAKE v \in ModelValue
  <2>1. v.tensor \in Tensor /\ v.name \in NodeName /\ v.kind \in Kinds  BY DEF ModelValue
  <2>2. <<v.tensor>> \in Seq(Tensor) /\ <<>> \in Seq(Tensor)  BY <2>1
  <2> DEFINE outputs == <<v.tensor>>
             inputs == <<>>
  <2>3. /\ ValueNode(v, "Input") =
             [prefix |-> "Input", name |-> v.name,
              node |-> [op |-> "Input", inputs |-> inputs, outputs |-> outputs,
                        kind |-> v.kind, origin |-> "NoOrigin"]]
        /\ ValueNode(v, "Constant") =
             [prefix |-> "Constant", name |-> v.name,
              node |-> [op |-> "Constant", inputs |-> inputs, outputs |-> outputs,
                        kind |-> v.kind, origin |-> "NoOrigin"]]
    BY DEF ValueNode
  <2>4. inputs \in Seq(Tensor) /\ outputs \in Seq(Tensor)  BY <2>2
  <2> HIDE DEF inputs, outputs
  <2>5. "Input" \in Ops /\ "Constant" \in Ops /\ "NoOrigin" \in Origins  BY DEF Ops, Origins
  <2> QED  BY <2>1, <2>3, <2>4, <2>5 DEF Draft, Body
<1>3. ASSUME NEW n \in DOMAIN m.nodes PROVE NamedNode(m, n) \in Draft
  <2> DEFINE v == m.nodes[n]
             name == IF v.name = NoName THEN <<v.op, n - 1>> ELSE v.name
  <2>1. v \in ModelNode /\ n \in Int  BY <1>1
  <2>2. /\ v.op \in Ops /\ v.inputs \in Seq(Tensor) /\ v.outputs \in Seq(Tensor \ {NoTensor})
        /\ v.kind \in Kinds /\ v.origin \in Origins /\ v.name \in NodeName \cup {NoName}
    BY <2>1 DEF ModelNode
  <2>3. v.outputs \in Seq(Tensor)  BY <2>2
  <2>4. name \in NodeName  BY <2>1, <2>2 DEF NodeName
  <2>5. NamedNode(m, n) = [prefix |-> "node", name |-> name,
                           node |-> [op |-> v.op, inputs |-> v.inputs, outputs |-> v.outputs,
                                     kind |-> v.kind, origin |-> v.origin]]
    BY DEF NamedNode
  <2> HIDE DEF name, v
  <2> QED  BY <2>2, <2>3, <2>4, <2>5 DEF Draft, Body
<1>4. a \in Seq(Draft) /\ Len(a) = Len(values) /\ DOMAIN a = DOMAIN values
  <2>1. values \in Seq(ModelValue)  OBVIOUS
  <2> HIDE DEF values
  <2>2. Len(values) \in Nat /\ DOMAIN values = 1..Len(values)  BY <2>1
  <2>3. \A n \in DOMAIN values : values[n] \in ModelValue  BY <2>1
  <2>4. \A n \in DOMAIN values : ValueNode(values[n], "Input") \in Draft  BY <1>2, <2>3
  <2> QED  BY <2>2, <2>4
<1>5. b \in Seq(Draft) /\ Len(b) = Len(m.initializers) /\ DOMAIN b = DOMAIN m.initializers
  BY <1>1, <1>2
<1>6. c \in Seq(Draft) /\ DOMAIN c = DOMAIN m.nodes
  <2>1. m.nodes \in Seq(ModelNode) /\ DOMAIN c = 1..Len(m.nodes) /\ Len(m.nodes) \in Nat
    BY <1>1
  <2>2. \A n \in DOMAIN c : c[n] \in Draft
    <3>1. \A n \in DOMAIN m.nodes : NamedNode(m, n) \in Draft  BY <1>3
    <3> QED  BY <3>1
  <2> HIDE DEF c
  <2>3. DOMAIN c = DOMAIN m.nodes  BY <2>1
  <2>4. c \in [1..Len(m.nodes) -> Draft]
    <3>1. c = [n \in 1..Len(m.nodes) |-> c[n]]  BY <2>1 DEF c
    <3> QED  BY <2>1, <2>2, <3>1
  <2> QED  BY <2>1, <2>3, <2>4
<1>7. Drafts(m) = a \o b \o c  BY DEF Drafts
<1>8. /\ \A n \in DOMAIN a : a[n] = ValueNode(values[n], "Input")
      /\ \A n \in DOMAIN b : b[n] = ValueNode(m.initializers[n], "Constant")
      /\ \A n \in DOMAIN c : c[n] = NamedNode(m, n)
  OBVIOUS
<1> HIDE DEF a, b, c, values
<1>9. /\ Drafts(m) \in Seq(Draft)
      /\ \A i \in DOMAIN Drafts(m) : InOneOf(Drafts(m), a, b, c, i)
      /\ Holds(Drafts(m), a, b, c)
  BY <1>4, <1>5, <1>6, <1>7, InARow
<1>10. ASSUME NEW i \in DOMAIN Drafts(m) PROVE DraftOf(m, values, i, Drafts(m)[i])
  <2>1. InOneOf(Drafts(m), a, b, c, i)  BY <1>9
  <2> QED  BY <1>4, <1>5, <1>6, <1>8, <2>1 DEF DraftOf, InOneOf
<1>11. AllDrafted(m, values, Drafts(m))
  BY <1>4, <1>5, <1>6, <1>8, <1>9 DEF AllDrafted, Holds
<1> QED  BY <1>9, <1>10, <1>11 DEF values

(* The inputs without a default value are different tensors, and none is initialized. *)
LEMMA PureInputsAre ==
  ASSUME NEW m, IsModel(m)
  PROVE  LET values == PureInputs(m) IN
         /\ values \in Seq(ModelValue)
         /\ \A i, j \in DOMAIN values : values[i].tensor = values[j].tensor => i = j
         /\ \A i \in DOMAIN values : values[i] \in ToSet(m.inputs)
         /\ \A i \in DOMAIN values : \A n \in DOMAIN m.initializers :
              values[i].tensor # m.initializers[n].tensor
<1> DEFINE given == m.inputs
           initialized == {v.tensor : v \in ToSet(m.initializers)}
           S == {v \in ToSet(m.inputs) : v.tensor \notin initialized}
           values == PureInputs(m)
<1>1. given \in Seq(ModelValue) /\ DOMAIN given = 1..Len(given) /\ Len(given) \in Nat
      /\ \A i, j \in DOMAIN given : given[i].tensor = given[j].tensor => i = j
  <2>1. given \in Seq(ModelValue) /\ IsInjective([n \in DOMAIN given |-> given[n].tensor])
    BY DEF IsModel
  <2> HIDE DEF given
  <2>2. \A i, j \in DOMAIN given : given[i].tensor = given[j].tensor => i = j
    BY <2>1 DEF IsInjective
  <2> QED  BY <2>1, <2>2
<1>2. values = Among(given, S)  BY DEF PureInputs
<1>3. \A n \in DOMAIN m.initializers : m.initializers[n].tensor \in initialized
  BY DEF ToSet
<1>4. \A v \in S : v \in ToSet(m.inputs) /\ v.tensor \notin initialized  OBVIOUS
<1> HIDE DEF values, S, given, initialized
<1>5. values \in Seq(ModelValue) /\ \E e : Selects(e, values, given, Len(given), S)
  BY <1>1, <1>2, AmongIs
<1>6. PICK e : Selects(e, values, given, Len(given), S)  BY <1>5
<1>7. /\ e \in [DOMAIN values -> DOMAIN given]
      /\ \A a, b \in DOMAIN values : a < b => e[a] < e[b]
      /\ \A a \in DOMAIN values : values[a] = given[e[a]] /\ values[a] \in S
  BY <1>1, <1>6 DEF Selects
<1>8. ASSUME NEW i \in DOMAIN values, NEW j \in DOMAIN values, values[i].tensor = values[j].tensor
      PROVE  i = j
  <2>1. e[i] = e[j] /\ e[i] \in Nat  BY <1>1, <1>7, <1>8
  <2>2. ~ (i < j) /\ ~ (j < i)
    <3>1. i < j => e[i] < e[j]  BY <1>7
    <3>2. j < i => e[j] < e[i]  BY <1>7
    <3> QED  BY <2>1, <3>1, <3>2
  <2>3. i \in Nat /\ j \in Nat  BY <1>5
  <2> QED  BY <2>2, <2>3
<1> QED  BY <1>3, <1>4, <1>5, <1>7, <1>8 DEF values

(* What IsModel says of one node and two. *)
LEMMA ModelNodes ==
  ASSUME NEW m, IsModel(m), NEW n \in DOMAIN m.nodes, NEW t \in ToSet(m.nodes[n].outputs)
  PROVE  /\ t \in Tensor /\ t # NoTensor
         /\ \A v \in ToSet(m.inputs) \cup ToSet(m.initializers) : v.tensor # t
         /\ \A k \in DOMAIN m.nodes : t \in ToSet(m.nodes[k].outputs) => k = n
         /\ \A k \in DOMAIN m.nodes : t \in ToSet(m.nodes[k].inputs) => n < k
<1> DEFINE values == {v.tensor : v \in ToSet(m.inputs) \cup ToSet(m.initializers)}
           Assigned(k) == ToSet(m.nodes[k].outputs)
<1>1. /\ m.nodes \in Seq(ModelNode)
      /\ \A k \in DOMAIN m.nodes :
           /\ Assigned(k) \cap values = {}
           /\ \A j \in DOMAIN m.nodes \ {k} : Assigned(k) \cap Assigned(j) = {}
           /\ ToSet(m.nodes[k].inputs) \ {NoTensor}
                \subseteq values \cup UNION {Assigned(j) : j \in 1..(k - 1)}
  BY DEF IsModel
<1>2. t \in Tensor /\ t # NoTensor
  <2>1. m.nodes[n] \in ModelNode  BY <1>1
  <2>2. m.nodes[n].outputs \in Seq(Tensor \ {NoTensor})  BY <2>1 DEF ModelNode
  <2> QED  BY <2>2 DEF ToSet
<1>3. t \notin values  BY <1>1
<1>4. \A v \in ToSet(m.inputs) \cup ToSet(m.initializers) : v.tensor # t
  BY <1>3
<1>5. \A k \in DOMAIN m.nodes : t \in Assigned(k) => k = n
  <2> SUFFICES ASSUME NEW k \in DOMAIN m.nodes, t \in Assigned(k), k # n PROVE FALSE  OBVIOUS
  <2>1. k \in DOMAIN m.nodes \ {n} /\ t \in Assigned(n)  OBVIOUS
  <2>2. Assigned(n) \cap Assigned(k) = {}
    <3> HIDE DEF Assigned, values
    <3> QED  BY <1>1, <2>1
  <2> QED  BY <2>1, <2>2
<1>6. ASSUME NEW k \in DOMAIN m.nodes, t \in ToSet(m.nodes[k].inputs) PROVE n < k
  <2>1. t \in values \cup UNION {Assigned(j) : j \in 1..(k - 1)}
    <3> HIDE DEF Assigned, values
    <3> QED  BY <1>1, <1>2, <1>6
  <2>2. PICK j \in 1..(k - 1) : t \in Assigned(j)
    <3> HIDE DEF Assigned, values
    <3> QED  BY <1>3, <2>1
  <2>3. DOMAIN m.nodes = 1..Len(m.nodes) /\ Len(m.nodes) \in Nat  BY <1>1
  <2>4. j \in DOMAIN m.nodes /\ j < k  BY <2>3
  <2>5. j = n
    <3> HIDE DEF Assigned, values
    <3> QED  BY <1>5, <2>2, <2>4
  <2> QED  BY <2>4, <2>5
<1> QED  BY <1>2, <1>4, <1>5, <1>6

(* The tensors of a draft. *)
LEMMA DraftTensors ==
  ASSUME NEW m, IsModel(m), NEW n
  PROVE  /\ \A v \in ModelValue : \A op :
              LET d == ValueNode(v, op).node IN
              /\ d.op = op /\ ToSet(d.inputs) = {} /\ ToSet(d.outputs) = {v.tensor}
              /\ Len(d.outputs) = 1
         /\ LET d == NamedNode(m, n).node
                v == m.nodes[n]
            IN  d.op = v.op /\ d.inputs = v.inputs /\ d.outputs = v.outputs
<1>1. ASSUME NEW v \in ModelValue, NEW op
      PROVE  LET d == ValueNode(v, op).node IN
             /\ d.op = op /\ ToSet(d.inputs) = {} /\ ToSet(d.outputs) = {v.tensor}
             /\ Len(d.outputs) = 1
  <2> DEFINE inputs == <<>>
             outputs == <<v.tensor>>
  <2>1. ToSet(inputs) = {} /\ ToSet(outputs) = {v.tensor} /\ Len(outputs) = 1  BY DEF ToSet
  <2>2. ValueNode(v, op).node = [op |-> op, inputs |-> inputs, outputs |-> outputs,
                                 kind |-> v.kind, origin |-> "NoOrigin"]
    BY DEF ValueNode
  <2> HIDE DEF inputs, outputs
  <2> QED  BY <2>1, <2>2
<1>2. LET d == NamedNode(m, n).node
          v == m.nodes[n]
      IN  d.op = v.op /\ d.inputs = v.inputs /\ d.outputs = v.outputs
  BY DEF NamedNode
<1> QED  BY <1>1, <1>2

(* Every model's drafts put out each tensor once, and before it is read. *)
LEMMA DraftsInOrder ==
  ASSUME NEW m, IsModel(m)
  PROVE  Drafts(m) \in Seq(Draft) /\ DraftsOrdered(Drafts(m))
<1> DEFINE values == PureInputs(m)
           given == m.initializers
           nodes == m.nodes
           all == Drafts(m)
           P == Len(values)
           Q == Len(given)
           FromInput(i) == i \in DOMAIN values /\ all[i] = ValueNode(values[i], "Input")
           FromConstant(i, n) ==
             n \in DOMAIN given /\ i = P + n /\ all[i] = ValueNode(given[n], "Constant")
           FromNode(i, n) == n \in DOMAIN nodes /\ i = P + Q + n /\ all[i] = NamedNode(m, n)
           In(i) == ToSet(all[i].node.inputs)
           Out(i) == ToSet(all[i].node.outputs)
<1>1. /\ values \in Seq(ModelValue)
      /\ \A i, j \in DOMAIN values : values[i].tensor = values[j].tensor => i = j
      /\ \A i \in DOMAIN values : values[i] \in ToSet(m.inputs)
      /\ \A i \in DOMAIN values : \A n \in DOMAIN given : values[i].tensor # given[n].tensor
  BY PureInputsAre
<1>2. all \in Seq(Draft) /\ \A i \in DOMAIN all : DraftOf(m, values, i, all[i])
  BY <1>1, DraftsAre
<1>3. /\ given \in Seq(ModelValue) /\ nodes \in Seq(ModelNode)
      /\ \A i, j \in DOMAIN given : given[i].tensor = given[j].tensor => i = j
      /\ \A n \in DOMAIN given : given[n] \in ToSet(m.initializers)
  <2>1. /\ given \in Seq(ModelValue) /\ nodes \in Seq(ModelNode)
        /\ IsInjective([n \in DOMAIN given |-> given[n].tensor])
    BY DEF IsModel
  <2>2. \A n \in DOMAIN given : given[n] \in ToSet(m.initializers)  BY DEF ToSet
  <2> HIDE DEF given
  <2>3. \A i, j \in DOMAIN given : given[i].tensor = given[j].tensor => i = j
    BY <2>1 DEF IsInjective
  <2> QED  BY <2>1, <2>2, <2>3
<1>4. \A i \in DOMAIN all : FromInput(i) \/ (\E n : FromConstant(i, n)) \/ (\E n : FromNode(i, n))
  <2> HIDE DEF all, values
  <2> QED  BY <1>2 DEF DraftOf
<1>5. ASSUME NEW i \in DOMAIN all, FromInput(i)
      PROVE  /\ values[i] \in ModelValue /\ In(i) = {} /\ Out(i) = {values[i].tensor}
             /\ all[i].node.op = "Input" /\ Len(all[i].node.outputs) = 1
  <2>1. values[i] \in ModelValue  BY <1>1, <1>5
  <2> DEFINE v == values[i]
  <2>2. all[i] = ValueNode(v, "Input")  BY <1>5
  <2> HIDE DEF v, all
  <2>3. LET d == ValueNode(v, "Input").node
        IN  /\ d.op = "Input" /\ ToSet(d.inputs) = {} /\ ToSet(d.outputs) = {v.tensor}
            /\ Len(d.outputs) = 1
    BY <2>1, DraftTensors DEF v
  <2> QED  BY <2>1, <2>2, <2>3 DEF v
<1>6. ASSUME NEW i \in DOMAIN all, NEW n, FromConstant(i, n)
      PROVE  /\ given[n] \in ModelValue /\ In(i) = {} /\ Out(i) = {given[n].tensor}
             /\ all[i].node.op = "Constant" /\ Len(all[i].node.outputs) = 1
  <2>1. given[n] \in ModelValue  BY <1>3, <1>6
  <2> DEFINE v == given[n]
  <2>2. all[i] = ValueNode(v, "Constant")  BY <1>6
  <2> HIDE DEF v, all
  <2>3. LET d == ValueNode(v, "Constant").node
        IN  /\ d.op = "Constant" /\ ToSet(d.inputs) = {} /\ ToSet(d.outputs) = {v.tensor}
            /\ Len(d.outputs) = 1
    BY <2>1, DraftTensors DEF v
  <2> QED  BY <2>1, <2>2, <2>3 DEF v
<1>7. ASSUME NEW i \in DOMAIN all, NEW n, FromNode(i, n)
      PROVE  /\ In(i) = ToSet(nodes[n].inputs) /\ Out(i) = ToSet(nodes[n].outputs)
             /\ all[i].node.op = nodes[n].op /\ all[i].node.inputs = nodes[n].inputs
             /\ all[i].node.outputs = nodes[n].outputs
  BY <1>7, DraftTensors
<1>8. /\ P \in Nat /\ Q \in Nat /\ DOMAIN values = 1..P /\ DOMAIN given = 1..Q
      /\ \A n \in DOMAIN nodes : n \in Nat /\ n >= 1
  <2>1. Len(nodes) \in Nat /\ DOMAIN nodes = 1..Len(nodes)  BY <1>3
  <2> HIDE DEF values, given, nodes
  <2> QED  BY <1>1, <1>3, <2>1
<1>9. ASSUME NEW n \in DOMAIN nodes, NEW t \in ToSet(nodes[n].outputs)
      PROVE  /\ t # NoTensor
             /\ \A i \in DOMAIN values : values[i].tensor # t
             /\ \A i \in DOMAIN given : given[i].tensor # t
             /\ \A k \in DOMAIN nodes : t \in ToSet(nodes[k].outputs) => k = n
             /\ \A k \in DOMAIN nodes : t \in ToSet(nodes[k].inputs) => n < k
  <2>1. /\ t # NoTensor
        /\ \A v \in ToSet(m.inputs) \cup ToSet(m.initializers) : v.tensor # t
        /\ \A k \in DOMAIN nodes : t \in ToSet(nodes[k].outputs) => k = n
        /\ \A k \in DOMAIN nodes : t \in ToSet(nodes[k].inputs) => n < k
    BY <1>9, ModelNodes
  <2> HIDE DEF values, given, nodes
  <2> QED  BY <1>1, <1>3, <2>1
<1> HIDE DEF values, given, nodes, all, In, Out, P, Q
<1>10. ASSUME NEW i \in DOMAIN all, NEW j \in DOMAIN all, NEW t \in Out(i)
       PROVE  t # NoTensor /\ (t \in Out(j) => i = j)
  <2>1. CASE FromInput(i)
    <3>1. t = values[i].tensor /\ t # NoTensor  BY <1>5, <2>1 DEF ModelValue
    <3>2. FromInput(j) /\ t \in Out(j) => i = j  BY <1>1, <1>5, <2>1, <3>1
    <3>3. ASSUME NEW n, FromConstant(j, n), t \in Out(j) PROVE FALSE
      BY <1>1, <1>6, <2>1, <3>1, <3>3
    <3>4. ASSUME NEW n, FromNode(j, n), t \in Out(j) PROVE FALSE
      BY <1>7, <1>9, <2>1, <3>1, <3>4
    <3> QED  BY <1>4, <3>1, <3>2, <3>3, <3>4
  <2>2. ASSUME NEW n, FromConstant(i, n) PROVE t # NoTensor /\ (t \in Out(j) => i = j)
    <3>1. t = given[n].tensor /\ t # NoTensor  BY <1>6, <2>2 DEF ModelValue
    <3>2. FromInput(j) /\ t \in Out(j) => FALSE  BY <1>1, <1>5, <2>2, <3>1
    <3>3. ASSUME NEW k, FromConstant(j, k), t \in Out(j) PROVE i = j
      BY <1>3, <1>6, <2>2, <3>1, <3>3
    <3>4. ASSUME NEW k, FromNode(j, k), t \in Out(j) PROVE FALSE
      BY <1>7, <1>9, <2>2, <3>1, <3>4
    <3> QED  BY <1>4, <3>1, <3>2, <3>3, <3>4
  <2>3. ASSUME NEW n, FromNode(i, n) PROVE t # NoTensor /\ (t \in Out(j) => i = j)
    <3>1. n \in DOMAIN nodes /\ t \in ToSet(nodes[n].outputs)  BY <1>7, <2>3
    <3>2. FromInput(j) /\ t \in Out(j) => FALSE  BY <1>5, <1>9, <3>1
    <3>3. ASSUME NEW k, FromConstant(j, k), t \in Out(j) PROVE FALSE
      BY <1>6, <1>9, <3>1, <3>3
    <3>4. ASSUME NEW k, FromNode(j, k), t \in Out(j) PROVE i = j
      BY <1>7, <1>9, <2>3, <3>1, <3>4
    <3> QED  BY <1>4, <1>9, <3>1, <3>2, <3>3, <3>4
  <2> QED  BY <1>4, <2>1, <2>2, <2>3
<1>11. ASSUME NEW i \in DOMAIN all, NEW j \in DOMAIN all, NEW t \in In(i), t \in Out(j)
       PROVE  j < i
  <2>1. PICK k : FromNode(i, k)  BY <1>4, <1>5, <1>6
  <2>2. k \in DOMAIN nodes /\ i = P + Q + k /\ t \in ToSet(nodes[k].inputs)
    BY <1>7, <2>1
  <2>3. k \in Nat /\ k >= 1  BY <1>8, <2>2
  <2>4. CASE FromInput(j)
    <3>1. j \in 1..P  BY <1>8, <2>4
    <3> QED  BY <1>8, <2>2, <2>3, <3>1
  <2>5. ASSUME NEW n, FromConstant(j, n) PROVE j < i
    <3>1. j = P + n /\ n \in 1..Q  BY <1>8, <2>5
    <3> QED  BY <1>8, <2>2, <2>3, <3>1
  <2>6. ASSUME NEW n, FromNode(j, n) PROVE j < i
    <3>1. n \in DOMAIN nodes /\ j = P + Q + n /\ t \in ToSet(nodes[n].outputs)
      BY <1>7, <1>11, <2>6
    <3>2. n < k /\ n \in Nat  BY <1>8, <1>9, <2>2, <3>1
    <3> QED  BY <1>8, <2>2, <2>3, <3>1, <3>2
  <2> QED  BY <1>4, <2>4, <2>5, <2>6
<1>12. ASSUME NEW i \in DOMAIN all, all[i].node.op \in DOMAIN Arity
       PROVE  Len(all[i].node.inputs) = Arity[all[i].node.op]
  <2>1. \A v \in ToSet(nodes) : v.op \in DOMAIN Arity => Len(v.inputs) = Arity[v.op]
    BY DEF IsModel, nodes
  <2>2. DOMAIN Arity = {"Mul", "Sin"}  BY DEF Arity
  <2>3. PICK n : FromNode(i, n)  BY <1>4, <1>5, <1>6, <1>12, <2>2
  <2>4. nodes[n] \in ToSet(nodes)  BY <2>3 DEF ToSet
  <2> QED  BY <1>7, <1>12, <2>1, <2>3, <2>4
<1>13. ASSUME NEW i \in DOMAIN all, Len(all[i].node.outputs) > 1
       PROVE  all[i].node.op \in Several
  <2>1. \A v \in ToSet(nodes) : Len(v.outputs) > 1 => v.op \in Several
    BY DEF IsModel, nodes
  <2> DEFINE plural == Len(all[i].node.outputs)
  <2>7. plural > 1  BY <1>13
  <2>4. plural # 1
    <3> HIDE DEF plural
    <3> QED  BY <2>7
  <2> HIDE DEF plural, FromInput, FromConstant, FromNode
  <2>5. ~ FromInput(i)  BY <1>5, <2>4 DEF plural
  <2>6. \A n : ~ FromConstant(i, n)  BY <1>6, <2>4 DEF plural
  <2>2. PICK n : FromNode(i, n)  BY <1>4, <2>5, <2>6
  <2>3. n \in DOMAIN nodes /\ nodes[n] \in ToSet(nodes)  BY <2>2 DEF FromNode, ToSet
  <2> QED  BY <1>7, <1>13, <2>1, <2>2, <2>3
<1> QED  BY <1>2, <1>10, <1>11, <1>12, <1>13 DEF DraftsOrdered, all, In, Out

(* The graph that is imported is in order. *)
LEMMA ImportInOrder ==
  ASSUME NEW m, IsModel(m)
  PROVE  Orderly(ImportGraph(m))
<1>1. Drafts(m) \in Seq(Draft) /\ DraftsOrdered(Drafts(m))  BY DraftsInOrder
<1>2. PICK w \in ImportType : ImportGraph(m) = w.nodes /\ Made(w, Drafts(m), Len(Drafts(m)))
  BY <1>1, ImportMakes
<1> QED  BY <1>1, <1>2, MadeInOrder

(* And every tensor it reads is put out. *)
LEMMA ImportComplete ==
  ASSUME NEW m, IsModel(m)
  PROVE  Complete(ImportGraph(m))
<1> DEFINE all == Drafts(m)
           values == PureInputs(m)
           given == m.initializers
           initialized == {v.tensor : v \in ToSet(m.initializers)}
           S == {v \in ToSet(m.inputs) : v.tensor \notin initialized}
           Out(i) == ToSet(all[i].node.outputs)
<1>1. values \in Seq(ModelValue)  BY PureInputsAre
<1>2. /\ all \in Seq(Draft) /\ AllDrafted(m, values, all)
      /\ \A i \in DOMAIN all : DraftOf(m, values, i, all[i])
  BY <1>1, DraftsAre
<1>3. PICK w \in ImportType : ImportGraph(m) = w.nodes /\ Made(w, all, Len(all))
  BY <1>2, ImportMakes
<1>4. ASSUME NEW v \in ToSet(m.initializers) PROVE \E i \in DOMAIN all : v.tensor \in Out(i)
  <2>1. PICK n \in DOMAIN given : v = given[n]  BY <1>4 DEF ToSet
  <2>2. PICK i \in DOMAIN all : all[i] = ValueNode(v, "Constant")  BY <1>2, <2>1 DEF AllDrafted
  <2>3. v \in ModelValue
    <3>1. given \in Seq(ModelValue)  BY DEF IsModel
    <3> HIDE DEF given
    <3> QED  BY <2>1, <3>1
  <2> HIDE DEF all
  <2>4. LET d == ValueNode(v, "Constant").node
        IN  d.op = "Constant" /\ ToSet(d.inputs) = {} /\ ToSet(d.outputs) = {v.tensor}
    BY <2>3, DraftTensors
  <2> QED  BY <2>2, <2>4
<1>5. ASSUME NEW v \in ToSet(m.inputs) PROVE \E i \in DOMAIN all : v.tensor \in Out(i)
  <2>1. CASE v.tensor \in initialized
    <3>1. PICK u \in ToSet(m.initializers) : v.tensor = u.tensor  BY <2>1
    <3> HIDE DEF all
    <3> QED  BY <1>4, <3>1
  <2>2. CASE v.tensor \notin initialized
    <3>1. m.inputs \in Seq(ModelValue) /\ v \in S  BY <1>5, <2>2 DEF IsModel
    <3>2. values = Among(m.inputs, S)  BY DEF PureInputs
    <3> HIDE DEF S, values, all
    <3>3. PICK e : Selects(e, values, m.inputs, Len(m.inputs), S)  BY <3>1, <3>2, AmongIs
    <3>4. PICK k \in 1..Len(m.inputs) : m.inputs[k] = v
      BY <1>5, <3>1 DEF ToSet
    <3>5. PICK a \in DOMAIN values : e[a] = k  BY <3>1, <3>3, <3>4 DEF Selects
    <3>6. values[a] = v  BY <3>3, <3>4, <3>5 DEF Selects
    <3>7. a \in DOMAIN all /\ all[a] = ValueNode(v, "Input")  BY <1>2, <3>5, <3>6 DEF AllDrafted
    <3>8. v \in ModelValue  BY <1>1, <3>5, <3>6
    <3>9. LET d == ValueNode(v, "Input").node
          IN  d.op = "Input" /\ ToSet(d.inputs) = {} /\ ToSet(d.outputs) = {v.tensor}
      BY <3>8, DraftTensors
    <3> QED  BY <3>7, <3>9
  <2> QED  BY <2>1, <2>2
<1>6. ASSUME NEW n \in DOMAIN m.nodes, NEW t \in ToSet(m.nodes[n].outputs)
      PROVE  \E i \in DOMAIN all : t \in Out(i)
  <2>1. PICK i \in DOMAIN all : all[i] = NamedNode(m, n)  BY <1>2 DEF AllDrafted
  <2>2. NamedNode(m, n).node.outputs = m.nodes[n].outputs  BY DraftTensors
  <2> HIDE DEF all
  <2> QED  BY <1>6, <2>1, <2>2
<1>7. ASSUME NEW i \in DOMAIN all, NEW t \in ToSet(all[i].node.inputs), t # NoTensor
      PROVE  \E j \in DOMAIN all : t \in Out(j)
  <2>1. PICK n \in DOMAIN m.nodes : all[i] = NamedNode(m, n)
    <3>1. ASSUME NEW v \in ModelValue, NEW op, all[i] = ValueNode(v, op) PROVE FALSE
      <4>1. ToSet(ValueNode(v, op).node.inputs) = {}  BY DraftTensors
      <4> HIDE DEF all
      <4> QED  BY <1>7, <3>1, <4>1
    <3>2. DraftOf(m, values, i, all[i])  BY <1>2
    <3>3. given \in Seq(ModelValue)  BY DEF IsModel
    <3> HIDE DEF all, values, given
    <3>4. \A k \in DOMAIN values : values[k] \in ModelValue  BY <1>1
    <3>5. \A k \in DOMAIN given : given[k] \in ModelValue  BY <3>3
    <3> QED  BY <3>1, <3>2, <3>4, <3>5 DEF DraftOf, given
  <2>2. t \in ToSet(m.nodes[n].inputs)
    <3>1. NamedNode(m, n).node.inputs = m.nodes[n].inputs  BY DraftTensors
    <3> HIDE DEF all
    <3> QED  BY <1>7, <2>1, <3>1
  <2> DEFINE known == {v.tensor : v \in ToSet(m.inputs) \cup ToSet(m.initializers)}
             Assigned(k) == ToSet(m.nodes[k].outputs)
  <2>3. /\ ToSet(m.nodes[n].inputs) \ {NoTensor}
             \subseteq known \cup UNION {Assigned(k) : k \in 1..(n - 1)}
        /\ m.nodes \in Seq(ModelNode)
    BY DEF IsModel
  <2>4. t \in known \cup UNION {Assigned(k) : k \in 1..(n - 1)}
    <3> HIDE DEF known, Assigned
    <3> QED  BY <1>7, <2>2, <2>3
  <2>5. CASE t \in known
    <3>1. PICK v \in ToSet(m.inputs) \cup ToSet(m.initializers) : t = v.tensor  BY <2>5
    <3> HIDE DEF all
    <3> QED  BY <1>4, <1>5, <3>1
  <2>6. CASE t \notin known
    <3>1. PICK k \in 1..(n - 1) : t \in Assigned(k)
      <4> HIDE DEF known, Assigned
      <4> QED  BY <2>4, <2>6
    <3>2. k \in DOMAIN m.nodes  BY <2>3
    <3> HIDE DEF all
    <3> QED  BY <1>6, <3>1, <3>2
  <2> QED  BY <2>5, <2>6
<1>8. ASSUME NEW n \in DOMAIN w.nodes
      PROVE  /\ n \in DOMAIN all /\ w.nodes[n] \in Node /\ all[n].node \in Body
             /\ w.nodes[n].inputs = all[n].node.inputs
             /\ w.nodes[n].outputs = all[n].node.outputs
  <2> HIDE DEF all
  <2>1. w.nodes \in Seq(Node) /\ Len(w.nodes) = Len(all) /\ Len(all) \in Nat
    BY <1>2, <1>3 DEF Made, ImportType
  <2>2. n \in 1..Len(all) /\ n \in DOMAIN all  BY <1>2, <2>1
  <2>3. w.nodes[n] = WithId(w.nodes[n].id, all[n].node)  BY <1>3, <2>2 DEF Made
  <2>4. w.nodes[n] \in Node  BY <2>1
  <2>5. all[n] \in Draft  BY <1>2, <2>2
  <2>6. all[n].node \in Body  BY <2>5 DEF Draft
  <2> QED  BY <2>2, <2>3, <2>4, <2>6 DEF WithId
<1>9. DOMAIN w.nodes = DOMAIN all
  <2> HIDE DEF all
  <2> QED  BY <1>2, <1>3 DEF Made, ImportType
<1> HIDE DEF all, Out
<1>10. ASSUME NEW n \in DOMAIN w.nodes, NEW t \in ToSet(w.nodes[n].inputs) \ {NoTensor}
       PROVE  Producers(w.nodes, t) # {}
  <2>1. PICK j \in DOMAIN all : t \in Out(j)  BY <1>7, <1>8, <1>10
  <2>2. j \in DOMAIN w.nodes /\ t \in ToSet(w.nodes[j].outputs)  BY <1>8, <1>9, <2>1 DEF Out
  <2>3. w.nodes[j].outputs \in Seq(Tensor)  BY <1>8, <2>2 DEF Node
  <2>4. Contains(w.nodes[j].outputs, t)  BY <2>2, <2>3 DEF Contains, ToSet
  <2> QED  BY <2>2, <2>4 DEF Producers
<1> QED  BY <1>3, <1>10 DEF Complete

-----------------------------------------------------------------------------
(* The pipeline.                                                           *)

(* The graph is in order, whatever the model and however many passes have run. *)
OrderInv ==
  /\ stage \in 0..PassCount
  /\ Orderly(graph) /\ (stage = 0 => Complete(graph))

(* Imported graphs are in order, each pass keeps that, and the lowering leaves the graph. *)
LEMMA OrderKept == Spec => []OrderInv
<1>1. Init => OrderInv
  <2> SUFFICES ASSUME Init PROVE OrderInv
    OBVIOUS
  <2>1. model \in Models /\ graph = ImportGraph(model) /\ stage = 0  BY DEF Init
  <2>2. IsModel(model)  BY <2>1, ModelsAssumption
  <2> QED  BY <2>1, <2>2, ImportInOrder, ImportComplete DEF OrderInv, PassCount
<1>2. OrderInv /\ [Next]_vars => OrderInv'
  <2> SUFFICES ASSUME OrderInv, [Next]_vars PROVE OrderInv'
    OBVIOUS
  <2>1. CASE Canonicalize
    <3>1. stage + 1 \in 1..PassCount /\ stage' = stage + 1 /\ stage' \in 0..PassCount
          /\ stage' # 0 /\ graph' = Pass(stage + 1, graph)
      BY <2>1 DEF Canonicalize, OrderInv, PassCount
    <3>2. Orderly(Pass(stage + 1, graph))  BY <3>1, PassKeeps DEF OrderInv
    <3> QED  BY <3>1, <3>2 DEF OrderInv
  <2>2. CASE Lower \/ UNCHANGED vars
    <3>1. stage' = stage /\ graph' = graph
      BY <2>2 DEF vars, Lower, LowerNext, Drop, LowerFused, LowerAlone, Refuse, Conclude
    <3> QED  BY <3>1 DEF OrderInv
  <2> QED  BY <2>1, <2>2 DEF Next
<1> QED  BY <1>1, <1>2, PTL DEF Spec

(* GraphsWellOrdered: the graph that is imported has one id for each node, one producer
   for each tensor and every producer before its readers, and each pass keeps that, for
   every model that the onnx checker lets through. *)
THEOREM GraphsOrdered == Spec => []GraphsWellOrdered
<1>1. OrderInv => GraphsWellOrdered  BY DEF OrderInv, GraphsWellOrdered
<1> QED  BY <1>1, OrderKept, PTL

-----------------------------------------------------------------------------
(* The lowering: a Linear that goes with its norm comes after it, goes with no other, and
   is skipped when the scan comes to it. *)

(* A Linear that goes with a norm comes after it, and goes with no other. *)
LEMMA LinearBehindNorm ==
  ASSUME Orderly(graph), NEW p \in DOMAIN graph, graph[p].op = "RMSNorm",
         NEW n \in FusibleLinears(graph[p])
  PROVE  /\ n \in DOMAIN graph /\ p < n
         /\ \A q \in DOMAIN graph : n \in FusibleLinears(graph[q]) => p = q
<1> DEFINE Feeds(q) == n \in FusibleLinears(graph[q])
           t == graph[n].inputs[1]
<1>1. n \in DOMAIN graph /\ graph[n].inputs # <<>>  BY DEF FusibleLinears
<1>2. graph[n].inputs \in Seq(Tensor)  BY <1>1, OrderlyTyped
<1>3. t \in Tensor /\ t \in ToSet(graph[n].inputs)  BY <1>1, <1>2 DEF ToSet
<1>4. ASSUME NEW q \in DOMAIN graph, Feeds(q) PROVE q \in Producers(graph, t)
  <2>1. graph[q].outputs # <<>> /\ t = graph[q].outputs[1]
    BY <1>4 DEF FusibleLinears, UsedOnce
  <2>2. graph[q].outputs \in Seq(Tensor)  BY OrderlyTyped
  <2>3. Contains(graph[q].outputs, t)  BY <2>1, <2>2 DEF Contains
  <2> QED  BY <2>3 DEF Producers
<1>5. p \in Producers(graph, t)  BY <1>4
<1> HIDE DEF t
<1>6. p < n  BY <1>1, <1>3, <1>5 DEF Orderly
<1>7. \A q \in DOMAIN graph : n \in FusibleLinears(graph[q]) => p = q
  BY <1>3, <1>4, <1>5 DEF Orderly
<1> QED  BY <1>1, <1>6, <1>7

(* The macros, fused ones included. *)
Macros == Range(MacroOp) \cup {"RMSNORM_GEMM"}

(* What is lowered: nodes under a macro's name. *)
LoweredNode ==
  [id : NodeId, op : Macros, inputs : Seq(Tensor), outputs : Seq(Tensor), kind : Kinds,
   origin : Origins]

(* The scan has not begun before the last pass, and what it has lowered are nodes it has
   passed, or Linears ahead of it that it will skip. *)
ScanInv ==
  /\ stage # PassCount => LowerInit
  /\ at \in 0..Len(graph)
  /\ lowered \in Seq(LoweredNode)
  /\ \A k \in DOMAIN lowered : \E n \in DOMAIN graph :
       lowered[k].id = graph[n].id /\ (n <= at \/ graph[n].id \in skipped)
  /\ \A id \in skipped : \E n \in DOMAIN graph, p \in DOMAIN graph :
       id = graph[n].id /\ p <= at /\ n \in FusibleLinears(graph[p])
  /\ IsInjective([n \in DOMAIN lowered |-> lowered[n].id])
  /\ NeverDuplicate

(* A node with a new id can be appended to what is lowered. *)
LEMMA AppendFresh ==
  ASSUME NEW s \in Seq(LoweredNode), IsInjective([n \in DOMAIN s |-> s[n].id]),
         NEW v \in LoweredNode, \A k \in DOMAIN s : s[k].id # v.id
  PROVE  LET r == Append(s, v)
         IN  /\ r \in Seq(LoweredNode) /\ IsInjective([n \in DOMAIN r |-> r[n].id])
             /\ \A k \in DOMAIN r : r[k] = v \/ \E i \in DOMAIN s : r[k] = s[i]
<1> DEFINE r == Append(s, v)
<1>1. r \in Seq(LoweredNode) /\ Len(r) = Len(s) + 1 /\ Len(s) \in Nat
  OBVIOUS
<1>2. DOMAIN s = 1..Len(s) /\ DOMAIN r = 1..(Len(s) + 1)  BY <1>1
<1>3. \A k \in DOMAIN r : (k \in DOMAIN s /\ r[k] = s[k]) \/ (k = Len(s) + 1 /\ r[k] = v)
  BY <1>1, <1>2
<1>4. \A a, b \in DOMAIN s : s[a].id = s[b].id => a = b  BY DEF IsInjective
<1> HIDE DEF r
<1>5. \A a, b \in DOMAIN r : r[a].id = r[b].id => a = b  BY <1>3, <1>4
<1> QED  BY <1>1, <1>3, <1>5 DEF IsInjective, r

(* A node of the graph is lowered under a macro's name, alone or with other inputs. *)
LEMMA MacroTyped ==
  ASSUME NEW v \in Node
  PROVE  /\ \A op \in Macros : LET w == [v EXCEPT !.op = op]
                              IN  w \in LoweredNode /\ w.id = v.id
         /\ \A op \in Macros, ins \in Seq(Tensor) :
              LET w == [v EXCEPT !.op = op, !.inputs = ins]
              IN  w \in LoweredNode /\ w.id = v.id
<1>1. \A op \in Macros : LET w == [v EXCEPT !.op = op]
                         IN  w \in LoweredNode /\ w.id = v.id
  BY DEF Node, LoweredNode
<1>2. \A op \in Macros, ins \in Seq(Tensor) :
        LET w == [v EXCEPT !.op = op, !.inputs = ins]
        IN  w \in LoweredNode /\ w.id = v.id
  BY DEF Node, LoweredNode
<1> QED  BY <1>1, <1>2

(* One step of the scan lowers no node a second time. *)
LEMMA ScanStep ==
  ASSUME OrderInv, ScanInv, stage = PassCount, LowerNext, stage' = stage
  PROVE  ScanInv'
<1>1. /\ Orderly(graph) /\ graph \in Seq(Node) /\ graph' = graph
      /\ \A a, b \in DOMAIN graph : graph[a].id = graph[b].id => a = b
  BY DEF OrderInv, Orderly, LowerNext, Drop, LowerFused, LowerAlone, Refuse, Conclude
<1>2. at \in Nat /\ Len(graph) \in Nat /\ DOMAIN graph = 1..Len(graph)
  BY <1>1 DEF ScanInv
<1>3. \A v : FusibleLinears(v)' = FusibleLinears(v)
  BY <1>1 DEF FusibleLinears
<1> DEFINE p == at + 1
<1>4. CASE Drop \/ Refuse
  <2>1. /\ at' = at + 1 /\ at < Len(graph) /\ lowered' = lowered /\ skipped' = skipped
        /\ outcome' = outcome
    BY <1>4 DEF Drop, Refuse, Scan
  <2>2. \A n \in DOMAIN graph : n <= at => n <= at'  BY <1>2, <2>1
  <2> QED  BY <1>1, <1>2, <1>3, <2>1, <2>2 DEF ScanInv, NeverDuplicate
<1>5. CASE LowerAlone
  <2>1. /\ at' = at + 1 /\ at < Len(graph) /\ skipped' = skipped /\ outcome' = outcome
        /\ graph[p].id \notin skipped /\ graph[p].op \in DOMAIN MacroOp
        /\ lowered' = Append(lowered, [graph[p] EXCEPT !.op = MacroOp[@]])
    BY <1>5 DEF LowerAlone, Scan, Scanned
  <2> DEFINE w == [graph[p] EXCEPT !.op = MacroOp[graph[p].op]]
  <2>2. p \in DOMAIN graph /\ graph[p] \in Node  BY <1>1, <1>2, <2>1
  <2>3. w \in LoweredNode /\ w.id = graph[p].id /\ lowered' = Append(lowered, w)
    BY <2>1, <2>2, MacroTyped DEF Macros, Range
  <2> HIDE DEF w
  <2>4. \A k \in DOMAIN lowered : lowered[k].id # w.id
    <3> SUFFICES ASSUME NEW k \in DOMAIN lowered, lowered[k].id = graph[p].id PROVE FALSE
      BY <2>3
    <3>1. PICK n \in DOMAIN graph :
            lowered[k].id = graph[n].id /\ (n <= at \/ graph[n].id \in skipped)
      BY DEF ScanInv
    <3>2. n = p  BY <1>1, <2>2, <3>1
    <3> QED  BY <1>2, <2>1, <3>1, <3>2
  <2>5. /\ lowered' \in Seq(LoweredNode) /\ IsInjective([n \in DOMAIN lowered' |-> lowered'[n].id])
        /\ \A k \in DOMAIN lowered' :
             lowered'[k] = w \/ \E i \in DOMAIN lowered : lowered'[k] = lowered[i]
    BY <2>3, <2>4, AppendFresh DEF ScanInv
  <2>6. \A k \in DOMAIN lowered' : \E n \in DOMAIN graph :
          lowered'[k].id = graph[n].id /\ (n <= at' \/ graph[n].id \in skipped')
    <3> TAKE k \in DOMAIN lowered'
    <3>1. CASE lowered'[k] = w  BY <1>2, <2>1, <2>2, <2>3, <3>1
    <3>2. CASE \E i \in DOMAIN lowered : lowered'[k] = lowered[i]
      BY <1>2, <2>1, <3>2 DEF ScanInv
    <3> QED  BY <2>5, <3>1, <3>2
  <2>7. at' \in 0..Len(graph)  BY <1>2, <2>1
  <2>8. \A id \in skipped' : \E n \in DOMAIN graph, q \in DOMAIN graph :
          id = graph[n].id /\ q <= at' /\ n \in FusibleLinears(graph[q])
    BY <1>2, <2>1 DEF ScanInv
  <2> QED  BY <1>1, <1>3, <2>1, <2>5, <2>6, <2>7, <2>8 DEF ScanInv, NeverDuplicate
<1>6. CASE LowerFused
  <2> DEFINE n0 == Smallest(FusibleLinears(graph[p]))
             w == [graph[n0] EXCEPT !.op = "RMSNORM_GEMM",
                                    !.inputs = graph[p].inputs \o Tail(graph[n0].inputs)]
  <2>1. /\ at' = at + 1 /\ at < Len(graph) /\ outcome' = outcome
        /\ FusibleLinears(graph[p]) # {} /\ graph[p].op = "RMSNorm"
        /\ lowered' = Append(lowered, w) /\ skipped' = skipped \cup {graph[n0].id}
    BY <1>6 DEF LowerFused, Scan, Scanned, Fuses
  <2>2. p \in DOMAIN graph /\ graph[p] \in Node  BY <1>1, <1>2, <2>1
  <2>3. n0 \in FusibleLinears(graph[p])
    <3>1. FusibleLinears(graph[p]) \subseteq Nat  BY <1>2 DEF FusibleLinears
    <3> QED  BY <2>1, <3>1, SmallestIs
  <2>4. n0 \in DOMAIN graph /\ p < n0 /\ graph[n0] \in Node
        /\ \A q \in DOMAIN graph : n0 \in FusibleLinears(graph[q]) => p = q
    BY <1>1, <2>1, <2>2, <2>3, LinearBehindNorm
  <2> HIDE DEF n0
  <2>5. graph[p].inputs \o Tail(graph[n0].inputs) \in Seq(Tensor)
    <3>1. graph[n0].inputs \in Seq(Tensor) /\ graph[n0].inputs # <<>>
      BY <2>3, <2>4 DEF Node, FusibleLinears
    <3>2. Tail(graph[n0].inputs) \in Seq(Tensor)  BY <3>1
    <3>3. graph[p].inputs \in Seq(Tensor)  BY <2>2 DEF Node
    <3> QED  BY <3>2, <3>3
  <2>6. w \in LoweredNode /\ w.id = graph[n0].id
    <3> DEFINE ins == graph[p].inputs \o Tail(graph[n0].inputs)
    <3> HIDE DEF ins
    <3>1. "RMSNORM_GEMM" \in Macros /\ ins \in Seq(Tensor)  BY <2>5 DEF Macros, ins
    <3>2. w = [graph[n0] EXCEPT !.op = "RMSNORM_GEMM", !.inputs = ins]  BY DEF ins
    <3> HIDE DEF w
    <3>3. graph[n0] \in Node  BY <2>4
    <3>4. \A op \in Macros, is \in Seq(Tensor) :
            /\ [graph[n0] EXCEPT !.op = op, !.inputs = is] \in LoweredNode
            /\ [graph[n0] EXCEPT !.op = op, !.inputs = is].id = graph[n0].id
      BY <3>3, MacroTyped, Zenon
    <3> QED  BY <3>1, <3>2, <3>4, Zenon
  <2> HIDE DEF w
  <2>7. graph[n0].id \notin skipped
    <3> SUFFICES ASSUME graph[n0].id \in skipped PROVE FALSE
      OBVIOUS
    <3>1. PICK n \in DOMAIN graph, q \in DOMAIN graph :
            graph[n0].id = graph[n].id /\ q <= at /\ n \in FusibleLinears(graph[q])
      BY DEF ScanInv
    <3>2. n = n0  BY <1>1, <2>4, <3>1
    <3> QED  BY <1>2, <2>4, <3>1, <3>2
  <2>8. \A k \in DOMAIN lowered : lowered[k].id # w.id
    BY <1>1, <1>2, <2>4, <2>6, <2>7 DEF ScanInv
  <2>9. /\ lowered' \in Seq(LoweredNode) /\ IsInjective([n \in DOMAIN lowered' |-> lowered'[n].id])
        /\ \A k \in DOMAIN lowered' :
             lowered'[k] = w \/ \E i \in DOMAIN lowered : lowered'[k] = lowered[i]
    BY <2>1, <2>6, <2>8, AppendFresh DEF ScanInv
  <2>10. \A k \in DOMAIN lowered' : \E n \in DOMAIN graph :
          lowered'[k].id = graph[n].id /\ (n <= at' \/ graph[n].id \in skipped')
    <3> TAKE k \in DOMAIN lowered'
    <3>1. CASE lowered'[k] = w  BY <2>1, <2>4, <2>6, <3>1
    <3>2. CASE \E i \in DOMAIN lowered : lowered'[k] = lowered[i]
      BY <1>2, <2>1, <3>2 DEF ScanInv
    <3> QED  BY <2>9, <3>1, <3>2
  <2>11. at' \in 0..Len(graph)  BY <1>2, <2>1
  <2>12. \A id \in skipped' : \E n \in DOMAIN graph, q \in DOMAIN graph :
          id = graph[n].id /\ q <= at' /\ n \in FusibleLinears(graph[q])
    <3>1. \A id \in skipped : \E n \in DOMAIN graph, q \in DOMAIN graph :
            id = graph[n].id /\ q <= at' /\ n \in FusibleLinears(graph[q])
      BY <1>2, <2>1 DEF ScanInv
    <3>2. p <= at' /\ n0 \in FusibleLinears(graph[p]) /\ p \in DOMAIN graph /\ n0 \in DOMAIN graph
      BY <1>2, <2>1, <2>2, <2>3, <2>4
    <3> QED  BY <2>1, <3>1, <3>2
  <2> QED  BY <1>1, <1>3, <2>1, <2>9, <2>10, <2>11, <2>12 DEF ScanInv, NeverDuplicate
<1>7. CASE Conclude
  <2>1. /\ at' = at /\ lowered' = lowered /\ skipped' = skipped /\ outcome' # "duplicate"
    BY <1>7 DEF Conclude, ScanInv
  <2> QED  BY <1>1, <1>3, <2>1 DEF ScanInv, NeverDuplicate
<1> QED  BY <1>4, <1>5, <1>6, <1>7 DEF LowerNext

(* The scan keeps its invariant. *)
LEMMA ScanKept == Spec => [](OrderInv /\ ScanInv)
<1>1. Init => ScanInv
  <2> SUFFICES ASSUME Init PROVE ScanInv
    OBVIOUS
  <2>1. at = 0 /\ lowered = <<>> /\ skipped = {} /\ outcome = "scanning" /\ LowerInit
    BY DEF Init, LowerInit
  <2>2. model \in Models /\ graph = ImportGraph(model)  BY DEF Init
  <2>3. Orderly(graph)  BY <2>2, ModelsAssumption, ImportInOrder
  <2>4. Len(graph) \in Nat  BY <2>3, OrderlyTyped
  <2> QED  BY <2>1, <2>4 DEF ScanInv, NeverDuplicate, IsInjective
<1>2. OrderInv /\ OrderInv' /\ ScanInv /\ [Next]_vars => ScanInv'
  <2> SUFFICES ASSUME OrderInv, OrderInv', ScanInv, [Next]_vars PROVE ScanInv'
    OBVIOUS
  <2>1. CASE Canonicalize
    <3>1. stage # PassCount
      BY <2>1 DEF Canonicalize, PassCount
    <3>2. LowerInit /\ LowerInit'
      BY <2>1, <3>1 DEF Canonicalize, ScanInv, LowerInit, lowerVars
    <3>3. at' = 0 /\ lowered' = <<>> /\ skipped' = {} /\ outcome' = "scanning"
      BY <3>2 DEF LowerInit
    <3>4. Len(graph') \in Nat
      <4>1. graph' \in Seq(Node)  BY DEF OrderInv, Orderly
      <4> QED  BY <4>1
    <3> QED  BY <3>2, <3>3, <3>4 DEF ScanInv, NeverDuplicate, IsInjective
  <2>2. CASE Lower
    BY <2>2, ScanStep DEF Lower
  <2>3. CASE UNCHANGED vars
    <3>1. /\ stage' = stage /\ graph' = graph /\ at' = at /\ skipped' = skipped
          /\ lowered' = lowered /\ unsupported' = unsupported /\ outcome' = outcome
      BY <2>3 DEF vars
    <3>2. LowerInit' = LowerInit  BY <3>1 DEF LowerInit
    <3>3. \A v : FusibleLinears(v)' = FusibleLinears(v)  BY <3>1 DEF FusibleLinears
    <3> QED  BY <3>1, <3>2, <3>3 DEF ScanInv, NeverDuplicate
  <2> QED  BY <2>1, <2>2, <2>3 DEF Next
<1> QED  BY <1>1, <1>2, OrderKept, PTL DEF Spec

(* NeverDuplicate: NIGIR never refuses what is lowered, whatever the model. *)
THEOREM LoweredOnce == Spec => []NeverDuplicate
<1>1. ScanInv => NeverDuplicate  BY DEF ScanInv
<1> QED  BY <1>1, ScanKept, PTL

-----------------------------------------------------------------------------

(* The residual nodes among the first k. *)
ResidualAmong(k) == {graph[n].id : n \in {m \in 1..k : graph[m].op \notin CanonicalOpKinds}}

(* The scan has refused the residual nodes that it has passed, and no others. *)
TallyInv ==
  /\ stage \in 0..PassCount
  /\ unsupported \in Seq(NodeId) /\ ToSet(unsupported) = ResidualAmong(at)
  /\ Len(lowered) <= at
  /\ outcome # "scanning" => at = Len(graph) /\ stage = PassCount
  /\ outcome \in {"scanning", "returned", "unsupported", "duplicate"}

(* The canonical operators are those with a macro and the two that need none. *)
LEMMA KindsAgree == CanonicalOpKinds = DOMAIN MacroOp \cup {"Input", "Constant"}
  BY DEF CanonicalOpKinds, MacroOp

(* A node that is skipped is a Linear. *)
LEMMA SkippedLinear ==
  ASSUME OrderInv, ScanInv, NEW p \in DOMAIN graph, graph[p].id \in skipped
  PROVE  graph[p].op = "Linear"
<1>1. PICK n \in DOMAIN graph, q \in DOMAIN graph :
        graph[p].id = graph[n].id /\ n \in FusibleLinears(graph[q])
  BY DEF ScanInv
<1>2. \A a, b \in DOMAIN graph : graph[a].id = graph[b].id => a = b
  BY DEF OrderInv, Orderly
<1>3. n = p  BY <1>1, <1>2
<1> QED  BY <1>1, <1>3 DEF FusibleLinears

(* One step of the scan refuses its node if and only if the node is residual. *)
LEMMA TallyStep ==
  ASSUME OrderInv, ScanInv, TallyInv, stage = PassCount, LowerNext, stage' = stage
  PROVE  TallyInv'
<1>1. graph \in Seq(Node) /\ at \in 0..Len(graph) /\ lowered \in Seq(LoweredNode)
  BY DEF OrderInv, ScanInv, Orderly
<1>2. graph' = graph  BY DEF LowerNext, Drop, LowerFused, LowerAlone, Refuse, Conclude
<1>3. at \in Nat /\ Len(graph) \in Nat /\ DOMAIN graph = 1..Len(graph) /\ Len(lowered) \in Nat
  BY <1>1
<1> DEFINE p == at + 1
<1>4. ASSUME Scan PROVE p \in DOMAIN graph /\ graph[p] \in Node
  BY <1>1, <1>3, <1>4 DEF Scan
<1>5. ASSUME at' = p, p \in DOMAIN graph
      PROVE  ResidualAmong(at)' = ResidualAmong(at) \cup
               {graph[n].id : n \in {m \in {p} : graph[m].op \notin CanonicalOpKinds}}
  <2>1. 1..p = (1..at) \cup {p}  BY <1>3
  <2> HIDE DEF p
  <2> QED  BY <1>2, <1>5, <2>1 DEF ResidualAmong
<1>6. CASE Drop \/ LowerFused \/ LowerAlone
  <2>1. /\ Scan /\ unsupported' = unsupported
        /\ lowered' = lowered \/ \E w : lowered' = Append(lowered, w)
    BY <1>6 DEF Drop, LowerFused, LowerAlone
  <2>2. graph[p].op \in CanonicalOpKinds
    <3>1. \/ graph[p].id \in skipped \/ graph[p].op \in {"Input", "Constant", "RMSNorm"}
          \/ graph[p].op \in DOMAIN MacroOp
      BY <1>6 DEF Drop, LowerFused, LowerAlone, Scanned, Ignored, Fuses
    <3>2. "Linear" \in CanonicalOpKinds /\ "RMSNorm" \in CanonicalOpKinds
      BY DEF CanonicalOpKinds
    <3> QED  BY <1>4, <2>1, <3>1, <3>2, SkippedLinear, KindsAgree
  <2>3. at' = p /\ outcome' = outcome /\ outcome = "scanning"  BY <2>1 DEF Scan
  <2>4. ResidualAmong(at)' = ResidualAmong(at)  BY <1>4, <1>5, <2>1, <2>2, <2>3
  <2>5. Len(lowered') <= at'
    <3>1. CASE lowered' = lowered  BY <1>3, <2>3, <3>1 DEF TallyInv
    <3>2. CASE \E w : lowered' = Append(lowered, w)
      <4>1. PICK w : lowered' = Append(lowered, w)  BY <3>2
      <4>2. Len(lowered') = Len(lowered) + 1  BY <1>1, <4>1
      <4> QED  BY <1>3, <2>3, <4>2 DEF TallyInv
    <3> QED  BY <2>1, <3>1, <3>2
  <2> QED  BY <2>1, <2>3, <2>4, <2>5 DEF TallyInv
<1>7. CASE Refuse
  <2>1. /\ Scan /\ lowered' = lowered /\ unsupported' = Append(unsupported, graph[p].id)
        /\ graph[p].op \notin DOMAIN MacroOp /\ graph[p].op \notin {"Input", "Constant"}
    BY <1>7 DEF Refuse, Scanned, Ignored
  <2>2. graph[p].op \notin CanonicalOpKinds /\ graph[p].id \in NodeId
    BY <1>4, <2>1, KindsAgree DEF Node
  <2>3. at' = p /\ outcome' = outcome /\ outcome = "scanning"  BY <2>1 DEF Scan
  <2>4. ResidualAmong(at)' = ResidualAmong(at) \cup {graph[p].id}
    BY <1>4, <1>5, <2>1, <2>2, <2>3
  <2>5. unsupported' \in Seq(NodeId) /\ ToSet(unsupported') = ToSet(unsupported) \cup {graph[p].id}
    <3> HIDE DEF p
    <3> DEFINE e == graph[p].id
    <3>1. unsupported \in Seq(NodeId) /\ e \in NodeId /\ unsupported' = Append(unsupported, e)
      BY <2>1, <2>2 DEF TallyInv
    <3> HIDE DEF e
    <3>2. unsupported' \in Seq(NodeId)  BY <3>1
    <3>3. ToSet(unsupported') = ToSet(unsupported) \cup {e}  BY <3>1 DEF ToSet
    <3> QED  BY <3>2, <3>3 DEF e
  <2>6. Len(lowered') <= at'  BY <1>3, <2>1, <2>3 DEF TallyInv
  <2> QED  BY <2>3, <2>4, <2>5, <2>6 DEF TallyInv
<1>8. CASE Conclude
  <2>1. /\ at' = at /\ at = Len(graph) /\ lowered' = lowered /\ unsupported' = unsupported
        /\ outcome' \in {"returned", "unsupported", "duplicate"}
    BY <1>8 DEF Conclude
  <2>2. ResidualAmong(at)' = ResidualAmong(at)  BY <1>2, <2>1 DEF ResidualAmong
  <2> QED  BY <1>2, <2>1, <2>2 DEF TallyInv
<1> QED  BY <1>6, <1>7, <1>8 DEF LowerNext

(* A graph is only canonicalized before the scan, and the scan keeps both invariants. *)
LEMMA Tallied == Spec => [](OrderInv /\ ScanInv /\ TallyInv)
<1>1. Init => TallyInv
  <2> SUFFICES ASSUME Init PROVE TallyInv
    OBVIOUS
  <2>1. /\ at = 0 /\ lowered = <<>> /\ unsupported = <<>> /\ outcome = "scanning" /\ stage = 0
    BY DEF Init, LowerInit
  <2>2. ResidualAmong(at) = {} /\ ToSet(unsupported) = {} /\ unsupported \in Seq(NodeId)
    BY <2>1 DEF ResidualAmong, ToSet
  <2> QED  BY <2>1, <2>2 DEF TallyInv, PassCount
<1>2. OrderInv /\ ScanInv /\ TallyInv /\ [Next]_vars => TallyInv'
  <2> SUFFICES ASSUME OrderInv, ScanInv, TallyInv, [Next]_vars PROVE TallyInv'
    OBVIOUS
  <2>1. CASE Canonicalize
    <3>1. stage \in Nat /\ stage' = stage + 1 /\ stage' \in 0..PassCount /\ stage # PassCount
      BY <2>1 DEF Canonicalize, TallyInv, PassCount
    <3>2. at' = 0 /\ lowered' = <<>> /\ unsupported' = <<>> /\ outcome' = "scanning"
      BY <2>1, <3>1 DEF Canonicalize, ScanInv, LowerInit, lowerVars
    <3>3. ResidualAmong(at)' = {} /\ ToSet(unsupported') = {} /\ unsupported' \in Seq(NodeId)
      BY <3>2 DEF ResidualAmong, ToSet
    <3>4. Len(lowered') <= at'  BY <3>2
    <3>5. ToSet(unsupported') = ResidualAmong(at)'  BY <3>3
    <3> QED  BY <3>1, <3>2, <3>3, <3>4, <3>5 DEF TallyInv
  <2>2. CASE Lower  BY <2>2, TallyStep DEF Lower
  <2>3. CASE UNCHANGED vars
    <3>1. /\ stage' = stage /\ graph' = graph /\ at' = at /\ lowered' = lowered
          /\ unsupported' = unsupported /\ outcome' = outcome
      BY <2>3 DEF vars
    <3>2. ResidualAmong(at)' = ResidualAmong(at)  BY <3>1 DEF ResidualAmong
    <3> QED  BY <3>1, <3>2 DEF TallyInv
  <2> QED  BY <2>1, <2>2, <2>3 DEF Next
<1> QED  BY <1>1, <1>2, ScanKept, PTL DEF Spec

(* RefusesResidual: the lowering refuses the residual nodes and no others. *)
THEOREM ResidualRefused == Spec => []RefusesResidual
<1>1. OrderInv /\ TallyInv => RefusesResidual
  <2> SUFFICES ASSUME OrderInv, TallyInv, outcome \in {"returned", "unsupported"}
               PROVE  ToSet(unsupported) =
                        {v.id : v \in {w \in ToSet(graph) : w.op \notin CanonicalOpKinds}}
    BY DEF RefusesResidual
  <2>1. at = Len(graph) /\ graph \in Seq(Node) /\ ToSet(unsupported) = ResidualAmong(at)
    BY DEF TallyInv, OrderInv, Orderly
  <2>2. DOMAIN graph = 1..at  BY <2>1
  <2>3. ToSet(graph) = {graph[n] : n \in 1..at}  BY <2>2 DEF ToSet
  <2> QED  BY <2>1, <2>3 DEF ResidualAmong
<1> QED  BY <1>1, Tallied, PTL

(* TypeOK: the variables of the pipeline keep their types. *)
THEOREM TypesKept == Spec => []TypeOK
<1>1. OrderInv /\ ScanInv /\ TallyInv => TypeOK
  <2> SUFFICES ASSUME OrderInv, ScanInv, TallyInv PROVE TypeOK
    OBVIOUS
  <2>1. graph \in Seq(Node)  BY DEF OrderInv, Orderly
  <2>2. at \in 0..Len(graph) /\ at \in Nat /\ Len(graph) \in Nat  BY <2>1 DEF ScanInv
  <2>3. skipped \subseteq {graph[n].id : n \in DOMAIN graph}  BY DEF ScanInv
  <2>4. \A n \in DOMAIN lowered : lowered[n].op \in Macros
    <3>1. lowered \in Seq(LoweredNode)  BY DEF ScanInv
    <3>2. \A n \in DOMAIN lowered : lowered[n] \in LoweredNode  BY <3>1
    <3> QED  BY <3>2 DEF LoweredNode
  <2>5. ToSet(unsupported) \subseteq {graph[n].id : n \in DOMAIN graph}
    <3>1. 1..at \subseteq DOMAIN graph  BY <2>1, <2>2
    <3> QED  BY <3>1 DEF TallyInv, ResidualAmong
  <2> QED  BY <2>1, <2>2, <2>3, <2>4, <2>5 DEF TypeOK, TallyInv, Macros
<1> QED  BY <1>1, Tallied, PTL

-----------------------------------------------------------------------------
(* What the model computes and no node reads.                              *)

(* A tensor has no uses if and only if no node reads it. *)
LEMMA UnreadIs ==
  ASSUME NEW g, Orderly(g)
  PROVE  Results(g) = Unread(g)
<1>1. ASSUME NEW t PROVE (Uses(g, t) = 0) <=> t \notin Read(g)
  <2>1. Uses(g, t) = Cardinality(Readers(g, t))  BY DEF Uses, Readers
  <2>2. IsFiniteSet(Readers(g, t))  BY ReadersFinite
  <2>3. Cardinality(Readers(g, t)) = 0 <=> Readers(g, t) = {}  BY <2>2, FS_EmptySet
  <2>4. ASSUME NEW u \in Readers(g, t) PROVE t \in Read(g)
    <3>1. /\ u \in UNION {{<<n, i>> : i \in DOMAIN g[n].inputs} : n \in DOMAIN g}
          /\ g[u[1]].inputs[u[2]] = t
      BY DEF Readers
    <3>2. PICK n \in DOMAIN g : u \in {<<n, i>> : i \in DOMAIN g[n].inputs}  BY <3>1
    <3>3. PICK i \in DOMAIN g[n].inputs : u = <<n, i>>  BY <3>2
    <3>4. g[n].inputs[i] = t  BY <3>1, <3>3
    <3> QED  BY <3>4 DEF Read, ToSet
  <2>5. ASSUME t \in Read(g) PROVE Readers(g, t) # {}
    <3>1. PICK n \in DOMAIN g : t \in ToSet(g[n].inputs)  BY <2>5 DEF Read
    <3>2. PICK i \in DOMAIN g[n].inputs : g[n].inputs[i] = t  BY <3>1 DEF ToSet
    <3>3. <<n, i>> \in Readers(g, t)  BY <3>2 DEF Readers
    <3> QED  BY <3>3
  <2> QED  BY <2>1, <2>3, <2>4, <2>5
<1> QED  BY <1>1 DEF Results, Produced, Unread

(* The results that are not copies. *)
Owed == Results(source) \ Copies(source)

(* They are in the graph, and still no node reads them. *)
OwedInv ==
  /\ stage = 0 => graph = source
  /\ Owed \subseteq Unread(graph)

(* Every pass hands them on, the first because they are not copies. *)
LEMMA OwedKept == Spec => [](OrderInv /\ OwedInv)
<1>1. Init /\ OrderInv => OwedInv
  <2> SUFFICES ASSUME Init, OrderInv PROVE OwedInv
    OBVIOUS
  <2>1. graph = source /\ Orderly(graph)  BY DEF Init, OrderInv
  <2> QED  BY <2>1, UnreadIs DEF OwedInv, Owed
<1>2. OrderInv /\ OwedInv /\ [Next]_vars => OwedInv'
  <2> SUFFICES ASSUME OrderInv, OwedInv, [Next]_vars PROVE OwedInv'
    OBVIOUS
  <2>1. CASE Canonicalize
    <3>1. /\ stage + 1 \in 1..PassCount /\ stage' # 0 /\ graph' = Pass(stage + 1, graph)
          /\ Owed' = Owed /\ (stage + 1 # 1 \/ stage = 0)
      BY <2>1 DEF Canonicalize, OrderInv, PassCount, Owed
    <3>2. /\ Unread(graph) \ Copies(graph) \subseteq Unread(graph')
          /\ stage # 0 => Unread(graph) \subseteq Unread(graph')
      BY <3>1, PassKeeps DEF OrderInv, Follows
    <3>3. stage = 0 => Owed \subseteq Unread(graph) \ Copies(graph)  BY DEF OwedInv, Owed
    <3>4. Owed \subseteq Unread(graph')  BY <3>2, <3>3 DEF OwedInv
    <3> QED  BY <3>1, <3>4 DEF OwedInv
  <2>2. CASE Lower \/ UNCHANGED vars
    <3>1. stage' = stage /\ graph' = graph /\ source' = source
      BY <2>2 DEF vars, Lower, LowerNext, Drop, LowerFused, LowerAlone, Refuse, Conclude
    <3> QED  BY <3>1 DEF OwedInv, Owed
  <2> QED  BY <2>1, <2>2 DEF Next
<1> QED  BY <1>1, <1>2, OrderKept, PTL DEF Spec

(* What the nth node puts out is in what is lowered, or read, or not to be lowered. *)
Covered(n) ==
  \/ graph[n].op \in {"Input", "Constant"}
  \/ unsupported # <<>>
  \/ ToSet(graph[n].outputs) \subseteq Read(graph)
  \/ \E k \in DOMAIN lowered : lowered[k].outputs = graph[n].outputs

(* The scan covers the nodes that it has passed and the Linears that it will skip. *)
CoverInv ==
  /\ \A n \in DOMAIN graph : n <= at \/ graph[n].id \in skipped => Covered(n)
  /\ outcome = "returned" => unsupported = <<>>

(* What an Append holds. *)
LEMMA AppendHolds ==
  ASSUME NEW X, NEW s \in Seq(X), NEW v \in X
  PROVE  /\ \A k \in DOMAIN s : k \in DOMAIN Append(s, v) /\ Append(s, v)[k] = s[k]
         /\ \E k \in DOMAIN Append(s, v) : Append(s, v)[k] = v
         /\ Append(s, v) # <<>>
<1> DEFINE r == Append(s, v)
<1>1. /\ Len(s) \in Nat /\ DOMAIN s = 1..Len(s) /\ DOMAIN r = 1..(Len(s) + 1)
      /\ r[Len(s) + 1] = v /\ \A k \in 1..Len(s) : r[k] = s[k]
      /\ r # <<>>
  OBVIOUS
<1> HIDE DEF r
<1>2. Len(s) + 1 \in DOMAIN r /\ \A k \in DOMAIN s : k \in DOMAIN r  BY <1>1
<1> QED  BY <1>1, <1>2 DEF r

(* A norm that is lowered with its Linear puts out what the Linear reads and nothing else. *)
LEMMA NormRead ==
  ASSUME Orderly(graph), NEW p \in DOMAIN graph, graph[p].op = "RMSNorm",
         NEW n \in FusibleLinears(graph[p])
  PROVE  ToSet(graph[p].outputs) \subseteq Read(graph)
<1> DEFINE outs == graph[p].outputs
<1>1. /\ n \in DOMAIN graph /\ graph[n].inputs # <<>> /\ graph[n].inputs[1] = outs[1]
  BY DEF FusibleLinears
<1>2. graph[n].inputs \in Seq(Tensor)  BY <1>1, OrderlyTyped
<1>3. outs[1] \in Read(graph)
  <2>1. 1 \in DOMAIN graph[n].inputs  BY <1>1, <1>2
  <2> QED  BY <1>1, <2>1 DEF Read, ToSet
<1>4. Len(outs) \in Nat /\ DOMAIN outs = 1..Len(outs)  BY OrderlyTyped
<1>5. ~ Len(outs) > 1  BY DEF Orderly, Plural, Several
<1> HIDE DEF outs
<1>6. \A i \in DOMAIN outs : i = 1  BY <1>4, <1>5
<1> QED  BY <1>3, <1>6 DEF ToSet, outs

(* Every step of the scan covers the node it passes and a Linear it skips for it. *)
LEMMA CoverStep ==
  ASSUME OrderInv, ScanInv, TallyInv, CoverInv, LowerNext
  PROVE  CoverInv'
<1>1. /\ Orderly(graph) /\ graph \in Seq(Node) /\ graph' = graph
      /\ \A a, b \in DOMAIN graph : graph[a].id = graph[b].id => a = b
  BY DEF OrderInv, Orderly, LowerNext, Drop, LowerFused, LowerAlone, Refuse, Conclude
<1>2. /\ at \in Nat /\ Len(graph) \in Nat /\ DOMAIN graph = 1..Len(graph) /\ at <= Len(graph)
      /\ lowered \in Seq(LoweredNode) /\ unsupported \in Seq(NodeId)
  BY <1>1 DEF ScanInv, TallyInv
<1>11. PICK p \in Nat : p = at + 1  BY <1>2
<1>3. Scan => p \in DOMAIN graph /\ graph[p] \in Node /\ at' = p /\ outcome' = outcome
              /\ outcome = "scanning"
  <2> SUFFICES ASSUME Scan PROVE p \in DOMAIN graph /\ at' = p /\ outcome' = outcome
                                 /\ outcome = "scanning"
    BY <1>1
  <2> QED  BY <1>2, <1>11 DEF Scan
<1>4. Scan => \A n \in DOMAIN graph : n <= at' => n <= at \/ n = p
  <2> SUFFICES ASSUME Scan, NEW n \in DOMAIN graph, n <= at' PROVE n <= at \/ n = p  OBVIOUS
  <2>1. at' = p /\ n \in Nat  BY <1>2, <1>3
  <2> QED  BY <1>2, <1>11, <2>1
<1>5. ASSUME lowered' = lowered \/ \E v \in LoweredNode : lowered' = Append(lowered, v),
             \/ unsupported' = unsupported
             \/ \E id \in NodeId : unsupported' = Append(unsupported, id),
             NEW n \in DOMAIN graph, Covered(n)
      PROVE  Covered(n)'
  <2>1. unsupported # <<>> => unsupported' # <<>>
    BY <1>2, <1>5, AppendHolds
  <2>2. \A k \in DOMAIN lowered : k \in DOMAIN lowered' /\ lowered'[k] = lowered[k]
    <3>1. CASE lowered' = lowered  BY <3>1
    <3>2. ASSUME NEW v \in LoweredNode, lowered' = Append(lowered, v)
          PROVE  \A k \in DOMAIN lowered : k \in DOMAIN lowered' /\ lowered'[k] = lowered[k]
      <4>1. \A k \in DOMAIN lowered : /\ k \in DOMAIN Append(lowered, v)
                                      /\ Append(lowered, v)[k] = lowered[k]
        BY <1>2, AppendHolds
      <4> QED  BY <3>2, <4>1
    <3> QED  BY <1>5, <3>1, <3>2
  <2> QED  BY <1>1, <1>5, <2>1, <2>2 DEF Covered
<1>6. CASE Drop
  <2>1. /\ Scan /\ skipped' = skipped /\ lowered' = lowered /\ unsupported' = unsupported
        /\ graph[p].id \in skipped \/ graph[p].op \in {"Input", "Constant"}
    BY <1>6, <1>11 DEF Drop, Scanned, Ignored
  <2>2. Covered(p)  BY <1>3, <2>1 DEF CoverInv, Covered
  <2> QED  BY <1>1, <1>3, <1>4, <1>5, <2>1, <2>2 DEF CoverInv
<1>7. CASE LowerAlone
  <2> DEFINE v == graph[p]
             w == [v EXCEPT !.op = MacroOp[@]]
  <2>1. /\ Scan /\ skipped' = skipped /\ lowered' = Append(lowered, w)
        /\ unsupported' = unsupported /\ v.op \in DOMAIN MacroOp
    BY <1>7, <1>11 DEF LowerAlone, Scanned
  <2>2. v \in Node  BY <1>3, <2>1
  <2>3. MacroOp[v.op] \in Macros  BY <2>1 DEF Macros, Range
  <2>4. w = [v EXCEPT !.op = MacroOp[v.op]]  BY <2>2 DEF Node
  <2> DEFINE op == MacroOp[v.op]
  <2>5. w.outputs = v.outputs
    <3> HIDE DEF op, v, w
    <3> QED  BY <2>2, <2>4 DEF Node, op
  <2>6. w \in LoweredNode
    <3> HIDE DEF op, v, w
    <3>1. op \in Macros /\ w = [v EXCEPT !.op = op]  BY <2>3, <2>4 DEF op
    <3> QED  BY <2>2, <3>1, MacroTyped
  <2> HIDE DEF w
  <2>7. \E k \in DOMAIN lowered' : lowered'[k].outputs = v.outputs
    BY <1>2, <2>1, <2>5, <2>6, AppendHolds
  <2>8. Covered(p)'  BY <1>1, <2>7 DEF Covered
  <2> QED  BY <1>1, <1>3, <1>4, <1>5, <2>1, <2>6, <2>8 DEF CoverInv
<1>8. CASE LowerFused
  <2>14. PICK n0 \in Nat : /\ n0 = Smallest(FusibleLinears(graph[p]))
                          /\ n0 \in FusibleLinears(graph[p])
    <3>1. FusibleLinears(graph[p]) \subseteq Nat  BY <1>2 DEF FusibleLinears
    <3>2. FusibleLinears(graph[p]) # {}  BY <1>8, <1>11 DEF LowerFused, Scanned, Fuses
    <3> QED  BY <3>1, <3>2, SmallestIs
  <2> DEFINE v == graph[n0]
             ins == graph[p].inputs \o Tail(v.inputs)
             w == [v EXCEPT !.op = "RMSNORM_GEMM", !.inputs = ins]
  <2>1. /\ Scan /\ FusibleLinears(graph[p]) # {} /\ graph[p].op = "RMSNorm"
        /\ lowered' = Append(lowered, w) /\ skipped' = skipped \cup {v.id}
        /\ unsupported' = unsupported
    BY <1>8, <1>11, <2>14 DEF LowerFused, Scanned, Fuses
  <2>2. p \in DOMAIN graph /\ graph[p] \in Node  BY <1>3, <2>1
  <2>3. n0 \in FusibleLinears(graph[p])  BY <2>14
  <2>4. n0 \in DOMAIN graph /\ v \in Node /\ v.inputs # <<>>  BY <1>1, <2>3 DEF FusibleLinears
  <2>5. ins \in Seq(Tensor)
    <3>1. v.inputs \in Seq(Tensor) /\ graph[p].inputs \in Seq(Tensor)  BY <2>2, <2>4 DEF Node
    <3>2. Tail(v.inputs) \in Seq(Tensor)  BY <2>4, <3>1
    <3> QED  BY <3>1, <3>2
  <2> HIDE DEF ins
  <2>6. "RMSNORM_GEMM" \in Macros  BY DEF Macros
  <2> HIDE DEF v
  <2>7. w.outputs = v.outputs  BY <2>4 DEF Node
  <2>8. w \in LoweredNode  BY <2>4, <2>5, <2>6, MacroTyped, Zenon
  <2> HIDE DEF w
  <2>9. \E k \in DOMAIN lowered' : lowered'[k].outputs = v.outputs
    <3>1. \E k \in DOMAIN Append(lowered, w) : Append(lowered, w)[k] = w
      BY <1>2, <2>8, AppendHolds
    <3> QED  BY <2>1, <2>7, <3>1
  <2>10. Covered(n0)'  BY <1>1, <2>9 DEF Covered, v
  <2>11. Covered(p)
    BY <1>1, <2>1, <2>2, <2>3, NormRead DEF Covered
  <2>12. \A n \in DOMAIN graph : graph[n].id = v.id => n = n0  BY <1>1, <2>4 DEF v
  <2>13. ASSUME NEW n \in DOMAIN graph, n <= at' \/ graph[n].id \in skipped' PROVE Covered(n)'
    <3>1. n <= at \/ n = p \/ graph[n].id \in skipped \/ n = n0
      BY <1>4, <2>1, <2>12, <2>13
    <3>2. n # n0 => Covered(n)  BY <2>11, <3>1 DEF CoverInv
    <3>3. CASE n = n0  BY <2>10, <3>3
    <3>4. CASE n # n0
      <4>1. \E x \in LoweredNode : lowered' = Append(lowered, x)  BY <2>1, <2>8
      <4> QED  BY <1>5, <2>1, <3>2, <3>4, <4>1
    <3> QED  BY <3>3, <3>4
  <2> QED  BY <1>1, <1>3, <2>1, <2>13 DEF CoverInv
<1>9. CASE Refuse
  <2>1. /\ Scan /\ skipped' = skipped /\ lowered' = lowered
        /\ unsupported' = Append(unsupported, graph[p].id)
    BY <1>9, <1>11 DEF Refuse, Scanned
  <2>2. graph[p].id \in NodeId  BY <1>3, <2>1 DEF Node
  <2>3. unsupported' # <<>>  BY <1>2, <2>1, <2>2, AppendHolds
  <2> QED  BY <1>1, <1>3, <2>1, <2>3 DEF CoverInv, Covered
<1>10. CASE Conclude
  <2>1. /\ at' = at /\ skipped' = skipped /\ lowered' = lowered /\ unsupported' = unsupported
        /\ outcome' = "returned" => unsupported = <<>>
    BY <1>10 DEF Conclude
  <2> QED  BY <1>1, <2>1 DEF CoverInv, Covered
<1> QED  BY <1>6, <1>7, <1>8, <1>9, <1>10 DEF LowerNext

(* The scan covers what it has passed. *)
LEMMA CoverKept == Spec => []CoverInv
<1>1. Init => CoverInv
  <2> SUFFICES ASSUME Init PROVE CoverInv
    OBVIOUS
  <2>1. at = 0 /\ skipped = {} /\ outcome = "scanning"  BY DEF Init, LowerInit
  <2>2. model \in Models /\ graph = ImportGraph(model)  BY DEF Init
  <2>3. Orderly(graph)  BY <2>2, ModelsAssumption, ImportInOrder
  <2>4. \A n \in DOMAIN graph : ~ n <= 0  BY <2>3, OrderlyTyped
  <2> QED  BY <2>1, <2>4 DEF CoverInv
<1>2. OrderInv /\ OrderInv' /\ ScanInv /\ TallyInv /\ CoverInv /\ [Next]_vars => CoverInv'
  <2> SUFFICES ASSUME OrderInv, OrderInv', ScanInv, TallyInv, CoverInv, [Next]_vars
               PROVE  CoverInv'
    OBVIOUS
  <2>1. CASE Canonicalize
    <3>1. stage # PassCount
      BY <2>1 DEF Canonicalize, PassCount
    <3>2. at' = 0 /\ skipped' = {} /\ outcome' = "scanning"
      BY <2>1, <3>1 DEF Canonicalize, ScanInv, LowerInit, lowerVars
    <3>3. Orderly(graph')  BY DEF OrderInv
    <3>4. \A n \in DOMAIN graph' : ~ n <= 0  BY <3>3, OrderlyTyped
    <3> QED  BY <3>2, <3>4 DEF CoverInv
  <2>2. CASE Lower  BY <2>2, CoverStep DEF Lower
  <2>3. CASE UNCHANGED vars
    <3>1. /\ graph' = graph /\ at' = at /\ skipped' = skipped /\ lowered' = lowered
          /\ unsupported' = unsupported /\ outcome' = outcome
      BY <2>3 DEF vars
    <3> QED  BY <3>1 DEF CoverInv, Covered
  <2> QED  BY <2>1, <2>2, <2>3 DEF Next
<1> QED  BY <1>1, <1>2, Tallied, PTL DEF Spec

(* A result that is owed is put out by what is lowered, or is an input or a constant. *)
LEMMA NigProduces ==
  ASSUME OrderInv, ScanInv, TallyInv, CoverInv, outcome = "returned", NEW t \in Unread(graph)
  PROVE  Producers(Nig, t) # {}
<1> DEFINE S == {v \in ToSet(graph) : v.op \in {"Input", "Constant"}}
           kept == Among(graph, S)
           X == Node \cup LoweredNode
<1>1. graph \in Seq(Node) /\ Orderly(graph) /\ lowered \in Seq(LoweredNode)
      /\ DOMAIN graph = 1..Len(graph)
  BY OrderlyTyped DEF OrderInv, Orderly, ScanInv
<1>2. kept \in Seq(Node) /\ \E e : Selects(e, kept, graph, Len(graph), S)  BY <1>1, AmongIs
<1>3. PICK e : Selects(e, kept, graph, Len(graph), S)  BY <1>2
<1>4. PICK n \in Producers(graph, t) : t \notin Read(graph)  BY DEF Unread
<1>5. n \in DOMAIN graph /\ t \in ToSet(graph[n].outputs) /\ Contains(graph[n].outputs, t)
  BY <1>1, <1>4, ProducersOutput DEF Producers
<1>6. Covered(n)
  <2>1. at = Len(graph) /\ Len(graph) \in Nat  BY <1>1 DEF TallyInv
  <2>2. n <= at  BY <1>1, <1>5, <2>1
  <2> QED  BY <1>5, <2>2 DEF CoverInv
<1>7. Nig = kept \o lowered  BY DEF Nig
<1>8. Len(kept) \in Nat /\ DOMAIN kept = 1..Len(kept)
      /\ Len(lowered) \in Nat /\ DOMAIN lowered = 1..Len(lowered)
  BY <1>1, <1>2
<1> HIDE DEF kept
<1>9. CASE graph[n].op \in {"Input", "Constant"}
  <2>1. graph[n] \in S  BY <1>5, <1>9 DEF ToSet
  <2>2. PICK a \in DOMAIN kept : e[a] = n  BY <1>1, <1>3, <1>5, <2>1 DEF Selects
  <2>3. kept[a] = graph[n]  BY <1>3, <2>2 DEF Selects
  <2>4. a \in DOMAIN Nig /\ Nig[a] = graph[n]  BY <1>1, <1>2, <1>7, <1>8, <2>2, <2>3
  <2> QED  BY <1>5, <2>4 DEF Producers
<1>10. CASE \E k \in DOMAIN lowered : lowered[k].outputs = graph[n].outputs
  <2>1. PICK k \in DOMAIN lowered : lowered[k].outputs = graph[n].outputs  BY <1>10
  <2> DEFINE a == Len(kept) + k
  <2>2. a \in DOMAIN Nig /\ Nig[a] = lowered[k]  BY <1>1, <1>2, <1>7, <1>8, <2>1
  <2> HIDE DEF a
  <2>3. Contains(Nig[a].outputs, t)  BY <1>5, <2>1, <2>2
  <2> QED  BY <2>2, <2>3 DEF Producers
<1> QED  BY <1>4, <1>5, <1>6, <1>9, <1>10 DEF Covered, CoverInv

(* ResultsKept: what the model computes and no node reads, copies aside, every pass hands
   on under its name, and what is lowered computes it. *)
THEOREM ResultsStay == Spec => []ResultsKept
<1>1. OrderInv /\ ScanInv /\ TallyInv /\ OwedInv /\ CoverInv => ResultsKept
  <2> SUFFICES ASSUME OrderInv, ScanInv, TallyInv, OwedInv, CoverInv, NEW t \in Owed
               PROVE  t \in Produced(Now)
    BY DEF ResultsKept, Owed
  <2>1. t \in Unread(graph) /\ t \in Tensor /\ Producers(graph, t) # {}
    BY DEF OwedInv, Unread
  <2>2. CASE outcome = "returned"
    <3>1. Producers(Nig, t) # {}  BY <2>1, <2>2, NigProduces
    <3> QED  BY <2>1, <2>2, <3>1 DEF Now, Produced
  <2>3. CASE outcome # "returned"  BY <2>1, <2>3 DEF Now, Produced
  <2> QED  BY <2>2, <2>3
<1> QED  BY <1>1, Tallied, OwedKept, CoverKept, PTL
=============================================================================
