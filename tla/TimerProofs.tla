----------------------------- MODULE TimerProofs -----------------------------
(***************************************************************************)
(* Proofs about TimeHeap and IdleTimer.                                    *)
(*                                                                         *)
(* PercolateUp and percolate_down are recursive functions.  Upward and     *)
(* Downward are their equations; that a function solves them, and what the *)
(* solution does, is shown of a least index at which it would fail.  Risen *)
(* and Sunk say what the percolations do to an array, and Grown and Moved  *)
(* what is left of that for add_timer() and pop_timer().                   *)
(*                                                                         *)
(* HeapInv is the inductive invariant of TimeHeap: the heap is well formed *)
(* and only timers that were added are deleted.  IdleInv is that of        *)
(* IdleTimer, where the same timer may be in several cells and the heap    *)
(* need not be in order: the timers in it that have a callback are those   *)
(* of the open connections (Matching), due three slots after the last use, *)
(* and the alarm is in exactly one place (AlarmOnce).                      *)
(***************************************************************************)
EXTENDS IdleTimer, WellFoundedInduction, FiniteSetTheorems, TLAPS

LEMMA Smallest ==
  ASSUME NEW D, D \subseteq Nat, D # {}
  PROVE  \E x \in D : \A y \in D : x <= y
<1>1. PICK x \in D : \A y \in D : <<y, x>> \notin OpToRel(<, Nat)
  BY NatLessThanWellFounded, WFMin, Zenon
<1>2. \A y \in D : ~(y < x)
  <2> SUFFICES ASSUME NEW y \in D, y < x PROVE FALSE
    OBVIOUS
  <2>1. <<y, x>> \in Nat \X Nat /\ <<y, x>>[1] < <<y, x>>[2]
    OBVIOUS
  <2> QED BY <1>1, <2>1, Zenon DEF OpToRel
<1> QED BY <1>2

LEMMA ParentBelow ==
  ASSUME NEW i \in Nat, i # 0
  PROVE  /\ Parent(i) \in 0 .. i - 1
         /\ i = 2 * Parent(i) + 1 \/ i = 2 * Parent(i) + 2
BY DEF Parent

LEMMA ParentMonotone ==
  ASSUME NEW i \in Nat, NEW j \in Nat, i # 0, j # 0, i <= j
  PROVE  Parent(i) <= Parent(j)
BY DEF Parent

-----------------------------------------------------------------------------
(* PercolateUp                                                             *)
Upward(f, a, hole, t, ex) ==
  f = [i \in 0 .. hole |->
         IF i = 0 \/ ex[a[Parent(i)]] <= ex[t]
         THEN [a EXCEPT ![i] = t]
         ELSE [f[Parent(i)] EXCEPT ![i] = a[Parent(i)]]]

LEMMA UpwardExists ==
  ASSUME NEW a, NEW hole \in Nat, NEW t, NEW ex
  PROVE  \E f : Upward(f, a, hole, t, ex)
<1> DEFINE Body(f, i) == IF i = 0 \/ ex[a[Parent(i)]] <= ex[t]
                         THEN [a EXCEPT ![i] = t]
                         ELSE [f[Parent(i)] EXCEPT ![i] = a[Parent(i)]]
           Sat(f, m) == f = [i \in 0 .. m |-> Body(f, i)]
           D == {m \in Nat : ~ \E f : Sat(f, m)}
<1>1. ASSUME D # {} PROVE FALSE
  <2>1. PICK m \in D : \A y \in D : m <= y
    <3>1. D \subseteq Nat
      OBVIOUS
    <3> HIDE DEF D
    <3> QED BY <1>1, <3>1, Smallest
  <2>2. CASE m = 0
    <3> DEFINE g == [i \in 0 .. 0 |-> [a EXCEPT ![i] = t]]
    <3>1. Sat(g, 0)
      OBVIOUS
    <3> QED BY <3>1, <2>1, <2>2
  <2>3. CASE m # 0
    <3>1. m - 1 \in Nat /\ m \in Nat /\ m - 1 \notin D
      <4>1. D \subseteq Nat
        OBVIOUS
      <4> HIDE DEF D
      <4> QED BY <4>1, <2>1, <2>3
    <3>2. PICK f : Sat(f, m - 1)
      BY <3>1
    <3> DEFINE g == [i \in 0 .. m |-> IF i = m THEN Body(f, m) ELSE f[i]]
    <3>3. ASSUME NEW i \in 0 .. m - 1 PROVE f[i] = Body(f, i) /\ g[i] = f[i]
      <4>1. i # m /\ i \in 0 .. m
        BY <3>1
      <4>2. g[i] = f[i]
        BY <4>1
      <4> HIDE DEF Body, g
      <4>3. f[i] = Body(f, i)
        BY <3>2
      <4> QED BY <4>2, <4>3
    <3>4. ASSUME NEW i \in 0 .. m PROVE Body(g, i) = Body(f, i)
      <4>1. CASE i = 0
        BY <4>1
      <4>2. CASE i # 0
        <5>1. g[Parent(i)] = f[Parent(i)]
          BY <3>1, <3>3, <4>2, ParentBelow
        <5> HIDE DEF g
        <5> QED BY <5>1
      <4> QED BY <4>1, <4>2
    <3>5. ASSUME NEW i \in 0 .. m PROVE g[i] = Body(f, i)
      <4>1. CASE i = m
        BY <4>1
      <4>2. CASE i # m
        <5>1. i \in 0 .. m - 1
          BY <4>2, <3>1
        <5> HIDE DEF g, Body
        <5> QED BY <5>1, <3>3
      <4> QED BY <4>1, <4>2
    <3>6. Sat(g, m)
      <4>1. g = [i \in 0 .. m |-> g[i]]
        OBVIOUS
      <4>2. \A i \in 0 .. m : g[i] = Body(g, i)
        BY <3>4, <3>5
      <4> HIDE DEF g, Body
      <4> QED BY <4>1, <4>2
    <3> QED BY <3>6, <2>1
  <2> QED BY <2>2, <2>3
<1>2. PICK f : Sat(f, hole)
  BY <1>1
<1> QED BY <1>2 DEF Upward

-----------------------------------------------------------------------------
Cells(c) == [0 .. c - 1 -> Timers \union {NULL}]

(* Of the first n cells of a: all hold timers, no two the same, and in     *)
(* heap order.                                                             *)
Used(a, n) == \A x \in 0 .. n - 1 : a[x] \in Timers

Distinct(a, n) == \A x, y \in 0 .. n - 1 : a[x] = a[y] => x = y

Heaped(a, n, ex) == \A x \in 1 .. n - 1 : ex[a[Parent(x)]] <= ex[a[x]]

Without(a, n, t) == \A x \in 0 .. n - 1 : a[x] # t

(* The first n + 1 cells of f hold t and what the first n of a hold.       *)
Holds(f, n, a, t) ==
  /\ \A x \in 0 .. n : f[x] = t \/ \E y \in 0 .. n - 1 : f[x] = a[y]
  /\ \E x \in 0 .. n : f[x] = t
  /\ \A y \in 0 .. n - 1 : \E x \in 0 .. n : f[x] = a[y]

(* t has been put into a at cell n or above it.                            *)
Risen(f, n, a, t, ex, c) ==
  /\ f \in Cells(c) /\ \A x \in n + 1 .. c - 1 : f[x] = a[x]
  /\ Holds(f, n, a, t)
  /\ Distinct(a, n) /\ Without(a, n, t) => Distinct(f, n + 1)
  /\ Heaped(a, n, ex) => Heaped(f, n + 1, ex)
  /\ Used(a, n + 1) /\ Heaped(a, n + 1, ex) /\ ex[t] <= ex[a[n]] =>
       \A y \in 0 .. n : ex[f[y]] <= ex[a[y]]

LEMMA RisenHere ==
  ASSUME NEW c \in Nat, NEW a \in Cells(c), NEW ex \in [Timers -> Nat],
         NEW t \in Timers, NEW n \in 0 .. c - 1, Used(a, n),
         n = 0 \/ ex[a[Parent(n)]] <= ex[t]
  PROVE  Risen([a EXCEPT ![n] = t], n, a, t, ex, c)
<1> DEFINE f == [a EXCEPT ![n] = t]
<1>1. f \in Cells(c) /\ \A x \in 0 .. c - 1 : f[x] = IF x = n THEN t ELSE a[x]
  BY DEF Cells
<1> HIDE DEF f
<1>2. \A x \in n + 1 .. c - 1 : f[x] = a[x]
  BY <1>1
<1>3. f[n] = t /\ \A x \in 0 .. n - 1 : f[x] = a[x] /\ x \in 0 .. n
  BY <1>1
<1>4. Holds(f, n, a, t)
  BY <1>3 DEF Holds
<1>5. Distinct(a, n) /\ Without(a, n, t) => Distinct(f, n + 1)
  BY <1>3 DEF Distinct, Without
<1>6. Heaped(a, n, ex) => Heaped(f, n + 1, ex)
  <2> SUFFICES ASSUME Heaped(a, n, ex), NEW x \in 1 .. n
               PROVE  ex[f[Parent(x)]] <= ex[f[x]]
    BY DEF Heaped
  <2>1. Parent(x) \in 0 .. x - 1
    BY ParentBelow
  <2>2. f[Parent(x)] = a[Parent(x)]
    BY <1>3, <2>1
  <2>3. CASE x = n
    BY <1>3, <2>2, <2>3
  <2>4. CASE x # n
    BY <1>3, <2>2, <2>4 DEF Heaped
  <2> QED BY <2>3, <2>4
<1>7. Used(a, n + 1) /\ Heaped(a, n + 1, ex) /\ ex[t] <= ex[a[n]] =>
        \A y \in 0 .. n : ex[f[y]] <= ex[a[y]]
  <2> SUFFICES ASSUME Used(a, n + 1), ex[t] <= ex[a[n]], NEW y \in 0 .. n
               PROVE  ex[f[y]] <= ex[a[y]]
    OBVIOUS
  <2>1. CASE y = n
    BY <1>3, <2>1
  <2>2. CASE y # n
    <3>1. f[y] = a[y] /\ a[y] \in Timers
      BY <1>3, <2>2 DEF Used
    <3> QED BY <3>1
  <2> QED BY <2>1, <2>2
<1> QED BY <1>1, <1>2, <1>4, <1>5, <1>6, <1>7 DEF Risen, f

LEMMA RisenAbove ==
  ASSUME NEW c \in Nat, NEW a \in Cells(c), NEW ex \in [Timers -> Nat],
         NEW t \in Timers, NEW n \in 1 .. c - 1, Used(a, n),
         NEW p, p = Parent(n), ex[t] < ex[a[p]],
         NEW g, Risen(g, p, a, t, ex, c)
  PROVE  Risen([g EXCEPT ![n] = a[p]], n, a, t, ex, c)
<1> DEFINE f == [g EXCEPT ![n] = a[p]]
<1>0. p \in 0 .. n - 1 /\ p \in 0 .. c - 1 /\ a[p] \in Timers
  BY ParentBelow DEF Used
<1>1. f \in Cells(c) /\ \A x \in 0 .. c - 1 : f[x] = IF x = n THEN a[p] ELSE g[x]
  BY <1>0 DEF Cells, Risen
<1> HIDE DEF f
<1>2. /\ f[n] = a[p]
      /\ \A x \in 0 .. p : f[x] = g[x]
      /\ \A x \in p + 1 .. n - 1 : f[x] = a[x]
      /\ \A x \in n + 1 .. c - 1 : f[x] = a[x]
  <2>1. \A x \in p + 1 .. c - 1 : g[x] = a[x]
    BY DEF Risen
  <2> QED BY <1>0, <1>1, <2>1
<1>3. Holds(f, n, a, t)
  <2>1. ASSUME NEW x \in 0 .. n
        PROVE  f[x] = t \/ \E y \in 0 .. n - 1 : f[x] = a[y]
    <3>1. CASE x \in 0 .. p
      <4>1. g[x] = t \/ \E y \in 0 .. p - 1 : g[x] = a[y]
        BY <3>1 DEF Risen, Holds
      <4> QED BY <4>1, <3>1, <1>0, <1>2
    <3>2. CASE x \in p + 1 .. n - 1
      BY <3>2, <1>0, <1>2
    <3>3. CASE x = n
      BY <3>3, <1>0, <1>2
    <3> QED BY <3>1, <3>2, <3>3, <1>0
  <2>2. \E x \in 0 .. n : f[x] = t
    <3>1. PICK x \in 0 .. p : g[x] = t
      BY DEF Risen, Holds
    <3> QED BY <3>1, <1>0, <1>2
  <2>3. ASSUME NEW y \in 0 .. n - 1 PROVE \E x \in 0 .. n : f[x] = a[y]
    <3>1. CASE y \in 0 .. p - 1
      <4>1. PICK x \in 0 .. p : g[x] = a[y]
        BY <3>1 DEF Risen, Holds
      <4> QED BY <4>1, <1>0, <1>2
    <3>2. CASE y = p
      BY <3>2, <1>2
    <3>3. CASE y \in p + 1 .. n - 1
      BY <3>3, <1>2, <1>0
    <3> QED BY <3>1, <3>2, <3>3, <1>0
  <2> QED BY <2>1, <2>2, <2>3 DEF Holds
<1>4. Distinct(a, n) /\ Without(a, n, t) => Distinct(f, n + 1)
  <2> SUFFICES ASSUME Distinct(a, n), Without(a, n, t),
                      NEW x \in 0 .. n, NEW y \in 0 .. n, f[x] = f[y], x < y
               PROVE  FALSE
    BY DEF Distinct
  <2>1. Distinct(g, p + 1)
    <3>1. Distinct(a, p) /\ Without(a, p, t)
      BY <1>0 DEF Distinct, Without
    <3> QED BY <3>1 DEF Risen
  <2>2. \A z \in 0 .. p : f[z] = t \/ \E u \in 0 .. p - 1 : f[z] = a[u]
    BY <1>2 DEF Risen, Holds
  <2>3. CASE y \in 0 .. p
    BY <2>1, <2>3, <1>0, <1>2 DEF Distinct
  <2>4. CASE y \notin 0 .. p
    <3>1. PICK v \in p .. n - 1 : f[y] = a[v] /\ (y # n => v = y) /\ (y = n => v = p)
      <4>1. CASE y = n
        BY <4>1, <1>0, <1>2
      <4>2. CASE y # n
        <5>1. y \in p + 1 .. n - 1
          BY <4>2, <2>4, <1>0
        <5> QED BY <5>1, <4>2, <1>0, <1>2
      <4> QED BY <4>1, <4>2
    <3>2. CASE x \in 0 .. p
      <4>1. f[x] = t \/ \E u \in 0 .. p - 1 : f[x] = a[u]
        BY <3>2, <2>2
      <4>2. v \in 0 .. n - 1
        BY <1>0, <3>1
      <4>3. f[x] # t
        BY <3>1, <4>2 DEF Without
      <4>4. PICK u \in 0 .. p - 1 : a[u] = a[v]
        BY <4>1, <4>3, <3>1
      <4>5. u \in 0 .. n - 1 /\ u # v
        BY <1>0, <3>1, <4>2
      <4> QED BY <4>2, <4>4, <4>5 DEF Distinct
    <3>3. CASE x \in p + 1 .. n - 1
      <4>1. f[x] = a[x] /\ x \in 0 .. n - 1 /\ v \in 0 .. n - 1 /\ x # v
        BY <3>1, <3>3, <1>0, <1>2
      <4> QED BY <3>1, <4>1 DEF Distinct
    <3> QED BY <3>2, <3>3, <1>0
  <2> QED BY <2>3, <2>4
<1>5. ASSUME Heaped(a, n, ex)
      PROVE  \A y \in 0 .. p : ex[g[y]] <= ex[a[y]]
  <2>1. Used(a, p + 1) /\ Heaped(a, p + 1, ex)
    BY <1>0, <1>5 DEF Used, Heaped
  <2>2. ex[t] <= ex[a[p]]
    BY <1>0
  <2> QED BY <2>1, <2>2 DEF Risen
<1>6. ASSUME NEW y \in 0 .. p PROVE g[y] \in Timers
  <2>1. g[y] = t \/ \E u \in 0 .. p - 1 : g[y] = a[u]
    BY DEF Risen, Holds
  <2> QED BY <2>1, <1>0 DEF Used
<1>7. Heaped(a, n, ex) => Heaped(f, n + 1, ex)
  <2> SUFFICES ASSUME Heaped(a, n, ex), NEW x \in 1 .. n
               PROVE  ex[f[Parent(x)]] <= ex[f[x]]
    BY DEF Heaped
  <2>1. Parent(x) \in 0 .. x - 1 /\ Parent(x) \in 0 .. p
    BY ParentBelow, ParentMonotone
  <2>2. f[Parent(x)] = g[Parent(x)] /\ ex[g[Parent(x)]] <= ex[a[Parent(x)]]
    BY <1>2, <1>5, <2>1
  <2>3. g[Parent(x)] \in Timers
    BY <1>6, <2>1
  <2>4. CASE x \in 1 .. p
    <3>1. Heaped(g, p + 1, ex)
      <4>1. Heaped(a, p, ex)
        BY <1>0 DEF Heaped
      <4> QED BY <4>1 DEF Risen
    <3>2. f[x] = g[x]
      BY <2>4, <1>2
    <3>3. ex[g[Parent(x)]] <= ex[g[x]]
      BY <2>4, <3>1, <1>0 DEF Heaped
    <3> QED BY <2>2, <3>2, <3>3
  <2>5. CASE x \in p + 1 .. n - 1
    <3>1. f[x] = a[x] /\ ex[a[Parent(x)]] <= ex[a[x]]
      BY <2>5, <1>0, <1>2 DEF Heaped
    <3>2. a[Parent(x)] \in Timers /\ a[x] \in Timers
      BY <2>1, <2>5, <1>0 DEF Used
    <3> QED BY <3>1, <3>2, <2>2, <2>3
  <2>6. CASE x = n
    BY <2>6, <2>2, <1>2
  <2> QED BY <2>4, <2>5, <2>6, <1>0
<1>8. Used(a, n + 1) /\ Heaped(a, n + 1, ex) /\ ex[t] <= ex[a[n]] =>
        \A y \in 0 .. n : ex[f[y]] <= ex[a[y]]
  <2> SUFFICES ASSUME Used(a, n + 1), Heaped(a, n + 1, ex), NEW y \in 0 .. n
               PROVE  ex[f[y]] <= ex[a[y]]
    OBVIOUS
  <2>1. a[y] \in Timers /\ Heaped(a, n, ex)
    BY DEF Used, Heaped
  <2>2. CASE y \in 0 .. p
    BY <2>1, <2>2, <1>2, <1>5
  <2>3. CASE y \in p + 1 .. n - 1
    BY <2>1, <2>3, <1>2
  <2>4. CASE y = n
    BY <2>4, <1>2 DEF Heaped
  <2> QED BY <2>2, <2>3, <2>4, <1>0
<1> QED BY <1>1, <1>2, <1>3, <1>4, <1>7, <1>8 DEF Risen, f

(* The insertion of add_timer().                                           *)
LEMMA PercolateUpRises ==
  ASSUME NEW c \in Nat, NEW a \in Cells(c), NEW ex \in [Timers -> Nat],
         NEW t \in Timers, NEW hole \in 0 .. c - 1, Used(a, hole)
  PROVE  Risen(PercolateUp(a, hole, t, ex), hole, a, t, ex, c)
<1>1. PICK up : Upward(up, a, hole, t, ex) /\ PercolateUp(a, hole, t, ex) = up[hole]
  <2>1. \E f : Upward(f, a, hole, t, ex)
    <3>1. hole \in Nat
      OBVIOUS
    <3> QED BY <3>1, UpwardExists, Zenon
  <2>2. PercolateUp(a, hole, t, ex) = (CHOOSE f : Upward(f, a, hole, t, ex))[hole]
    BY DEF PercolateUp, Upward
  <2> QED BY <2>1, <2>2
<1>2. \A i \in 0 .. hole :
        up[i] = IF i = 0 \/ ex[a[Parent(i)]] <= ex[t]
                THEN [a EXCEPT ![i] = t]
                ELSE [up[Parent(i)] EXCEPT ![i] = a[Parent(i)]]
  BY <1>1 DEF Upward
<1> DEFINE D == {i \in 0 .. hole : ~Risen(up[i], i, a, t, ex, c)}
<1>3. ASSUME D # {} PROVE FALSE
  <2>1. PICK i \in D : \A j \in D : i <= j
    <3>1. D \subseteq Nat
      OBVIOUS
    <3> HIDE DEF D
    <3> QED BY <1>3, <3>1, Smallest
  <2>2. i \in 0 .. hole /\ ~Risen(up[i], i, a, t, ex, c) /\ Used(a, i)
    BY <2>1 DEF Used
  <2>3. CASE i = 0 \/ ex[a[Parent(i)]] <= ex[t]
    <3>1. up[i] = [a EXCEPT ![i] = t]
      BY <1>2, <2>2, <2>3
    <3> QED BY <3>1, <2>2, <2>3, RisenHere
  <2>4. CASE ~(i = 0 \/ ex[a[Parent(i)]] <= ex[t])
    <3>1. PICK p : p = Parent(i)
      OBVIOUS
    <3>2. p \in 0 .. i - 1 /\ p \in 0 .. hole /\ p \notin D
      <4>1. p \in 0 .. i - 1
        BY <2>2, <2>4, <3>1, ParentBelow
      <4>2. ~(i <= p)
        BY <4>1, <2>2
      <4> HIDE DEF D
      <4> QED BY <4>1, <4>2, <2>1, <2>2
    <3>3. Risen(up[p], p, a, t, ex, c)
      BY <3>2
    <3>4. up[i] = [up[p] EXCEPT ![i] = a[p]]
      BY <1>2, <2>2, <2>4, <3>1
    <3>5. ex[t] < ex[a[p]]
      BY <2>2, <2>4, <3>1, <3>2 DEF Used
    <3> QED BY <2>2, <3>1, <3>2, <3>3, <3>4, <3>5, RisenAbove
  <2> QED BY <2>3, <2>4
<1>4. hole \in 0 .. hole
  OBVIOUS
<1> QED BY <1>1, <1>3, <1>4

-----------------------------------------------------------------------------
Downward(f, a, n) ==
  f = [h \in 0 .. capacity - 1 |->
         IF 2 * h + 1 <= n - 1 /\ expire[a[SmallerChild(a, h, n)]] < expire[a[0]]
         THEN [f[SmallerChild(a, h, n)] EXCEPT ![h] = a[SmallerChild(a, h, n)]]
         ELSE [a EXCEPT ![h] = a[0]]]

LEMMA ChildBelow ==
  ASSUME NEW a, NEW h \in Nat, NEW n \in Nat, 2 * h + 1 <= n - 1
  PROVE  /\ SmallerChild(a, h, n) \in h + 1 .. n - 1
         /\ Parent(SmallerChild(a, h, n)) = h
BY DEF SmallerChild, Parent

LEMMA DownwardExists ==
  ASSUME NEW a, capacity \in Nat, NEW n \in 0 .. capacity
  PROVE  \E f : Downward(f, a, n)
<1> DEFINE Body(f, h) ==
             IF 2 * h + 1 <= n - 1 /\ expire[a[SmallerChild(a, h, n)]] < expire[a[0]]
             THEN [f[SmallerChild(a, h, n)] EXCEPT ![h] = a[SmallerChild(a, h, n)]]
             ELSE [a EXCEPT ![h] = a[0]]
           Sat(f, m) == f = [h \in m .. capacity - 1 |-> Body(f, h)]
           D == {m \in 0 .. capacity : ~ \E f : Sat(f, capacity - m)}
<1>1. ASSUME D # {} PROVE FALSE
  <2>1. PICK m \in D : \A y \in D : m <= y
    <3>1. D \subseteq Nat
      OBVIOUS
    <3> HIDE DEF D
    <3> QED BY <1>1, <3>1, Smallest
  <2>2. CASE m = 0
    <3> DEFINE g == [h \in capacity .. capacity - 1 |-> 0]
    <3>1. Sat(g, capacity)
      <4>1. capacity .. capacity - 1 = {}
        OBVIOUS
      <4> HIDE DEF Body
      <4> QED BY <4>1
    <3>2. capacity - m = capacity
      BY <2>2
    <3> HIDE DEF Sat
    <3> QED BY <3>1, <3>2, <2>1
  <2>3. CASE m # 0
    <3>0. PICK b \in 0 .. capacity - 1 : b = capacity - m /\ capacity - (m - 1) = b + 1
      BY <2>1, <2>3
    <3>1. m - 1 \in 0 .. capacity /\ m - 1 \notin D
      <4>1. D \subseteq 0 .. capacity
        OBVIOUS
      <4> HIDE DEF D
      <4> QED BY <4>1, <2>1, <2>3
    <3>2. PICK f : Sat(f, b + 1)
      BY <3>0, <3>1
    <3> DEFINE g == [h \in b .. capacity - 1 |-> IF h = b THEN Body(f, b) ELSE f[h]]
    <3>3. ASSUME NEW h \in b + 1 .. capacity - 1 PROVE f[h] = Body(f, h) /\ g[h] = f[h]
      <4>1. h # b /\ h \in b .. capacity - 1
        BY <3>0
      <4>2. g[h] = f[h]
        BY <4>1
      <4> HIDE DEF Body, g
      <4>3. f[h] = Body(f, h)
        BY <3>2
      <4> QED BY <4>2, <4>3
    <3>4. ASSUME NEW h \in b .. capacity - 1 PROVE Body(g, h) = Body(f, h)
      <4>1. CASE ~(2 * h + 1 <= n - 1)
        BY <4>1
      <4>2. CASE 2 * h + 1 <= n - 1
        <5>1. PICK s : s = SmallerChild(a, h, n)
          OBVIOUS
        <5>2. h \in Nat /\ n \in Nat
          BY <3>0
        <5>3. s \in h + 1 .. n - 1
          BY <4>2, <5>1, <5>2, ChildBelow
        <5>4. s \in b + 1 .. capacity - 1
          BY <5>3, <3>0
        <5>5. g[s] = f[s]
          BY <5>4, <3>3
        <5> HIDE DEF g
        <5> QED BY <5>1, <5>5
      <4> QED BY <4>1, <4>2
    <3>5. ASSUME NEW h \in b .. capacity - 1 PROVE g[h] = Body(f, h)
      <4>1. CASE h = b
        BY <4>1
      <4>2. CASE h # b
        <5>1. h \in b + 1 .. capacity - 1
          BY <4>2, <3>0
        <5> HIDE DEF g, Body
        <5> QED BY <5>1, <3>3
      <4> QED BY <4>1, <4>2
    <3>6. Sat(g, b)
      <4>1. g = [h \in b .. capacity - 1 |-> g[h]]
        OBVIOUS
      <4>2. \A h \in b .. capacity - 1 : g[h] = Body(g, h)
        BY <3>4, <3>5
      <4> HIDE DEF g, Body
      <4> QED BY <4>1, <4>2
    <3> HIDE DEF Sat, g
    <3> QED BY <3>6, <2>1, <3>0
  <2> QED BY <2>2, <2>3
<1>2. ASSUME NEW m \in 0 .. capacity PROVE \E f : Sat(f, capacity - m)
  <2> HIDE DEF Sat
  <2> QED BY <1>1
<1>3. PICK f : Sat(f, 0)
  <2>1. capacity \in 0 .. capacity /\ capacity - capacity = 0
    OBVIOUS
  <2> HIDE DEF Sat
  <2> QED BY <1>2, <2>1
<1> QED BY <1>3 DEF Downward, Sat

(* From cell h on, the first n cells.                                      *)
HeapedFrom(a, h, n) ==
  \A x \in 1 .. n - 1 : Parent(x) >= h => expire[a[Parent(x)]] <= expire[a[x]]

(* What was in cell 0, t, has sunk from cell h in a, or stayed there.      *)
Sunk(f, h, n, a, t) ==
  /\ f \in Cells(capacity) /\ \A x \in 0 .. h - 1 : f[x] = a[x]
  /\ \A x \in h .. n - 1 : f[x] = t \/ \E y \in h + 1 .. n - 1 : f[x] = a[y]
  /\ \E x \in h .. n - 1 : f[x] = t
  /\ \A y \in h + 1 .. n - 1 : \E x \in h .. n - 1 : f[x] = a[y]
  /\ /\ \A x, y \in h + 1 .. n - 1 : a[x] = a[y] => x = y
     /\ \A x \in h + 1 .. n - 1 : a[x] # t
     => \A x, y \in h .. n - 1 : f[x] = f[y] => x = y
  /\ HeapedFrom(a, h + 1, n) => HeapedFrom(f, h, n)
  /\ HeapedFrom(a, h, n) /\ expire[a[h]] <= expire[t] =>
       \A y \in h .. n - 1 : expire[a[y]] <= expire[f[y]]

LEMMA SmallestChild ==
  ASSUME NEW a, NEW h \in Nat, NEW n \in Nat, 2 * h + 1 <= n - 1, Used(a, n),
         expire \in [Timers -> Nat], NEW s, s = SmallerChild(a, h, n)
  PROVE  \A x \in 1 .. n - 1 : Parent(x) = h => expire[a[s]] <= expire[a[x]]
<1> SUFFICES ASSUME NEW x \in 1 .. n - 1, Parent(x) = h
             PROVE  expire[a[s]] <= expire[a[x]]
  OBVIOUS
<1>1. x = 2 * h + 1 \/ x = 2 * h + 2
  BY ParentBelow
<1>2. a[x] \in Timers /\ a[2 * h + 1] \in Timers
  BY DEF Used
<1>3. CASE x = 2 * h + 1
  <2>1. CASE s = x
    BY <1>2, <2>1
  <2>2. CASE s # x
    <3>1. s = x + 1 /\ expire[a[x + 1]] < expire[a[x]]
      BY <1>3, <2>2 DEF SmallerChild
    <3>2. x + 1 \in 0 .. n - 1
      BY <1>3, <2>2 DEF SmallerChild
    <3>3. a[x + 1] \in Timers
      BY <3>2 DEF Used
    <3> QED BY <1>2, <3>1, <3>3
  <2> QED BY <2>1, <2>2
<1>4. CASE x = 2 * h + 2
  <2>1. (2 * h + 1) + 1 = x /\ 2 * h + 1 < n - 1
    BY <1>4
  <2> QED BY <1>2, <2>1 DEF SmallerChild
<1> QED BY <1>1, <1>3, <1>4

LEMMA SunkHere ==
  ASSUME capacity \in Nat, expire \in [Timers -> Nat],
         NEW a \in Cells(capacity), NEW n \in 1 .. capacity, Used(a, n),
         NEW h \in 0 .. n - 1, NEW t \in Timers,
         \A x \in 1 .. n - 1 : Parent(x) = h => expire[t] <= expire[a[x]]
  PROVE  Sunk([a EXCEPT ![h] = t], h, n, a, t)
<1> DEFINE f == [a EXCEPT ![h] = t]
<1>1. f \in Cells(capacity) /\ \A x \in 0 .. capacity - 1 : f[x] = IF x = h THEN t ELSE a[x]
  BY DEF Cells
<1> HIDE DEF f
<1>2. /\ f[h] = t
      /\ \A x \in 0 .. h - 1 : f[x] = a[x]
      /\ \A x \in h + 1 .. n - 1 : f[x] = a[x]
  BY <1>1
<1>3. /\ \A x \in h .. n - 1 : f[x] = t \/ \E y \in h + 1 .. n - 1 : f[x] = a[y]
      /\ \E x \in h .. n - 1 : f[x] = t
      /\ \A y \in h + 1 .. n - 1 : \E x \in h .. n - 1 : f[x] = a[y]
  <2>1. \A x \in h .. n - 1 : x = h \/ x \in h + 1 .. n - 1
    OBVIOUS
  <2>2. h \in h .. n - 1 /\ \A x \in h + 1 .. n - 1 : x \in h .. n - 1
    OBVIOUS
  <2> QED BY <1>2, <2>1, <2>2
<1>4. /\ \A x, y \in h + 1 .. n - 1 : a[x] = a[y] => x = y
      /\ \A x \in h + 1 .. n - 1 : a[x] # t
      => \A x, y \in h .. n - 1 : f[x] = f[y] => x = y
  <2>1. \A x \in h .. n - 1 : x = h \/ x \in h + 1 .. n - 1
    OBVIOUS
  <2> QED BY <1>2, <2>1
<1>5. HeapedFrom(a, h + 1, n) => HeapedFrom(f, h, n)
  <2> SUFFICES ASSUME HeapedFrom(a, h + 1, n), NEW x \in 1 .. n - 1, Parent(x) >= h
               PROVE  expire[f[Parent(x)]] <= expire[f[x]]
    BY DEF HeapedFrom
  <2>1. Parent(x) \in 0 .. x - 1
    BY ParentBelow
  <2>2. x \in h + 1 .. n - 1 /\ f[x] = a[x]
    BY <2>1, <1>2
  <2>3. CASE Parent(x) = h
    BY <2>2, <2>3, <1>2
  <2>4. CASE Parent(x) # h
    <3>1. Parent(x) \in h + 1 .. n - 1
      BY <2>1, <2>4
    <3> QED BY <3>1, <2>2, <1>2 DEF HeapedFrom
  <2> QED BY <2>3, <2>4
<1>6. HeapedFrom(a, h, n) /\ expire[a[h]] <= expire[t] =>
        \A y \in h .. n - 1 : expire[a[y]] <= expire[f[y]]
  <2> SUFFICES ASSUME expire[a[h]] <= expire[t], NEW y \in h .. n - 1
               PROVE  expire[a[y]] <= expire[f[y]]
    OBVIOUS
  <2>1. CASE y = h
    BY <2>1, <1>2
  <2>2. CASE y # h
    <3>1. y \in h + 1 .. n - 1 /\ a[y] \in Timers
      BY <2>2 DEF Used
    <3>2. f[y] = a[y]
      BY <3>1, <1>2
    <3> QED BY <3>1, <3>2
  <2> QED BY <2>1, <2>2
<1> QED BY <1>1, <1>2, <1>3, <1>4, <1>5, <1>6 DEF Sunk, f

LEMMA SunkBelow ==
  ASSUME capacity \in Nat, expire \in [Timers -> Nat],
         NEW a \in Cells(capacity), NEW n \in 1 .. capacity, Used(a, n),
         NEW h \in 0 .. n - 1, NEW t \in Timers,
         NEW s \in h + 1 .. n - 1, Parent(s) = h, expire[a[s]] < expire[t],
         \A x \in 1 .. n - 1 : Parent(x) = h => expire[a[s]] <= expire[a[x]],
         NEW g, Sunk(g, s, n, a, t)
  PROVE  Sunk([g EXCEPT ![h] = a[s]], h, n, a, t)
<1> DEFINE f == [g EXCEPT ![h] = a[s]]
<1>0. a[s] \in Timers /\ g \in Cells(capacity)
  BY DEF Used, Sunk
<1>1. f \in Cells(capacity) /\ \A x \in 0 .. capacity - 1 : f[x] = IF x = h THEN a[s] ELSE g[x]
  BY <1>0 DEF Cells
<1> HIDE DEF f
<1>2. /\ f[h] = a[s]
      /\ \A x \in 0 .. h - 1 : f[x] = a[x]
      /\ \A x \in h + 1 .. s - 1 : f[x] = a[x]
      /\ \A x \in s .. n - 1 : f[x] = g[x]
  <2>1. \A x \in 0 .. s - 1 : g[x] = a[x]
    BY DEF Sunk
  <2> QED BY <1>1, <2>1
<1>3. /\ \A x \in s .. n - 1 : g[x] = t \/ \E y \in s + 1 .. n - 1 : g[x] = a[y]
      /\ \E x \in s .. n - 1 : g[x] = t
      /\ \A y \in s + 1 .. n - 1 : \E x \in s .. n - 1 : g[x] = a[y]
  BY DEF Sunk
<1>4. \A x \in h .. n - 1 : x = h \/ x \in h + 1 .. s - 1 \/ x \in s .. n - 1
  OBVIOUS
<1>5. ASSUME NEW x \in h .. n - 1
      PROVE  f[x] = t \/ \E y \in h + 1 .. n - 1 : f[x] = a[y]
  <2>1. CASE x = h
    BY <2>1, <1>2
  <2>2. CASE x \in h + 1 .. s - 1
    BY <2>2, <1>2
  <2>3. CASE x \in s .. n - 1
    <3>1. g[x] = t \/ \E y \in s + 1 .. n - 1 : g[x] = a[y]
      BY <2>3, <1>3
    <3>2. \A y \in s + 1 .. n - 1 : y \in h + 1 .. n - 1
      OBVIOUS
    <3> QED BY <3>1, <3>2, <2>3, <1>2
  <2> QED BY <2>1, <2>2, <2>3, <1>4
<1>6. \E x \in h .. n - 1 : f[x] = t
  <2>1. PICK x \in s .. n - 1 : g[x] = t
    BY <1>3
  <2> QED BY <2>1, <1>2
<1>7. ASSUME NEW y \in h + 1 .. n - 1 PROVE \E x \in h .. n - 1 : f[x] = a[y]
  <2>1. CASE y \in h + 1 .. s - 1
    BY <2>1, <1>2
  <2>2. CASE y = s
    BY <2>2, <1>2
  <2>3. CASE y \in s + 1 .. n - 1
    <3>1. PICK x \in s .. n - 1 : g[x] = a[y]
      BY <2>3, <1>3
    <3> QED BY <3>1, <1>2
  <2> QED BY <2>1, <2>2, <2>3
<1>8. ASSUME \A x, y \in h + 1 .. n - 1 : a[x] = a[y] => x = y,
             \A x \in h + 1 .. n - 1 : a[x] # t,
             NEW x \in h .. n - 1, NEW y \in h .. n - 1, f[x] = f[y], x < y
      PROVE  FALSE
  <2>1. \A i, j \in s .. n - 1 : g[i] = g[j] => i = j
    <3>1. /\ \A i, j \in s + 1 .. n - 1 : a[i] = a[j] => i = j
          /\ \A i \in s + 1 .. n - 1 : a[i] # t
      BY <1>8
    <3> QED BY <3>1 DEF Sunk
  <2>2. CASE x \in s .. n - 1
    BY <2>1, <2>2, <1>2, <1>8
  <2>3. CASE x \notin s .. n - 1
    <3>1. PICK u \in h + 1 .. s : f[x] = a[u] /\ (x # h => u = x) /\ (x = h => u = s)
      <4>1. CASE x = h
        BY <4>1, <1>2
      <4>2. CASE x # h
        <5>1. x \in h + 1 .. s - 1
          BY <4>2, <2>3
        <5> QED BY <5>1, <4>2, <1>2
      <4> QED BY <4>1, <4>2
    <3>2. u \in h + 1 .. n - 1
      OBVIOUS
    <3>3. CASE y \in s .. n - 1
      <4>1. g[y] = t \/ \E z \in s + 1 .. n - 1 : g[y] = a[z]
        BY <3>3, <1>3
      <4>2. g[y] = a[u]
        BY <3>1, <3>3, <1>2, <1>8
      <4>3. a[u] # t
        BY <3>2, <1>8
      <4>4. PICK z \in s + 1 .. n - 1 : a[z] = a[u]
        BY <4>1, <4>2, <4>3
      <4>5. z \in h + 1 .. n - 1 /\ z # u
        OBVIOUS
      <4> QED BY <3>2, <4>4, <4>5, <1>8
    <3>4. CASE y \notin s .. n - 1
      <4>1. y \in h + 1 .. s - 1 /\ y \in h + 1 .. n - 1 /\ y # u
        BY <3>1, <3>4, <1>8
      <4>2. a[y] = a[u]
        BY <4>1, <3>1, <1>2, <1>8
      <4> QED BY <3>2, <4>1, <4>2, <1>8
    <3> QED BY <3>3, <3>4
  <2> QED BY <2>2, <2>3
<1>9. /\ \A x, y \in h + 1 .. n - 1 : a[x] = a[y] => x = y
      /\ \A x \in h + 1 .. n - 1 : a[x] # t
      => \A x, y \in h .. n - 1 : f[x] = f[y] => x = y
  <2> SUFFICES ASSUME \A x, y \in h + 1 .. n - 1 : a[x] = a[y] => x = y,
                      \A x \in h + 1 .. n - 1 : a[x] # t,
                      NEW x \in h .. n - 1, NEW y \in h .. n - 1, f[x] = f[y], x # y
               PROVE  FALSE
    OBVIOUS
  <2>1. x < y \/ y < x
    OBVIOUS
  <2> QED BY <2>1, <1>8
<1>10. ASSUME NEW y \in s .. n - 1 PROVE g[y] \in Timers
  <2>1. g[y] = t \/ \E u \in s + 1 .. n - 1 : g[y] = a[u]
    BY <1>3
  <2> QED BY <2>1 DEF Used
<1>11. ASSUME HeapedFrom(a, h + 1, n)
       PROVE  /\ HeapedFrom(g, s, n)
              /\ \A y \in s .. n - 1 : expire[a[y]] <= expire[g[y]]
  <2>1. HeapedFrom(a, s + 1, n) /\ HeapedFrom(a, s, n)
    <3> SUFFICES ASSUME NEW x \in 1 .. n - 1, Parent(x) >= s
                 PROVE  expire[a[Parent(x)]] <= expire[a[x]]
      <4>1. \A x \in 1 .. n - 1 : Parent(x) \in 0 .. x - 1
        BY ParentBelow
      <4> QED BY <4>1 DEF HeapedFrom
    <3>1. Parent(x) \in 0 .. x - 1
      BY ParentBelow
    <3>2. Parent(x) >= h + 1
      BY <3>1
    <3> QED BY <3>2, <1>11 DEF HeapedFrom
  <2>2. expire[a[s]] <= expire[t]
    BY <1>0
  <2> QED BY <2>1, <2>2 DEF Sunk
<1>12. HeapedFrom(a, h + 1, n) => HeapedFrom(f, h, n)
  <2> SUFFICES ASSUME HeapedFrom(a, h + 1, n), NEW x \in 1 .. n - 1, Parent(x) >= h
               PROVE  expire[f[Parent(x)]] <= expire[f[x]]
    BY DEF HeapedFrom
  <2>1. PICK p \in 0 .. x - 1 : p = Parent(x) /\ p >= h
    BY ParentBelow
  <2>2. a[x] \in Timers /\ a[p] \in Timers
    BY DEF Used
  <2>3. f[x] \in Timers /\ expire[a[x]] <= expire[f[x]]
    <3>1. CASE x \in h + 1 .. s - 1
      BY <3>1, <2>2, <1>2
    <3>2. CASE x \in s .. n - 1
      BY <3>2, <1>2, <1>10, <1>11
    <3> QED BY <3>1, <3>2, <2>1
  <2>4. CASE p = h
    <3>1. f[p] = a[s] /\ expire[a[s]] <= expire[a[x]]
      BY <2>1, <2>4, <1>2
    <3> QED BY <3>1, <2>1, <2>2, <2>3, <1>0
  <2>5. CASE p \in h + 1 .. s - 1
    <3>1. f[p] = a[p]
      BY <2>5, <1>2
    <3>2. expire[a[p]] <= expire[a[x]]
      BY <2>1, <2>5 DEF HeapedFrom
    <3> QED BY <3>1, <3>2, <2>1, <2>2, <2>3
  <2>6. CASE p \in s .. n - 1
    <3>1. f[p] = g[p] /\ f[x] = g[x]
      BY <2>1, <2>6, <1>2
    <3>2. expire[g[p]] <= expire[g[x]]
      BY <2>1, <2>6, <1>11 DEF HeapedFrom
    <3> QED BY <3>1, <3>2, <2>1
  <2> QED BY <2>1, <2>4, <2>5, <2>6
<1>13. HeapedFrom(a, h, n) /\ expire[a[h]] <= expire[t] =>
         \A y \in h .. n - 1 : expire[a[y]] <= expire[f[y]]
  <2> SUFFICES ASSUME HeapedFrom(a, h, n), NEW y \in h .. n - 1
               PROVE  expire[a[y]] <= expire[f[y]]
    OBVIOUS
  <2>1. a[y] \in Timers
    BY DEF Used
  <2>2. CASE y = h
    BY <2>2, <1>2 DEF HeapedFrom
  <2>3. CASE y \in h + 1 .. s - 1
    BY <2>1, <2>3, <1>2
  <2>4. CASE y \in s .. n - 1
    <3>1. HeapedFrom(a, h + 1, n)
      <4>1. \A x \in 1 .. n - 1 : Parent(x) \in 0 .. x - 1
        BY ParentBelow
      <4> QED BY <4>1 DEF HeapedFrom
    <3> QED BY <3>1, <2>4, <1>2, <1>11
  <2> QED BY <2>2, <2>3, <2>4, <1>4
<1> QED BY <1>1, <1>2, <1>5, <1>6, <1>7, <1>9, <1>12, <1>13 DEF Sunk, f

(* percolate_down() from the top.                                          *)
LEMMA PercolateDownSinks ==
  ASSUME capacity \in Nat, expire \in [Timers -> Nat],
         NEW a \in Cells(capacity), NEW n \in 1 .. capacity, Used(a, n)
  PROVE  Sunk(percolate_down(a, 0, n), 0, n, a, a[0])
<1>1. PICK down : Downward(down, a, n) /\ percolate_down(a, 0, n) = down[0]
  <2>1. \E f : Downward(f, a, n)
    <3>1. n \in 0 .. capacity
      OBVIOUS
    <3> QED BY <3>1, DownwardExists, Zenon
  <2>2. percolate_down(a, 0, n) = (CHOOSE f : Downward(f, a, n))[0]
    BY DEF percolate_down, Downward
  <2> QED BY <2>1, <2>2
<1>2. ASSUME NEW h \in 0 .. capacity - 1
      PROVE  down[h] =
        IF 2 * h + 1 <= n - 1 /\ expire[a[SmallerChild(a, h, n)]] < expire[a[0]]
         THEN [down[SmallerChild(a, h, n)] EXCEPT ![h] = a[SmallerChild(a, h, n)]]
         ELSE [a EXCEPT ![h] = a[0]]
  BY <1>1 DEF Downward
<1>3. PICK t \in Timers : t = a[0]
  BY DEF Used
<1> DEFINE D == {d \in Nat : d < n /\ ~Sunk(down[n - 1 - d], n - 1 - d, n, a, t)}
<1>4. ASSUME D # {} PROVE FALSE
  <2>1. PICK d \in D : \A e \in D : d <= e
    <3>1. D \subseteq Nat
      OBVIOUS
    <3> HIDE DEF D
    <3> QED BY <1>4, <3>1, Smallest
  <2>2. PICK h \in 0 .. n - 1 : h = n - 1 - d
    BY <2>1
  <2>3. ~Sunk(down[h], h, n, a, t)
    BY <2>1, <2>2
  <2>4. PICK s : s = SmallerChild(a, h, n)
    OBVIOUS
  <2>5. h \in 0 .. capacity - 1 /\ h \in Nat /\ n \in Nat
    OBVIOUS
  <2>6. CASE ~(2 * h + 1 <= n - 1 /\ expire[a[s]] < expire[a[0]])
    <3>1. down[h] = [a EXCEPT ![h] = t]
      BY <1>2, <1>3, <2>4, <2>5, <2>6
    <3>2. ASSUME NEW x \in 1 .. n - 1, Parent(x) = h
          PROVE  expire[t] <= expire[a[x]]
      <4>1. x = 2 * h + 1 \/ x = 2 * h + 2
        BY <3>2, ParentBelow
      <4>2. 2 * h + 1 <= n - 1
        BY <4>1
      <4>3. expire[a[s]] <= expire[a[x]]
        BY <2>4, <2>5, <3>2, <4>2, SmallestChild
      <4>4. s \in h + 1 .. n - 1
        BY <2>4, <2>5, <4>2, ChildBelow
      <4>5. a[s] \in Timers /\ a[x] \in Timers
        BY <4>4 DEF Used
      <4> QED BY <1>3, <2>6, <4>2, <4>3, <4>5
    <3> QED BY <2>3, <3>1, <3>2, SunkHere
  <2>7. CASE 2 * h + 1 <= n - 1 /\ expire[a[s]] < expire[a[0]]
    <3>1. s \in h + 1 .. n - 1 /\ Parent(s) = h
      BY <2>4, <2>5, <2>7, ChildBelow
    <3>2. \A x \in 1 .. n - 1 : Parent(x) = h => expire[a[s]] <= expire[a[x]]
      BY <2>4, <2>5, <2>7, SmallestChild
    <3>3. PICK e \in Nat : e = n - 1 - s /\ e < n /\ ~(d <= e) /\ n - 1 - e = s
      BY <2>1, <2>2, <3>1
    <3>4. e \notin D
      <4> HIDE DEF D
      <4> QED BY <2>1, <3>3
    <3>5. Sunk(down[s], s, n, a, t)
      BY <3>3, <3>4
    <3>6. down[h] = [down[s] EXCEPT ![h] = a[s]]
      BY <1>2, <2>4, <2>5, <2>7
    <3> QED BY <1>3, <2>3, <2>7, <3>1, <3>2, <3>5, <3>6, SunkBelow
  <2> QED BY <2>6, <2>7
<1>5. n - 1 \in Nat /\ n - 1 < n /\ n - 1 - (n - 1) = 0
  OBVIOUS
<1>6. Sunk(down[0], 0, n, a, t)
  BY <1>4, <1>5
<1> QED BY <1>1, <1>3, <1>6

-----------------------------------------------------------------------------
(* r is a heap with a cell to spare, and a in the first n.                 *)
Roomy(r, n, a) ==
  \E d \in Nat \ {0} : \E b \in Cells(d) :
    /\ r = [array |-> b, capacity |-> d, cur_size |-> n]
    /\ n < d /\ \A x \in 0 .. n - 1 : b[x] = a[x]

(* resize() makes room and keeps the cells in use.                         *)
LEMMA RoomMade ==
  ASSUME NEW c \in Nat \ {0}, NEW n \in 0 .. c, NEW a \in Cells(c),
         NEW h, h = [array |-> a, capacity |-> c, cur_size |-> n],
         NEW r, r = IF Full(h) THEN resize(h) ELSE h
  PROVE  Roomy(r, n, a)
<1>1. CASE Full(h)
  <2> DEFINE b == [i \in 0 .. 2 * c - 1 |-> IF i < n THEN a[i] ELSE NULL]
             d == 2 * c
  <2>1. r = [array |-> b, capacity |-> d, cur_size |-> n]
    BY <1>1 DEF resize
  <2>2. d \in Nat \ {0} /\ n < d
    OBVIOUS
  <2>3. b \in Cells(d)
    <3> SUFFICES ASSUME NEW i \in 0 .. 2 * c - 1
                 PROVE  (IF i < n THEN a[i] ELSE NULL) \in Timers \union {NULL}
      BY DEF Cells
    <3>1. CASE i < n
      <4>1. i \in 0 .. c - 1
        BY <3>1
      <4> QED BY <3>1, <4>1 DEF Cells
    <3>2. CASE ~(i < n)
      BY <3>2
    <3> QED BY <3>1, <3>2
  <2>4. \A x \in 0 .. n - 1 : b[x] = a[x]
    OBVIOUS
  <2> HIDE DEF b, d
  <2> QED BY <2>1, <2>2, <2>3, <2>4 DEF Roomy
<1>2. CASE ~Full(h)
  <2>1. n < c
    BY <1>2 DEF Full
  <2> QED BY <1>2, <2>1 DEF Roomy
<1> QED BY <1>1, <1>2

(* g is a heap with t and the first n cells of a in it.                    *)
Grown(g, n, a, t, ex) ==
  /\ g = [array |-> g.array, capacity |-> g.capacity, cur_size |-> n + 1]
  /\ g.capacity \in Nat \ {0} /\ g.cur_size = n + 1 /\ n + 1 <= g.capacity
  /\ g.array \in Cells(g.capacity)
  /\ Holds(g.array, n, a, t)
  /\ Distinct(a, n) /\ Without(a, n, t) => Distinct(g.array, n + 1)
  /\ Heaped(a, n, ex) => Heaped(g.array, n + 1, ex)

(* add_timer() on the first n cells of a.                                  *)
LEMMA AddRises ==
  ASSUME NEW c \in Nat \ {0}, NEW n \in 0 .. c, NEW a \in Cells(c), Used(a, n),
         NEW ex \in [Timers -> Nat], NEW t \in Timers,
         NEW h, h = [array |-> a, capacity |-> c, cur_size |-> n]
  PROVE  Grown(Add(h, t, ex), n, a, t, ex)
<1>1. PICK r : r = IF Full(h) THEN resize(h) ELSE h
  OBVIOUS
<1>2. PICK d \in Nat \ {0} : \E m \in Cells(d) :
        /\ r = [array |-> m, capacity |-> d, cur_size |-> n]
        /\ n < d /\ \A x \in 0 .. n - 1 : m[x] = a[x]
  <2>1. Roomy(r, n, a)
    BY <1>1, RoomMade
  <2> QED BY <2>1 DEF Roomy
<1>3. PICK m \in Cells(d) :
        /\ r = [array |-> m, capacity |-> d, cur_size |-> n]
        /\ n < d /\ \A x \in 0 .. n - 1 : m[x] = a[x]
  BY <1>2
<1>4. PICK b : b = PercolateUp(m, n, t, ex)
  OBVIOUS
<1>5. Add(h, t, ex) = [array |-> b, capacity |-> d, cur_size |-> n + 1]
  <2>1. Add(h, t, ex) = [r EXCEPT !.cur_size = r.cur_size + 1,
                                  !.array = PercolateUp(r.array, r.cur_size, t, ex)]
    BY <1>1 DEF Add
  <2> QED BY <2>1, <1>3, <1>4
<1>6. Risen(b, n, m, t, ex, d)
  <2>1. n \in 0 .. d - 1 /\ Used(m, n) /\ d \in Nat
    BY <1>3 DEF Used
  <2> QED BY <2>1, <1>4, PercolateUpRises
<1>7. Holds(b, n, a, t)
  <2>1. Holds(b, n, m, t)
    BY <1>6 DEF Risen
  <2> QED BY <2>1, <1>3 DEF Holds
<1>8. Distinct(a, n) /\ Without(a, n, t) => Distinct(b, n + 1)
  BY <1>3, <1>6 DEF Risen, Distinct, Without
<1>9. Heaped(a, n, ex) => Heaped(b, n + 1, ex)
  <2>1. \A x \in 1 .. n - 1 : Parent(x) \in 0 .. n - 1
    BY ParentBelow
  <2>2. Heaped(a, n, ex) => Heaped(m, n, ex)
    BY <2>1, <1>3 DEF Heaped
  <2> QED BY <2>2, <1>6 DEF Risen
<1>10. b \in Cells(d) /\ n + 1 <= d
  BY <1>3, <1>6 DEF Risen
<1> QED BY <1>5, <1>7, <1>8, <1>9, <1>10 DEF Grown

(* The cells 1 .. n of a are those of f in another order.                  *)
Moved(f, a, n) ==
  /\ \A x \in 0 .. n - 1 : \E y \in 1 .. n : f[x] = a[y]
  /\ \A y \in 1 .. n : \E x \in 0 .. n - 1 : f[x] = a[y]

(* pop_timer(): the last cell in use goes to the top and sinks from there. *)
LEMMA PopSinks ==
  ASSUME capacity \in Nat, expire \in [Timers -> Nat], array \in Cells(capacity),
         NEW n \in 0 .. capacity - 1, Used(array, n + 1),
         NEW b, b = percolate_down([array EXCEPT ![0] = array[n]], 0, n)
  PROVE  /\ b \in Cells(capacity) /\ Moved(b, array, n)
         /\ Distinct(array, n + 1) => Distinct(b, n)
         /\ Heaped(array, n + 1, expire) => Heaped(b, n, expire)
<1>1. PICK m : m = [array EXCEPT ![0] = array[n]]
  OBVIOUS
<1>2. /\ m \in Cells(capacity) /\ m[0] = array[n]
      /\ \A x \in 1 .. n - 1 : m[x] = array[x]
  <2>1. array[n] \in Timers
    BY DEF Used
  <2> QED BY <1>1, <2>1 DEF Cells
<1>3. CASE n = 0
  <2>1. PICK down : Downward(down, m, 0) /\ b = down[0]
    <3>1. \E f : Downward(f, m, 0)
      <4>1. 0 \in 0 .. capacity
        OBVIOUS
      <4> QED BY <4>1, DownwardExists, Zenon
    <3>2. b = (CHOOSE f : Downward(f, m, 0))[0]
      BY <1>1, <1>3 DEF percolate_down, Downward
    <3> QED BY <3>1, <3>2
  <2>2. b = [m EXCEPT ![0] = m[0]]
    <3>1. 0 \in 0 .. capacity - 1 /\ ~(2 * 0 + 1 <= 0 - 1)
      OBVIOUS
    <3>2. down[0] = IF 2 * 0 + 1 <= 0 - 1 /\ expire[m[SmallerChild(m, 0, 0)]] < expire[m[0]]
                    THEN [down[SmallerChild(m, 0, 0)] EXCEPT ![0] = m[SmallerChild(m, 0, 0)]]
                    ELSE [m EXCEPT ![0] = m[0]]
      BY <2>1, <3>1, Zenon DEF Downward
    <3> QED BY <2>1, <3>1, <3>2
  <2>3. b \in Cells(capacity)
    BY <2>2, <1>2 DEF Cells
  <2>4. Moved(b, array, n) /\ Distinct(b, n) /\ Heaped(b, n, expire)
    BY <1>3 DEF Moved, Distinct, Heaped
  <2> QED BY <2>3, <2>4
<1>4. CASE n # 0
  <2>1. n \in 1 .. capacity
    BY <1>4
  <2>2. Used(m, n)
    BY <1>2, <2>1 DEF Used
  <2>3. Sunk(b, 0, n, m, m[0])
    BY <1>1, <1>2, <2>1, <2>2, PercolateDownSinks
  <2>4. Moved(b, array, n)
    <3>1. ASSUME NEW x \in 0 .. n - 1 PROVE \E y \in 1 .. n : b[x] = array[y]
      <4>1. b[x] = m[0] \/ \E y \in 0 + 1 .. n - 1 : b[x] = m[y]
        BY <2>3 DEF Sunk
      <4>2. CASE b[x] = m[0]
        BY <4>2, <1>2, <2>1
      <4>3. CASE \E y \in 0 + 1 .. n - 1 : b[x] = m[y]
        BY <4>3, <1>2
      <4> QED BY <4>1, <4>2, <4>3
    <3>2. ASSUME NEW y \in 1 .. n PROVE \E x \in 0 .. n - 1 : b[x] = array[y]
      <4>1. CASE y = n
        BY <4>1, <2>3, <1>2 DEF Sunk
      <4>2. CASE y # n
        <5>1. y \in 0 + 1 .. n - 1 /\ m[y] = array[y]
          BY <4>2, <1>2
        <5>2. \A z \in 0 + 1 .. n - 1 : \E x \in 0 .. n - 1 : b[x] = m[z]
          BY <2>3 DEF Sunk
        <5> QED BY <5>1, <5>2
      <4> QED BY <4>1, <4>2
    <3> QED BY <3>1, <3>2 DEF Moved
  <2>5. Distinct(array, n + 1) => Distinct(b, n)
    <3> SUFFICES ASSUME Distinct(array, n + 1) PROVE Distinct(b, n)
      OBVIOUS
    <3>1. \A x, y \in 0 + 1 .. n - 1 : m[x] = m[y] => x = y
      BY <1>2 DEF Distinct
    <3>2. \A x \in 0 + 1 .. n - 1 : m[x] # m[0]
      BY <1>2 DEF Distinct
    <3> QED BY <3>1, <3>2, <2>3 DEF Sunk, Distinct
  <2>6. Heaped(array, n + 1, expire) => Heaped(b, n, expire)
    <3> SUFFICES ASSUME Heaped(array, n + 1, expire) PROVE Heaped(b, n, expire)
      OBVIOUS
    <3>1. HeapedFrom(m, 0 + 1, n)
      <4> SUFFICES ASSUME NEW x \in 1 .. n - 1, Parent(x) >= 1
                   PROVE  expire[m[Parent(x)]] <= expire[m[x]]
        BY DEF HeapedFrom
      <4>1. Parent(x) \in 1 .. n - 1
        BY ParentBelow
      <4> QED BY <4>1, <1>2 DEF Heaped
    <3>2. HeapedFrom(b, 0, n)
      BY <3>1, <2>3 DEF Sunk
    <3>3. \A x \in 1 .. n - 1 : Parent(x) >= 0
      BY ParentBelow
    <3> QED BY <3>2, <3>3 DEF HeapedFrom, Heaped
  <2>7. b \in Cells(capacity)
    BY <2>3 DEF Sunk
  <2> QED BY <2>4, <2>5, <2>6, <2>7
<1> QED BY <1>3, <1>4

(* The top of a heap is due first.                                         *)
LEMMA TopIsEarliest ==
  ASSUME NEW a, NEW n \in Nat, NEW ex \in [Timers -> Nat], Used(a, n), Heaped(a, n, ex)
  PROVE  \A x \in 0 .. n - 1 : ex[a[0]] <= ex[a[x]]
<1> DEFINE D == {x \in 0 .. n - 1 : ~(ex[a[0]] <= ex[a[x]])}
<1>1. ASSUME D # {} PROVE FALSE
  <2>1. PICK x \in D : \A y \in D : x <= y
    <3>1. D \subseteq Nat
      OBVIOUS
    <3> HIDE DEF D
    <3> QED BY <1>1, <3>1, Smallest
  <2>2. x \in 0 .. n - 1 /\ ~(ex[a[0]] <= ex[a[x]])
    BY <2>1
  <2>3. a[0] \in Timers /\ a[x] \in Timers
    BY <2>2 DEF Used
  <2>4. x # 0
    BY <2>2, <2>3
  <2>5. PICK p \in 0 .. x - 1 : p = Parent(x)
    BY <2>2, <2>4, ParentBelow
  <2>6. p \in 0 .. n - 1 /\ p \notin D
    <3>1. ~(x <= p) /\ p \in 0 .. n - 1
      BY <2>2, <2>5
    <3> HIDE DEF D
    <3> QED BY <3>1, <2>1
  <2>7. ex[a[0]] <= ex[a[p]] /\ a[p] \in Timers
    BY <2>6 DEF Used
  <2>8. ex[a[p]] <= ex[a[x]]
    BY <2>2, <2>4, <2>5 DEF Heaped
  <2> QED BY <2>2, <2>3, <2>7, <2>8
<1> QED BY <1>1

-----------------------------------------------------------------------------
(* TimeHeap                                                                *)
HeapInv == WellFormed /\ deleted \subseteq {t \in Timers : expire[t] # 0}

LEMMA HeapFacts ==
  ASSUME HeapInv
  PROVE  /\ capacity \in Nat \ {0} /\ cur_size \in 0 .. capacity
         /\ array \in Cells(capacity) /\ expire \in [Timers -> Nat]
         /\ Used(array, cur_size) /\ Distinct(array, cur_size)
         /\ Heaped(array, cur_size, expire)
         /\ InHeap \subseteq Timers
<1>1. TypeOK /\ HeapOrder /\ NoDangling
  BY DEF HeapInv, WellFormed
<1>2. InHeap \subseteq Timers
  BY <1>1 DEF NoDangling
<1>3. Used(array, cur_size)
  BY <1>2 DEF InHeap, Used
<1> QED BY <1>1, <1>2, <1>3 DEF TypeOK, HeapOrder, NoDangling, Cells, Distinct, Heaped

(* What is in the heap after add_timer().                                  *)
LEMMA WhatIsAdded ==
  ASSUME NEW n \in Nat, NEW a, NEW t, NEW b, Holds(b, n, a, t)
  PROVE  {b[i] : i \in 0 .. (n + 1) - 1} = {a[i] : i \in 0 .. n - 1} \union {t}
<1>1. 0 .. (n + 1) - 1 = 0 .. n
  OBVIOUS
<1>2. {b[i] : i \in 0 .. n} = {a[i] : i \in 0 .. n - 1} \union {t}
  BY DEF Holds
<1> QED BY <1>1, <1>2

LEMMA AddStep ==
  ASSUME HeapAssumption, HeapInv, NEW t \in Timers, NEW delay \in Delays,
         add_timer(t, delay)
  PROVE  HeapInv' /\ InHeap' = InHeap \union {t} /\ t \notin InHeap
<1>1. PICK ex : ex = expire'
  OBVIOUS
<1>2. PICK g : g = Add(Heap, t, ex)
  OBVIOUS
<1>3. array' = g.array /\ capacity' = g.capacity /\ cur_size' = g.cur_size
  BY <1>1, <1>2 DEF add_timer, SetHeap
<1>4. /\ capacity \in Nat \ {0} /\ cur_size \in 0 .. capacity
      /\ array \in Cells(capacity) /\ expire \in [Timers -> Nat]
      /\ Used(array, cur_size) /\ Distinct(array, cur_size)
      /\ Heaped(array, cur_size, expire) /\ InHeap \subseteq Timers
  BY HeapFacts
<1>5. PICK d \in Nat \ {0} : d = now + delay
  BY DEF HeapAssumption, HeapInv, WellFormed, TypeOK
<1>6. /\ expire[t] = 0 /\ ex = [expire EXCEPT ![t] = d]
      /\ ex \in [Timers -> Nat] /\ ex[t] # 0
      /\ \A u \in Timers : u # t => ex[u] = expire[u]
  BY <1>1, <1>4, <1>5 DEF add_timer
<1>7. t \notin InHeap
  BY <1>6 DEF HeapInv, WellFormed, NoDangling
<1>8. Without(array, cur_size, t)
  BY <1>7 DEF InHeap, Without
<1>9. Heaped(array, cur_size, ex)
  <2> SUFFICES ASSUME NEW x \in 1 .. cur_size - 1
               PROVE  ex[array[Parent(x)]] <= ex[array[x]]
    BY DEF Heaped
  <2>1. Parent(x) \in 0 .. cur_size - 1 /\ x \in 0 .. cur_size - 1
    <3>1. x \in Nat /\ x # 0 /\ cur_size \in Nat
      BY <1>4
    <3>2. Parent(x) \in 0 .. x - 1
      BY <3>1, ParentBelow
    <3> QED BY <3>1, <3>2
  <2>2. /\ array[x] \in Timers /\ array[x] # t
        /\ array[Parent(x)] \in Timers /\ array[Parent(x)] # t
    BY <2>1, <1>4, <1>8 DEF Used, Without
  <2>3. expire[array[Parent(x)]] <= expire[array[x]]
    BY <1>4 DEF Heaped
  <2> QED BY <2>2, <2>3, <1>6
<1>10. Grown(g, cur_size, array, t, ex)
  BY <1>2, <1>4, <1>6, AddRises DEF Heap
<1>11. InHeap' = InHeap \union {t}
  <2>1. PICK n \in Nat : n = cur_size
    BY <1>4
  <2>2. Holds(g.array, n, array, t) /\ g.cur_size = n + 1
    BY <1>10, <2>1 DEF Grown
  <2>3. {g.array[i] : i \in 0 .. (n + 1) - 1} = {array[i] : i \in 0 .. n - 1} \union {t}
    BY <2>2, WhatIsAdded
  <2> QED BY <2>1, <2>2, <2>3, <1>3 DEF InHeap
<1>12. TypeOK'
  <2>1. UNCHANGED <<now, cur, ran, deleted>> /\ cb_func' = cb_func \union {t}
    BY DEF add_timer
  <2>2. /\ capacity' \in Nat \ {0} /\ cur_size' \in 0 .. capacity'
        /\ array' \in [0 .. capacity' - 1 -> Timers \union {NULL}]
    BY <1>3, <1>4, <1>10 DEF Grown, Cells
  <2> QED BY <2>1, <2>2, <1>1, <1>6 DEF TypeOK, HeapInv, WellFormed
<1>13. HeapOrder'
  <2>1. Heaped(g.array, cur_size + 1, ex) /\ g.cur_size = cur_size + 1
    BY <1>9, <1>10 DEF Grown
  <2> QED BY <2>1, <1>1, <1>3 DEF Heaped, HeapOrder
<1>14. NoDangling' /\ (deleted \subseteq {u \in Timers : expire[u] # 0})'
  <2>1. Distinct(g.array, cur_size + 1) /\ g.cur_size = cur_size + 1
    BY <1>4, <1>8, <1>10 DEF Grown
  <2>2. \A i, j \in 0 .. cur_size' - 1 : array'[i] = array'[j] => i = j
    BY <2>1, <1>3 DEF Distinct
  <2>3. /\ deleted' = deleted /\ deleted \subseteq {u \in Timers : expire[u] # 0}
        /\ InHeap = {u \in Timers : expire[u] # 0} \ deleted
    BY DEF add_timer, HeapInv, WellFormed, NoDangling
  <2>4. {u \in Timers : ex[u] # 0} = {u \in Timers : expire[u] # 0} \union {t}
    BY <1>6
  <2>5. t \notin deleted
    BY <2>3, <1>6
  <2> QED BY <2>2, <2>3, <2>4, <2>5, <1>1, <1>11 DEF NoDangling
<1> QED BY <1>7, <1>11, <1>12, <1>13, <1>14 DEF HeapInv, WellFormed

(* pop_timer() takes out the timer that is due first.                      *)
LEMMA PopStep ==
  ASSUME HeapInv, TickPop
  PROVE  /\ HeapInv'
         /\ array[0] \in InHeap /\ InHeap' = InHeap \ {array[0]}
         /\ \A u \in InHeap : expire[array[0]] <= expire[u]
<1>1. /\ capacity \in Nat \ {0} /\ cur_size \in 0 .. capacity
      /\ array \in Cells(capacity) /\ expire \in [Timers -> Nat]
      /\ Used(array, cur_size) /\ Distinct(array, cur_size)
      /\ Heaped(array, cur_size, expire) /\ InHeap \subseteq Timers
  BY HeapFacts
<1>2. PICK n \in 0 .. capacity - 1 : n = cur_size - 1 /\ cur_size = n + 1
  BY <1>1 DEF TickPop, Due, empty
<1>3. PICK b : b = percolate_down([array EXCEPT ![0] = array[n]], 0, n)
  OBVIOUS
<1>4. /\ array' = b /\ cur_size' = n /\ capacity' = capacity /\ expire' = expire
      /\ deleted' = deleted \union {array[0]} /\ cb_func' = cb_func \ {array[0]}
      /\ UNCHANGED <<now, cur>> /\ ran' \subseteq ran \union {array[0]}
  BY <1>2, <1>3 DEF TickPop
<1>5. /\ b \in Cells(capacity) /\ Moved(b, array, n) /\ Distinct(b, n)
      /\ Heaped(b, n, expire)
  <2>1. Used(array, n + 1) /\ Distinct(array, n + 1) /\ Heaped(array, n + 1, expire)
    BY <1>1, <1>2
  <2>2. capacity \in Nat
    BY <1>1
  <2> QED BY <1>1, <1>3, <2>1, <2>2, PopSinks
<1>6. array[0] \in InHeap
  BY <1>2 DEF InHeap
<1>7. InHeap' = InHeap \ {array[0]}
  <2>1. {b[i] : i \in 0 .. n - 1} = {array[i] : i \in 1 .. n}
    BY <1>5 DEF Moved
  <2>2. {array[i] : i \in 0 .. n} \ {array[0]} = {array[i] : i \in 1 .. n}
    <3>1. \A i \in 1 .. n : array[i] # array[0]
      BY <1>1, <1>2 DEF Distinct
    <3> QED BY <3>1
  <2>3. InHeap = {array[i] : i \in 0 .. n} /\ InHeap' = {b[i] : i \in 0 .. n - 1}
    BY <1>2, <1>4 DEF InHeap
  <2> QED BY <2>1, <2>2, <2>3
<1>8. \A u \in InHeap : expire[array[0]] <= expire[u]
  <2>1. \A x \in 0 .. cur_size - 1 : expire[array[0]] <= expire[array[x]]
    <3>1. cur_size \in Nat
      BY <1>1
    <3> QED BY <1>1, <3>1, TopIsEarliest
  <2> QED BY <2>1 DEF InHeap
<1>9. TypeOK'
  <2>1. array[0] \in Timers
    BY <1>1, <1>6
  <2> QED BY <2>1, <1>1, <1>2, <1>4, <1>5 DEF TypeOK, HeapInv, WellFormed, Cells
<1>10. HeapOrder'
  BY <1>4, <1>5 DEF HeapOrder, Heaped
<1>11. NoDangling' /\ (deleted \subseteq {u \in Timers : expire[u] # 0})'
  <2>1. /\ deleted \subseteq {u \in Timers : expire[u] # 0}
        /\ InHeap = {u \in Timers : expire[u] # 0} \ deleted
    BY DEF HeapInv, WellFormed, NoDangling
  <2>2. \A i, j \in 0 .. cur_size' - 1 : array'[i] = array'[j] => i = j
    BY <1>4, <1>5 DEF Distinct
  <2> QED BY <2>1, <2>2, <1>4, <1>6, <1>7 DEF NoDangling
<1> QED BY <1>6, <1>7, <1>8, <1>9, <1>10, <1>11 DEF HeapInv, WellFormed

LEMMA HeapStarts ==
  ASSUME HeapAssumption, Init
  PROVE  HeapInv /\ InHeap = {}
<1>1. InHeap = {}
  BY DEF Init, InHeap
<1>2. TypeOK
  BY DEF Init, TypeOK, HeapAssumption
<1>3. HeapOrder /\ NoDangling /\ deleted \subseteq {t \in Timers : expire[t] # 0}
  BY <1>1 DEF Init, HeapOrder, NoDangling
<1> QED BY <1>1, <1>2, <1>3 DEF HeapInv, WellFormed

(* A step that leaves the array alone.                                     *)
LEMMA ArrayKept ==
  ASSUME HeapInv, UNCHANGED <<array, capacity, cur_size, expire, ran, deleted>>,
         cb_func' \subseteq cb_func, now' \in Epoch .. MaxTime, cur' \in 0 .. now'
  PROVE  HeapInv' /\ InHeap' = InHeap
<1>1. InHeap' = InHeap
  BY DEF InHeap
<1>2. TypeOK'
  BY DEF HeapInv, WellFormed, TypeOK
<1>3. HeapOrder' /\ NoDangling'
  BY <1>1 DEF HeapInv, WellFormed, HeapOrder, NoDangling
<1> QED BY <1>1, <1>2, <1>3 DEF HeapInv, WellFormed

LEMMA TimesOK ==
  ASSUME HeapAssumption, HeapInv
  PROVE  Epoch \in Nat \ {0} /\ now \in Epoch .. MaxTime /\ cur \in 0 .. now
BY DEF HeapInv, WellFormed, TypeOK, HeapAssumption

LEMMA HeapStep ==
  ASSUME HeapAssumption, HeapInv, [Next]_vars
  PROVE  HeapInv'
<1>1. ASSUME NEW t \in Timers, NEW delay \in Delays, add_timer(t, delay) PROVE HeapInv'
  BY <1>1, AddStep
<1>2. ASSUME NEW t \in Timers, del_timer(t) PROVE HeapInv'
  BY <1>2, ArrayKept, TimesOK DEF del_timer
<1>3. CASE TickStart
  BY <1>3, ArrayKept, TimesOK DEF TickStart
<1>4. CASE TickPop
  BY <1>4, PopStep
<1>5. CASE TickEnd
  BY <1>5, ArrayKept, TimesOK DEF TickEnd
<1>6. CASE Clock
  BY <1>6, ArrayKept, TimesOK DEF Clock, HeapAssumption
<1>7. CASE UNCHANGED vars
  BY <1>7, ArrayKept, TimesOK DEF vars
<1> QED BY <1>1, <1>2, <1>3, <1>4, <1>5, <1>6, <1>7 DEF Next, Tick

(* The array is a binary heap of exactly the timers that were added and    *)
(* not deleted, each in one cell (min_heap.cpp:69-97, 119-135, 171-214).   *)
THEOREM HeapIsWellFormed == Spec => []WellFormed
<1>1. Init => HeapInv
  BY HeapStarts, HeapAssumption
<1>2. HeapInv /\ [Next]_vars => HeapInv'
  BY HeapStep, HeapAssumption
<1>3. HeapInv => WellFormed
  BY DEF HeapInv
<1> QED BY <1>1, <1>2, <1>3, PTL DEF Spec

(* When tick() ends no timer that was due when it read the clock is left   *)
(* in the heap, for any number of timers, additions and removals           *)
(* (min_heap.cpp:137-165).                                                 *)
THEOREM TickTakesAllDue == Spec => TickLeavesNoneDue
<1>1. Init => HeapInv
  BY HeapStarts, HeapAssumption
<1>2. HeapInv /\ [Next]_vars => HeapInv'
  BY HeapStep, HeapAssumption
<1>3. ASSUME HeapInv, Next, cur # 0, cur' = 0, NEW t \in InHeap'
      PROVE  expire[t] > cur
  <2>1. TickEnd
    BY <1>3 DEF Next, Tick, add_timer, del_timer, TickStart, TickPop, Clock
  <2>2. PICK x \in 0 .. cur_size - 1 : t = array[x]
    BY <1>3, <2>1 DEF TickEnd, InHeap
  <2>3. /\ cur_size \in Nat /\ expire \in [Timers -> Nat]
        /\ Used(array, cur_size) /\ Heaped(array, cur_size, expire)
    BY <1>3, HeapFacts
  <2>4. expire[array[0]] <= expire[array[x]]
    BY <2>3, TopIsEarliest
  <2>5. cur_size # 0
    BY <2>2, <2>3
  <2>6. array[0] \in Timers /\ array[x] \in Timers
    BY <2>2, <2>3, <2>5 DEF Used
  <2>7. ~(expire[array[0]] <= cur)
    BY <2>1, <2>5 DEF TickEnd, Due, empty
  <2>8. cur \in Int
    BY <1>3, TimesOK, HeapAssumption
  <2> QED BY <2>2, <2>3, <2>4, <2>6, <2>7, <2>8
<1>4. HeapInv /\ [Next]_vars =>
        [cur # 0 /\ cur' = 0 => \A t \in InHeap' : expire[t] > cur]_vars
  BY <1>3
<1> QED BY <1>1, <1>2, <1>4, PTL DEF Spec, TickLeavesNoneDue

(* Every step of the heap is a step of the container of timers it stands   *)
(* for, or changes nothing of it.                                          *)
LEMMA QueueStep ==
  ASSUME HeapAssumption, HeapInv, [Next]_vars
  PROVE  [Queue!Next]_Queue!qvars
<1>1. ASSUME NEW t \in Timers, NEW delay \in Delays, add_timer(t, delay)
      PROVE  Queue!Add(t, delay)
  <2>1. InHeap' = InHeap \union {t} /\ t \notin InHeap
    BY <1>1, AddStep
  <2>2. (InHeap \ cb_func)' = InHeap \ cb_func
    BY <1>1, <2>1 DEF add_timer
  <2> QED BY <1>1, <2>1, <2>2 DEF add_timer, Queue!Add
<1>2. ASSUME NEW t \in Timers, del_timer(t) PROVE Queue!Cancel(t)
  <2>1. InHeap' = InHeap
    BY <1>2 DEF del_timer, InHeap
  <2> QED BY <1>2, <2>1 DEF del_timer, Queue!Cancel
<1>3. CASE TickPop
  <2>1. PICK t : t = array[0]
    OBVIOUS
  <2>2. /\ t \in InHeap /\ InHeap' = InHeap \ {t} /\ InHeap \subseteq Timers
        /\ \A u \in InHeap : expire[t] <= expire[u]
    BY <1>3, <2>1, PopStep, HeapFacts
  <2>3. expire[t] <= now
    <3>1. expire[t] \in Nat /\ expire[t] <= cur
      BY <1>3, <2>1, <2>2, HeapFacts DEF TickPop, Due
    <3> QED BY <3>1, TimesOK
  <2>4. /\ cb_func' = cb_func \ {t} /\ UNCHANGED <<expire, now>>
        /\ ran' = IF t \in cb_func THEN ran \union {t} ELSE ran
    BY <1>3, <2>1 DEF TickPop
  <2>5. Queue!TakeOut(t)
    BY <2>2, <2>3, <2>4 DEF Queue!TakeOut
  <2> QED BY <2>2, <2>5 DEF Queue!Next
<1>4. CASE Clock
  <2>1. InHeap' = InHeap
    BY <1>4 DEF Clock, InHeap
  <2> QED BY <1>4, <2>1 DEF Clock, Queue!Clock, Queue!Next
<1>5. CASE TickStart \/ TickEnd \/ UNCHANGED vars
  <2>1. UNCHANGED <<InHeap, cb_func, expire, now, ran>>
    BY <1>5 DEF TickStart, TickEnd, vars, InHeap
  <2> QED BY <2>1 DEF Queue!qvars
<1>6. ASSUME NEW t \in Timers, del_timer(t) PROVE Queue!Next
  <2>1. InHeap \subseteq Timers
    BY HeapFacts
  <2> QED BY <1>2, <1>6 DEF Queue!Next
<1>7. ASSUME NEW t \in Timers, NEW delay \in Delays, add_timer(t, delay)
      PROVE  Queue!Next
  BY <1>1, <1>7 DEF Queue!Next
<1> QED BY <1>3, <1>4, <1>5, <1>6, <1>7 DEF Next, Tick

(* The heap keeps what a container of timers promises: callbacks run       *)
(* earliest first, never before their time and never once the timer is     *)
(* cancelled (min_heap.cpp:137-165).                                       *)
THEOREM HeapImplementsTimerQueue == Spec => ImplementsTimerQueue
<1>1. Init => HeapInv
  BY HeapStarts, HeapAssumption
<1>2. HeapInv /\ [Next]_vars => HeapInv'
  BY HeapStep, HeapAssumption
<1>3. Init => Queue!Init
  <2>1. Init => InHeap = {}
    BY HeapStarts, HeapAssumption
  <2> QED BY <2>1 DEF Init, Queue!Init
<1>4. HeapInv /\ [Next]_vars => [Queue!Next]_Queue!qvars
  BY QueueStep, HeapAssumption
<1> QED BY <1>1, <1>2, <1>3, <1>4, PTL DEF Spec, ImplementsTimerQueue, Queue!QSpec

-----------------------------------------------------------------------------
(* IdleTimer: a timer may be in several cells of the heap.                 *)
Members(h) == {h.array[i] : i \in 0 .. h.cur_size - 1}

IsHeap(h) ==
  /\ h = [array |-> h.array, capacity |-> h.capacity, cur_size |-> h.cur_size]
  /\ h.capacity \in Nat \ {0} /\ h.cur_size \in 0 .. h.capacity
  /\ h.array \in Cells(h.capacity)
  /\ Members(h) \subseteq Timers

LEMMA AddToHeap ==
  ASSUME NEW h, IsHeap(h), NEW t \in Timers, NEW ex \in [Timers -> Nat],
         NEW g, g = Add(h, t, ex)
  PROVE  IsHeap(g) /\ Members(g) = Members(h) \union {t}
<1>1. PICK a, c, n :
        a = h.array /\ c = h.capacity /\ n = h.cur_size
  BY DEF IsHeap
<1>2. /\ h = [array |-> a, capacity |-> c, cur_size |-> n] /\ a \in Cells(c)
      /\ c \in Nat \ {0} /\ n \in 0 .. c /\ n \in Nat
  BY <1>1 DEF IsHeap
<1>3. Used(a, n)
  BY <1>1 DEF IsHeap, Members, Used
<1>4. Grown(g, n, a, t, ex)
  BY <1>2, <1>3, AddRises
<1>5. Members(g) = Members(h) \union {t}
  <2>1. Holds(g.array, n, a, t) /\ g.cur_size = n + 1
    BY <1>4 DEF Grown
  <2>2. {g.array[i] : i \in 0 .. (n + 1) - 1} = {a[i] : i \in 0 .. n - 1} \union {t}
    BY <1>2, <2>1, WhatIsAdded
  <2> QED BY <1>1, <2>1, <2>2 DEF Members
<1>6. IsHeap(g)
  <2>1. Members(g) \subseteq Timers
    BY <1>5 DEF IsHeap
  <2>2. g.cur_size \in 0 .. g.capacity
    BY <1>2, <1>4 DEF Grown
  <2> QED BY <2>1, <2>2, <1>4 DEF Grown, IsHeap
<1> QED BY <1>5, <1>6

(* The heap part of the state, and that no cell has a timer that was not   *)
(* created yet.                                                            *)
HeapPart == TypeOK /\ InHeap \subseteq {t \in Timers : expire[t] # 0}

LEMMA HeapIsHeap ==
  ASSUME HeapPart
  PROVE  IsHeap(Heap) /\ Members(Heap) = InHeap
BY DEF HeapPart, TypeOK, IsHeap, Heap, Members, InHeap, Cells

LEMMA HeapSet ==
  ASSUME NEW h, IsHeap(h), SetHeap(h)
  PROVE  /\ InHeap' = Members(h)
         /\ capacity' \in Nat \ {0} /\ cur_size' \in 0 .. capacity'
         /\ array' \in [0 .. capacity' - 1 -> Timers \union {NULL}]
BY DEF IsHeap, SetHeap, Members, InHeap, Cells

(* adjust_timer() leaves the same timers in the heap, in more cells.       *)
LEMMA AdjustStep ==
  ASSUME HeapAssumption, IdleAssumption, HeapPart, NEW t \in InHeap,
         NEW n \in {0, 1, 2}, Adjust(t, n),
         UNCHANGED <<now, cur, ran, deleted>>, cb_func' \subseteq cb_func
  PROVE  /\ HeapPart' /\ InHeap' = InHeap
         /\ now + 3 * TIMESLOT \in Nat
         /\ \/ n = 0 /\ expire' = expire
            \/ n # 0 /\ expire' = [expire EXCEPT ![t] = now + 3 * TIMESLOT]
<1>1. PICK later : later = [expire EXCEPT ![t] = now + 3 * TIMESLOT]
  OBVIOUS
<1>2. t \in Timers /\ expire \in [Timers -> Nat] /\ now \in Nat \ {0} /\ TIMESLOT \in Nat \ {0}
  BY DEF HeapPart, TypeOK, HeapAssumption, IdleAssumption
<1>3. /\ later \in [Timers -> Nat] /\ now + 3 * TIMESLOT \in Nat
      /\ \A u \in Timers : expire[u] # 0 => later[u] # 0
  BY <1>1, <1>2
<1>4. \/ n = 0 /\ expire' = expire
      \/ n # 0 /\ expire' = later
  BY <1>1 DEF Adjust
<1>5. PICK h : /\ SetHeap(h)
               /\ \/ n = 0 /\ h = Heap
                  \/ n = 1 /\ h = Add(Heap, t, later)
                  \/ n = 2 /\ h = Add(Add(Heap, t, later), t, later)
  BY <1>1 DEF Adjust
<1>6. IsHeap(h) /\ Members(h) = InHeap
  <2>1. IsHeap(Heap) /\ Members(Heap) = InHeap
    BY HeapIsHeap
  <2>2. PICK g, g2 : g = Add(Heap, t, later) /\ g2 = Add(g, t, later)
    OBVIOUS
  <2>3. IsHeap(g) /\ Members(g) = Members(Heap) \union {t}
    BY <1>2, <1>3, <2>1, <2>2, AddToHeap
  <2>4. IsHeap(g2) /\ Members(g2) = Members(g) \union {t}
    BY <1>2, <1>3, <2>2, <2>3, AddToHeap
  <2>5. Members(g) = InHeap /\ Members(g2) = InHeap
    BY <2>1, <2>3, <2>4
  <2> QED BY <1>5, <2>1, <2>2, <2>3, <2>4, <2>5
<1>7. /\ InHeap' = InHeap
      /\ capacity' \in Nat \ {0} /\ cur_size' \in 0 .. capacity'
      /\ array' \in [0 .. capacity' - 1 -> Timers \union {NULL}]
  BY <1>5, <1>6, HeapSet
<1>8. expire' \in [Timers -> Nat] /\ \A u \in Timers : expire[u] # 0 => expire'[u] # 0
  BY <1>2, <1>3, <1>4
<1>9. TypeOK'
  BY <1>7, <1>8 DEF TypeOK, HeapPart
<1>10. (InHeap \subseteq {u \in Timers : expire[u] # 0})'
  BY <1>7, <1>8 DEF HeapPart
<1> QED BY <1>1, <1>3, <1>4, <1>7, <1>9, <1>10 DEF HeapPart

(* client_init() puts one timer more into the heap.                        *)
LEMMA ClientTimerStep ==
  ASSUME HeapAssumption, IdleAssumption, HeapPart, NEW t \in Timers,
         add_timer(t, 3 * TIMESLOT)
  PROVE  /\ HeapPart' /\ InHeap' = InHeap \union {t} /\ t \notin InHeap
         /\ now + 3 * TIMESLOT \in Nat
         /\ expire' = [expire EXCEPT ![t] = now + 3 * TIMESLOT]
<1>1. PICK ex : ex = expire'
  OBVIOUS
<1>2. now \in Nat \ {0} /\ TIMESLOT \in Nat \ {0} /\ expire \in [Timers -> Nat]
  BY DEF HeapPart, TypeOK, HeapAssumption, IdleAssumption
<1>3. /\ expire[t] = 0 /\ ex = [expire EXCEPT ![t] = now + 3 * TIMESLOT]
      /\ cb_func' = cb_func \union {t} /\ UNCHANGED <<now, cur, ran, deleted>>
  BY <1>1 DEF add_timer
<1>4. /\ ex \in [Timers -> Nat] /\ now + 3 * TIMESLOT \in Nat /\ ex[t] # 0
      /\ \A u \in Timers : expire[u] # 0 => ex[u] # 0
  BY <1>2, <1>3
<1>5. PICK h : h = Add(Heap, t, ex)
  OBVIOUS
<1>6. IsHeap(h) /\ Members(h) = InHeap \union {t}
  BY <1>4, <1>5, HeapIsHeap, AddToHeap
<1>7. /\ InHeap' = InHeap \union {t}
      /\ capacity' \in Nat \ {0} /\ cur_size' \in 0 .. capacity'
      /\ array' \in [0 .. capacity' - 1 -> Timers \union {NULL}]
  <2>1. SetHeap(h)
    BY <1>1, <1>5 DEF add_timer
  <2> QED BY <2>1, <1>6, HeapSet
<1>8. TypeOK'
  BY <1>1, <1>3, <1>4, <1>7 DEF HeapPart, TypeOK
<1>9. (InHeap \subseteq {u \in Timers : expire[u] # 0})'
  BY <1>1, <1>4, <1>7 DEF HeapPart
<1>10. t \notin InHeap
  BY <1>3 DEF HeapPart
<1> QED BY <1>1, <1>3, <1>4, <1>7, <1>8, <1>9, <1>10 DEF HeapPart

(* tick() takes one cell out; its timer may still be in another.           *)
LEMMA TickPopStep ==
  ASSUME HeapPart, TickPop
  PROVE  /\ HeapPart' /\ array[0] \in InHeap
         /\ InHeap' = {array[i] : i \in 1 .. cur_size - 1}
         /\ InHeap = InHeap' \union {array[0]}
<1>1. /\ capacity \in Nat /\ expire \in [Timers -> Nat] /\ array \in Cells(capacity)
      /\ cur_size \in 0 .. capacity /\ InHeap \subseteq Timers
  BY DEF HeapPart, TypeOK, Cells
<1>2. PICK n \in 0 .. capacity - 1 : n = cur_size - 1 /\ cur_size = n + 1
  BY <1>1 DEF TickPop, Due, empty
<1>3. Used(array, n + 1)
  BY <1>1, <1>2 DEF Used, InHeap
<1>4. PICK b : b = percolate_down([array EXCEPT ![0] = array[n]], 0, n)
  OBVIOUS
<1>5. b \in Cells(capacity) /\ Moved(b, array, n)
  BY <1>1, <1>3, <1>4, PopSinks
<1>6. /\ array' = b /\ cur_size' = n /\ capacity' = capacity /\ expire' = expire
      /\ deleted' = deleted \union {array[0]} /\ cb_func' = cb_func \ {array[0]}
      /\ UNCHANGED <<now, cur>> /\ ran' \subseteq ran \union {array[0]}
  BY <1>2, <1>4 DEF TickPop
<1>7. InHeap' = {array[i] : i \in 1 .. n}
  <2>1. {b[i] : i \in 0 .. n - 1} = {array[i] : i \in 1 .. n}
    BY <1>5 DEF Moved
  <2> QED BY <2>1, <1>6 DEF InHeap
<1>8. InHeap = {array[i] : i \in 0 .. n}
  BY <1>2 DEF InHeap
<1>9. array[0] \in InHeap /\ InHeap = InHeap' \union {array[0]}
  BY <1>7, <1>8
<1>10. TypeOK'
  <2>1. array[0] \in Timers
    BY <1>1, <1>9
  <2>2. /\ capacity' \in Nat \ {0} /\ cur_size' \in 0 .. capacity'
        /\ array' \in [0 .. capacity' - 1 -> Timers \union {NULL}]
    BY <1>2, <1>5, <1>6 DEF Cells, HeapPart, TypeOK
  <2> QED BY <2>1, <2>2, <1>6 DEF HeapPart, TypeOK
<1>11. (InHeap \subseteq {u \in Timers : expire[u] # 0})'
  BY <1>6, <1>9 DEF HeapPart
<1> QED BY <1>2, <1>7, <1>9, <1>10, <1>11 DEF HeapPart

(* The connections, where the loop is, which timer each connection has,    *)
(* and where the alarm is.                                                 *)
ConnPart ==
  /\ users_timer \in [Fds -> Timers \union {NULL}]
  /\ user_data \in [Timers -> Fds \union {NULL}]
  /\ open \subseteq Fds
  /\ active \in [Fds -> {0} \union Epoch .. MaxTime]

LoopPart ==
  /\ batch \subseteq Fds \union {"listen", "pipe"}
  /\ m_timeout \in BOOLEAN /\ m_stop_server \in BOOLEAN
  /\ alarm_at \in Nat
  /\ pipe \subseteq {"SIGALRM", "SIGTERM"}
  /\ pc \in {"wait", "events", "tick", "stopped", "undefined"}
  /\ pc \notin {"tick", "undefined"} => cur = 0
  /\ pc = "tick" => m_timeout /\ batch = {}
  /\ batch \intersect Fds \subseteq open

Matching ==
  /\ InHeap \intersect cb_func = {users_timer[fd] : fd \in open}
  /\ \A fd \in open : /\ user_data[users_timer[fd]] = fd
                      /\ active[fd] + 3 * TIMESLOT <= expire[users_timer[fd]]

AlarmOnce ==
  /\ alarm_at # 0 \/ "SIGALRM" \in pipe \/ m_timeout
  /\ ~(alarm_at # 0 /\ "SIGALRM" \in pipe)
  /\ ~(alarm_at # 0 /\ m_timeout)
  /\ ~("SIGALRM" \in pipe /\ m_timeout)

IdleInv ==
  HeapPart /\ ConnPart /\ LoopPart /\ (pc # "undefined" => Matching /\ AlarmOnce)

LEMMA IdleTimes ==
  ASSUME HeapAssumption, IdleAssumption, HeapPart
  PROVE  /\ Epoch \in Nat \ {0} /\ now \in Nat \ {0} /\ now \in Epoch .. MaxTime
         /\ cur \in 0 .. now /\ TIMESLOT \in Nat \ {0}
         /\ expire \in [Timers -> Nat] /\ InHeap \subseteq Timers
BY DEF HeapPart, TypeOK, HeapAssumption, IdleAssumption

LEMMA IdleStarts ==
  ASSUME HeapAssumption, IdleAssumption, IdleInit
  PROVE  IdleInv
<1>1. HeapPart
  BY HeapStarts DEF IdleInit, HeapPart, HeapInv, WellFormed
<1>2. ConnPart
  BY DEF IdleInit, ConnPart
<1>3. Epoch + TIMESLOT \in Nat \ {0}
  BY DEF HeapAssumption, IdleAssumption
<1>4. LoopPart /\ AlarmOnce
  BY <1>3 DEF IdleInit, Init, LoopPart, AlarmOnce
<1>5. Matching
  BY HeapStarts DEF IdleInit, Matching
<1> QED BY <1>1, <1>2, <1>4, <1>5 DEF IdleInv

(* A step that leaves the cells and the connections alone.                 *)
LEMMA CellsKept ==
  ASSUME HeapPart, ConnPart, pc # "undefined" => Matching,
         UNCHANGED <<array, capacity, cur_size, expire, cb_func, ran, deleted, conn>>,
         now' \in Epoch .. MaxTime, cur' \in 0 .. now'
  PROVE  HeapPart' /\ ConnPart' /\ (pc # "undefined" => Matching')
<1>1. InHeap' = InHeap
  BY DEF InHeap
<1>2. HeapPart'
  BY <1>1 DEF HeapPart, TypeOK
<1>3. ConnPart'
  BY DEF ConnPart, conn
<1>4. Matching => Matching'
  BY <1>1 DEF Matching, conn
<1> QED BY <1>2, <1>3, <1>4

(* The steps of the loop and of the signals.                               *)
LEMMA LoopStep ==
  ASSUME HeapAssumption, IdleAssumption, IdleInv,
         \/ EpollWait \/ AcceptEnds \/ TimeSiganl \/ EventsDone
         \/ SigAlrm \/ SigTerm \/ UNCHANGED ivars
  PROVE  IdleInv'
<1>1. HeapPart /\ ConnPart /\ LoopPart /\ (pc # "undefined" => Matching /\ AlarmOnce)
  BY DEF IdleInv
<1>2. UNCHANGED <<vars, conn>>
  BY DEF EpollWait, AcceptEnds, TimeSiganl, EventsDone, SigAlrm, SigTerm, ivars
<1>3. HeapPart' /\ ConnPart' /\ (pc # "undefined" => Matching')
  BY <1>1, <1>2, CellsKept, IdleTimes DEF vars
<1>4. LoopPart' /\ (pc # "undefined" => AlarmOnce')
  <2>1. UNCHANGED <<open, cur>>
    BY <1>2 DEF vars, conn
  <2>2. CASE EpollWait
    <3>1. PICK ready \in SUBSET (open \union {"listen"}) :
            batch' = ready \union {p \in {"pipe"} : pipe # {}}
      BY <2>2 DEF EpollWait
    <3>2. batch' \subseteq Fds \union {"listen", "pipe"} /\ batch' \intersect Fds \subseteq open
      BY <1>1, <3>1 DEF ConnPart, IdleAssumption
    <3> QED BY <2>1, <2>2, <3>2, <1>1 DEF EpollWait, LoopPart, AlarmOnce
  <2>3. CASE AcceptEnds
    BY <2>1, <2>3, <1>1 DEF AcceptEnds, LoopPart, AlarmOnce
  <2>4. CASE TimeSiganl
    BY <2>1, <2>4, <1>1 DEF TimeSiganl, LoopPart, AlarmOnce
  <2>5. CASE EventsDone
    BY <2>1, <2>5, <1>1 DEF EventsDone, LoopOn, LoopPart, AlarmOnce
  <2>6. CASE SigAlrm
    BY <2>1, <2>6, <1>1 DEF SigAlrm, LoopPart, AlarmOnce
  <2>7. CASE SigTerm
    BY <2>1, <2>7, <1>1 DEF SigTerm, LoopPart, AlarmOnce
  <2>8. CASE UNCHANGED ivars
    BY <2>1, <2>8, <1>1 DEF ivars, loop, LoopPart, AlarmOnce
  <2> QED BY <2>2, <2>3, <2>4, <2>5, <2>6, <2>7, <2>8
<1>5. pc' # "undefined" => pc # "undefined"
  BY DEF EpollWait, AcceptEnds, TimeSiganl, EventsDone, SigAlrm, SigTerm, ivars, loop
<1> QED BY <1>3, <1>4, <1>5 DEF IdleInv

(* tick() begins and ends, and time passes.                                *)
LEMMA ClockStep ==
  ASSUME HeapAssumption, IdleAssumption, IdleInv, HandlerStart \/ HandlerEnd \/ Pass
  PROVE  IdleInv'
<1>1. HeapPart /\ ConnPart /\ LoopPart /\ (pc # "undefined" => Matching /\ AlarmOnce)
  BY DEF IdleInv
<1>2. /\ UNCHANGED <<array, capacity, cur_size, expire, cb_func, ran, deleted, conn>>
      /\ now' \in Epoch .. MaxTime /\ cur' \in 0 .. now' /\ pc # "undefined"
      /\ pc' # "undefined"
  <2>1. CASE HandlerStart
    BY <2>1, <1>1, IdleTimes DEF HandlerStart, TickStart
  <2>2. CASE HandlerEnd
    BY <2>2, <1>1, IdleTimes DEF HandlerEnd, TickEnd, LoopOn
  <2>3. CASE Pass
    BY <2>3, <1>1, IdleTimes DEF Pass, Clock, loop, HeapAssumption
  <2> QED BY <2>1, <2>2, <2>3
<1>3. HeapPart' /\ ConnPart' /\ Matching'
  BY <1>1, <1>2, CellsKept
<1>4. LoopPart' /\ AlarmOnce'
  <2>1. open' = open
    BY <1>2 DEF conn
  <2>2. CASE HandlerStart
    BY <2>1, <2>2, <1>1 DEF HandlerStart, LoopPart, AlarmOnce
  <2>3. CASE HandlerEnd
    <3>1. alarm_at' \in Nat \ {0}
      <4>1. alarm_at' = now + (IF empty THEN TIMESLOT ELSE expire[array[0]])
        BY <2>3 DEF HandlerEnd, NextAlarm
      <4>2. now \in Nat \ {0} /\ TIMESLOT \in Nat
        BY <1>1, IdleTimes
      <4>3. ~empty => expire[array[0]] \in Nat
        <5>1. ~empty => 0 \in 0 .. cur_size - 1
          BY <1>1 DEF empty, HeapPart, TypeOK
        <5>2. ~empty => array[0] \in InHeap
          BY <5>1, Zenon DEF InHeap
        <5> QED BY <5>2, <1>1, IdleTimes
      <4> QED BY <4>1, <4>2, <4>3
    <3> QED BY <2>1, <2>3, <3>1, <1>1, <1>2 DEF HandlerEnd, TickEnd, LoopOn, LoopPart, AlarmOnce
  <2>4. CASE Pass
    BY <2>1, <2>4, <1>1, <1>2 DEF Pass, Clock, loop, LoopPart, AlarmOnce
  <2> QED BY <2>2, <2>3, <2>4
<1> QED BY <1>2, <1>3, <1>4 DEF IdleInv

(* A client is accepted and gets a timer that is new.                      *)
LEMMA ClientInitStep ==
  ASSUME HeapAssumption, IdleAssumption, IdleInv,
         NEW t \in Timers, NEW fd \in Fds, ClientInit(t, fd)
  PROVE  IdleInv'
<1>1. HeapPart /\ ConnPart /\ LoopPart /\ Matching /\ AlarmOnce
  BY DEF IdleInv, ClientInit
<1>2. /\ HeapPart' /\ InHeap' = InHeap \union {t} /\ t \notin InHeap
      /\ now + 3 * TIMESLOT \in Nat
      /\ expire' = [expire EXCEPT ![t] = now + 3 * TIMESLOT]
  BY <1>1, ClientTimerStep DEF ClientInit
<1>3. /\ users_timer' = [users_timer EXCEPT ![fd] = t]
      /\ user_data' = [user_data EXCEPT ![t] = fd]
      /\ open' = open \union {fd} /\ fd \notin open
      /\ active' = [active EXCEPT ![fd] = now]
      /\ cb_func' = cb_func \union {t} /\ cur' = cur
      /\ UNCHANGED loop
  BY DEF ClientInit, add_timer
<1>4. now \in Epoch .. MaxTime /\ expire \in [Timers -> Nat] /\ InHeap \subseteq Timers
  BY <1>1, IdleTimes
<1>5. ConnPart'
  BY <1>1, <1>3, <1>4 DEF ConnPart
<1>6. LoopPart' /\ AlarmOnce'
  BY <1>1, <1>3 DEF loop, LoopPart, AlarmOnce
<1>7. Matching'
  <2>1. \A g \in open : users_timer[g] \in InHeap /\ users_timer[g] # t /\ g # fd
    BY <1>1, <1>2, <1>3 DEF Matching
  <2>2. users_timer'[fd] = t /\ user_data'[t] = fd /\ active'[fd] = now
    BY <1>1, <1>3 DEF ConnPart
  <2>3. ASSUME NEW g \in open
        PROVE  /\ users_timer'[g] = users_timer[g] /\ active'[g] = active[g]
               /\ user_data'[users_timer[g]] = user_data[users_timer[g]]
               /\ expire'[users_timer[g]] = expire[users_timer[g]]
    BY <2>1, <1>1, <1>2, <1>3, <1>4 DEF ConnPart
  <2>4. (InHeap \intersect cb_func)' = (InHeap \intersect cb_func) \union {t}
    BY <1>2, <1>3
  <2>5. {users_timer'[g] : g \in open'} = {users_timer[g] : g \in open} \union {t}
    BY <1>3, <2>2, <2>3
  <2>6. ASSUME NEW g \in open'
        PROVE  /\ user_data'[users_timer'[g]] = g
               /\ active'[g] + 3 * TIMESLOT <= expire'[users_timer'[g]]
    <3>1. CASE g = fd
      <4>1. expire'[t] = now + 3 * TIMESLOT
        BY <1>2, <1>4
      <4> QED BY <3>1, <4>1, <2>2, <1>2
    <3>2. CASE g \in open
      BY <3>2, <2>3, <1>1 DEF Matching
    <3> QED BY <3>1, <3>2, <1>3
  <2> QED BY <1>1, <2>4, <2>5, <2>6 DEF Matching
<1> QED BY <1>2, <1>5, <1>6, <1>7 DEF IdleInv

(* A read or a write moves the timer of its connection; one that fails     *)
(* closes the connection and takes the timer's callback away.              *)
LEMMA HandledStep ==
  ASSUME HeapAssumption, IdleAssumption, IdleInv, NEW fd \in Fds,
         ReadOrWrite(fd) \/ ReadOrWriteFails(fd)
  PROVE  IdleInv'
<1>1. HeapPart /\ ConnPart /\ LoopPart /\ Matching /\ AlarmOnce /\ Handled(fd)
  BY DEF IdleInv, ReadOrWrite, ReadOrWriteFails, Handled
<1>2. /\ batch' = batch \ {fd} /\ fd \in open
      /\ UNCHANGED <<now, cur, ran, deleted, users_timer, user_data, m_timeout,
                     m_stop_server, alarm_at, pipe, pc>>
  BY <1>1 DEF Handled, LoopPart
<1>3. PICK t \in InHeap : t = users_timer[fd] /\ t \in cb_func
  BY <1>1, <1>2 DEF Matching
<1>4. PICK n \in {0, 1, 2} : Adjust(t, n) /\ (ReadOrWrite(fd) => n # 0)
  BY <1>3 DEF ReadOrWrite, ReadOrWriteFails, Keeps, Closes
<1>5. cb_func' \subseteq cb_func
  BY DEF ReadOrWrite, ReadOrWriteFails, DealTimer
<1>6. /\ HeapPart' /\ InHeap' = InHeap /\ now + 3 * TIMESLOT \in Nat
      /\ \/ n = 0 /\ expire' = expire
         \/ n # 0 /\ expire' = [expire EXCEPT ![t] = now + 3 * TIMESLOT]
  BY <1>1, <1>2, <1>4, <1>5, AdjustStep
<1>7. now \in Epoch .. MaxTime /\ expire \in [Timers -> Nat] /\ InHeap \subseteq Timers
  BY <1>1, IdleTimes
<1>8. \A g \in open : users_timer[g] \in InHeap /\ (g # fd => users_timer[g] # t)
  BY <1>1, <1>2, <1>3 DEF Matching
<1>9. \A g \in open : g # fd => expire'[users_timer[g]] = expire[users_timer[g]]
  BY <1>6, <1>7, <1>8
<1>10. CASE ReadOrWrite(fd)
  <2>1. /\ active' = [active EXCEPT ![fd] = now]
        /\ UNCHANGED <<cb_func, open, users_timer, user_data>>
    BY <1>2, <1>10 DEF ReadOrWrite
  <2>2. ConnPart'
    BY <2>1, <1>1, <1>7 DEF ConnPart
  <2>3. LoopPart' /\ AlarmOnce'
    BY <2>1, <1>1, <1>2 DEF LoopPart, AlarmOnce
  <2>4. ASSUME NEW g \in open
        PROVE  active'[g] + 3 * TIMESLOT <= expire'[users_timer[g]]
    <3>1. CASE g = fd
      <4>1. expire'[t] = now + 3 * TIMESLOT /\ active'[g] = now
        BY <3>1, <2>1, <1>1, <1>4, <1>6, <1>7, <1>10 DEF ConnPart
      <4> QED BY <3>1, <4>1, <1>3, <1>6
    <3>2. CASE g # fd
      <4>1. active'[g] = active[g]
        BY <3>2, <2>1, <1>1 DEF ConnPart
      <4> QED BY <3>2, <4>1, <1>1, <1>9 DEF Matching
    <3> QED BY <3>1, <3>2
  <2>5. Matching'
    BY <2>1, <2>4, <1>1, <1>6 DEF Matching
  <2> QED BY <2>2, <2>3, <2>5, <1>6 DEF IdleInv
<1>11. CASE ReadOrWriteFails(fd)
  <2>1. /\ open' = open \ {fd} /\ cb_func' = cb_func \ {t}
        /\ UNCHANGED <<active, users_timer, user_data>>
    BY <1>2, <1>3, <1>11 DEF ReadOrWriteFails, DealTimer
  <2>2. ConnPart'
    BY <2>1, <1>1 DEF ConnPart
  <2>3. LoopPart' /\ AlarmOnce'
    BY <2>1, <1>1, <1>2 DEF LoopPart, AlarmOnce
  <2>4. {users_timer[g] : g \in open'} = {users_timer[g] : g \in open} \ {t}
    BY <2>1, <1>3, <1>8
  <2>5. (InHeap \intersect cb_func)' = (InHeap \intersect cb_func) \ {t}
    BY <2>1, <1>6
  <2>6. \A g \in open' : active[g] + 3 * TIMESLOT <= expire'[users_timer[g]]
    BY <2>1, <1>1, <1>9 DEF Matching
  <2>7. Matching'
    BY <2>1, <2>4, <2>5, <2>6, <1>1 DEF Matching
  <2> QED BY <2>2, <2>3, <2>7, <1>6 DEF IdleInv
<1> QED BY <1>10, <1>11

(* Whose connection the timer at the top closes.                           *)
LEMMA TopCloses ==
  ASSUME HeapAssumption, IdleAssumption, IdleInv, HandlerPop, array[0] \in cb_func
  PROVE  \E fd \in open : /\ users_timer[fd] = array[0]
                          /\ open' = open \ {fd}
                          /\ active[fd] + 3 * TIMESLOT <= now
<1>1. HeapPart /\ ConnPart /\ LoopPart /\ Matching
  BY DEF IdleInv, HandlerPop
<1>2. PICK t : t = array[0]
  OBVIOUS
<1>3. t \in InHeap /\ t \in cb_func
  BY <1>1, <1>2, TickPopStep DEF HandlerPop
<1>4. PICK fd \in open : t = users_timer[fd]
  BY <1>1, <1>3 DEF Matching
<1>5. user_data[t] = fd /\ active[fd] + 3 * TIMESLOT <= expire[t]
  BY <1>1, <1>4 DEF Matching
<1>6. open' = open \ {fd}
  BY <1>2, <1>3, <1>5 DEF HandlerPop
<1>7. active[fd] + 3 * TIMESLOT <= now
  <2>1. expire[t] <= cur /\ cur \in 0 .. now
    BY <1>1, <1>2, IdleTimes DEF HandlerPop, TickPop, Due
  <2>2. expire[t] \in Nat /\ now \in Nat /\ TIMESLOT \in Nat
    BY <1>1, <1>3, IdleTimes
  <2>3. active[fd] \in Nat
    BY <1>1, <1>4 DEF ConnPart, HeapAssumption
  <2> QED BY <1>5, <2>1, <2>2, <2>3
<1> QED BY <1>2, <1>4, <1>6, <1>7

LEMMA HandlerPopStep ==
  ASSUME HeapAssumption, IdleAssumption, IdleInv, HandlerPop
  PROVE  IdleInv'
<1>1. HeapPart /\ ConnPart /\ LoopPart /\ Matching /\ AlarmOnce
  BY DEF IdleInv, HandlerPop
<1>2. PICK t : t = array[0]
  OBVIOUS
<1>3. /\ HeapPart' /\ t \in InHeap /\ InHeap = InHeap' \union {t}
      /\ InHeap' = {array[i] : i \in 1 .. cur_size - 1}
  BY <1>1, <1>2, TickPopStep DEF HandlerPop
<1>4. /\ UNCHANGED <<users_timer, user_data, active,
                     batch, m_timeout, m_stop_server, alarm_at, pipe>>
      /\ cb_func' = cb_func \ {t} /\ UNCHANGED <<expire, now, cur>>
      /\ pc = "tick" /\ pc' \in {"tick", "undefined"}
      /\ pc' # "undefined" => t \notin InHeap'
      /\ open' \subseteq open
      /\ t \notin cb_func => open' = open
  BY <1>2, <1>3 DEF HandlerPop, TickPop
<1>5. ConnPart'
  BY <1>1, <1>4 DEF ConnPart
<1>6. LoopPart' /\ AlarmOnce'
  BY <1>1, <1>4 DEF LoopPart, AlarmOnce
<1>7. ASSUME pc' # "undefined" PROVE Matching'
  <2>1. InHeap' = InHeap \ {t}
    BY <1>3, <1>4, <1>7
  <2>2. (InHeap \intersect cb_func)' = (InHeap \intersect cb_func) \ {t}
    BY <2>1, <1>4
  <2>3. {users_timer[fd] : fd \in open'} = {users_timer[fd] : fd \in open} \ {t}
    <3>1. CASE t \in cb_func
      <4>1. PICK fd \in open : users_timer[fd] = t /\ open' = open \ {fd}
        BY <3>1, <1>2, TopCloses
      <4>2. \A g \in open : g # fd => users_timer[g] # t
        BY <4>1, <1>1 DEF Matching
      <4> QED BY <4>1, <4>2
    <3>2. CASE t \notin cb_func
      <4>1. t \notin {users_timer[fd] : fd \in open}
        BY <3>2, <1>1 DEF Matching
      <4> QED BY <3>2, <4>1, <1>4
    <3> QED BY <3>1, <3>2
  <2> QED BY <2>2, <2>3, <1>1, <1>4 DEF Matching
<1> QED BY <1>3, <1>5, <1>6, <1>7 DEF IdleInv

LEMMA IdleStep ==
  ASSUME HeapAssumption, IdleAssumption, IdleInv, [IdleNext]_ivars
  PROVE  IdleInv'
<1>1. CASE EpollWait \/ AcceptEnds \/ TimeSiganl \/ EventsDone
           \/ SigAlrm \/ SigTerm \/ UNCHANGED ivars
  BY <1>1, LoopStep
<1>2. CASE HandlerStart \/ HandlerEnd \/ Pass
  BY <1>2, ClockStep
<1>3. ASSUME NEW t \in Timers, NEW fd \in Fds, ClientInit(t, fd) PROVE IdleInv'
  BY <1>3, ClientInitStep
<1>4. ASSUME NEW fd \in Fds, ReadOrWrite(fd) \/ ReadOrWriteFails(fd) PROVE IdleInv'
  BY <1>4, HandledStep
<1>5. CASE HandlerPop
  BY <1>5, HandlerPopStep
<1> QED BY <1>1, <1>2, <1>3, <1>4, <1>5 DEF IdleNext, MainStep

LEMMA IdleInvariant == IdleSpec => []IdleInv
<1>1. IdleInit => IdleInv
  BY IdleStarts, HeapAssumption, IdleAssumption
<1>2. IdleInv /\ [IdleNext]_ivars => IdleInv'
  BY IdleStep, HeapAssumption, IdleAssumption
<1> QED BY <1>1, <1>2, PTL DEF IdleSpec

(* The timers in the heap that would still close something are those of    *)
(* the open connections, one each (my_web.cpp:321-343, 381-393;            *)
(* min_heap.cpp:99-107, 153-159).                                          *)
THEOREM StaleTimersStaySilent == IdleSpec => []StaleTimersSilent
<1>1. IdleInv => IdleTypeOK
  BY DEF IdleInv, HeapPart, ConnPart, LoopPart, IdleTypeOK
<1>2. IdleInv => StaleTimersSilent
  BY <1>1 DEF IdleInv, Matching, StaleTimersSilent
<1> QED BY <1>2, IdleInvariant, PTL

(* There is always one alarm on its way, set, sent or noticed              *)
(* (my_web.cpp:102-120, 312, 446-491, 705-710).                            *)
THEOREM AlarmsNeitherLostNorDoubled == IdleSpec => []OneAlarm
<1>1. ASSUME IdleInv, pc # "undefined"
      PROVE  Cardinality({x \in {"set", "sent", "noticed"} :
               \/ x = "set" /\ alarm_at # 0
               \/ x = "sent" /\ "SIGALRM" \in pipe
               \/ x = "noticed" /\ m_timeout}) = 1
  <2> DEFINE S == {x \in {"set", "sent", "noticed"} :
               \/ x = "set" /\ alarm_at # 0
               \/ x = "sent" /\ "SIGALRM" \in pipe
               \/ x = "noticed" /\ m_timeout}
  <2>1. AlarmOnce
    BY <1>1 DEF IdleInv
  <2>2. S = {"set"} \/ S = {"sent"} \/ S = {"noticed"}
    BY <2>1 DEF AlarmOnce
  <2>3. \A x : Cardinality({x}) = 1
    BY FS_Singleton
  <2> HIDE DEF S
  <2>4. Cardinality(S) = 1
    BY <2>2, <2>3
  <2> QED BY <2>4 DEF S
<1>2. IdleInv => OneAlarm
  BY <1>1 DEF OneAlarm
<1> QED BY <1>2, IdleInvariant, PTL

(* tick() closes only connections that were idle for three slots, however  *)
(* the heap is ordered (my_web.cpp:123-133, 356-366).                      *)
THEOREM OnlyIdleClientsClosed == IdleSpec => TickClosesOnlyIdle
<1>1. ASSUME IdleInv, [IdleNext]_ivars, NEW fd \in open, pc = "tick", fd \notin open'
      PROVE  active[fd] + 3 * TIMESLOT <= now
  <2>1. HandlerPop
    BY <1>1 DEF IdleNext, MainStep, EpollWait, AcceptEnds, TimeSiganl, ClientInit,
                ReadOrWrite, ReadOrWriteFails, Handled, EventsDone, HandlerStart,
                HandlerEnd, SigAlrm, SigTerm, Pass, conn, ivars
  <2>2. array[0] \in cb_func
    BY <2>1, <1>1 DEF HandlerPop
  <2>3. PICK g \in open : open' = open \ {g} /\ active[g] + 3 * TIMESLOT <= now
    BY <2>1, <2>2, <1>1, TopCloses, HeapAssumption, IdleAssumption
  <2> QED BY <2>3, <1>1
<1>2. IdleInv /\ [IdleNext]_ivars =>
        [\A fd \in open : pc = "tick" /\ fd \notin open'
            => active[fd] + 3 * TIMESLOT <= now]_ivars
  BY <1>1
<1> QED BY <1>2, IdleInvariant, PTL DEF IdleSpec, TickClosesOnlyIdle
=============================================================================
