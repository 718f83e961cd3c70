--------------------------- MODULE AccountsProofs ---------------------------
(***************************************************************************)
(* Proofs about LRUCache, for any capacity, and about Accounts, for any    *)
(* number of workers, names, passwords, addresses, requests and restarts.  *)
(* Chain says in which order the pointers l and r go through the nodes;    *)
(* deletel() takes a node out of the order and reflash() puts it in front. *)
(* Agrees says that the map and the nodes have the same keys.  With them   *)
(* get() and put() are steps of Cache.                                     *)
(*                                                                         *)
(* Unless two registrations of a name met, the name has at most one row in *)
(* the table, and its password is in users or with the one worker that is  *)
(* about to put it there.  Every name in the cache has an account, and     *)
(* every step of a worker is one of Cache or leaves the entries alone.     *)
(***************************************************************************)
EXTENDS Accounts, SequenceTheorems, WellFoundedInduction, TLAPS

LinkType ==
  [l : [head .. tail -> head .. tail \cup {NULL}],
   r : [head .. tail -> head .. tail \cup {NULL}]]

(* P is the order of m nodes between the sentinels.                        *)
Chain(lk, P, m) ==
  /\ P \in [0 .. m + 1 -> head .. tail]
  /\ P[0] = head /\ P[m + 1] = tail
  /\ \A i, j \in 0 .. m + 1 : P[i] = P[j] => i = j
  /\ \A i \in 0 .. m : lk.r[P[i]] = P[i + 1] /\ lk.l[P[i + 1]] = P[i]

(* ... without the j-th, and with n in front.                              *)
Cut(P, m, j) == [i \in 0 .. m |-> IF i < j THEN P[i] ELSE P[i + 1]]

Push(P, m, n) ==
  [i \in 0 .. m + 2 |-> IF i = 0 THEN head ELSE IF i = 1 THEN n ELSE P[i - 1]]

(* Nodes are used from the first.                                          *)
Covers(P, m) ==
  /\ \A i \in 1 .. m : P[i] \in 1 .. m
  /\ \A n \in 1 .. m : \E i \in 1 .. m : P[i] = n

Order(P) == Chain(link, P, size) /\ Covers(P, size)

Agrees ==
  /\ \A key \in Keys : Known(key) =>
       map[key] \in 1 .. size /\ k[map[key]] = key
  /\ \A n \in 1 .. size :
       k[n] \in Keys /\ map[k[n]] = n /\ v[n] \in Values

Ordered == \E P \in [0 .. size + 1 -> head .. tail] : Order(P)

CacheInv == CacheTypeOK /\ Agrees /\ Ordered

-----------------------------------------------------------------------------
LEMMA CacheSizes ==
  /\ capacity \in Nat /\ capacity > 0 /\ tail = capacity + 1 /\ head = 0
  /\ NULL \notin Int /\ NULL \notin Keys /\ NULL \notin Values
  /\ \A n \in head .. tail : n # NULL
BY CacheAssumption DEF head, tail

LEMMA TwoUpdates ==
  ASSUME NEW S, NEW T, NEW f \in [S -> T], NEW a, NEW b, NEW x \in T, NEW y \in T
  PROVE  [f EXCEPT ![a] = x, ![b] = y] \in [S -> T]
OBVIOUS

LEMMA ChainNodes ==
  ASSUME NEW lk, NEW m \in Nat, NEW P, Chain(lk, P, m), NEW i \in 1 .. m
  PROVE  P[i] \in Nodes
<1>1. P[i] \in head .. tail /\ P[i] # P[0] /\ P[i] # P[m + 1]
  BY DEF Chain
<1> QED BY <1>1, CacheSizes DEF Chain, Nodes

(* deletel() of a node in the list.                                        *)
LEMMA ChainDelete ==
  ASSUME NEW lk \in LinkType, NEW m \in Nat, NEW P, Chain(lk, P, m),
         NEW j \in 1 .. m
  PROVE  /\ deletel(lk, P[j]) \in LinkType
         /\ Chain(deletel(lk, P[j]), Cut(P, m, j), m - 1)
<1> DEFINE d == deletel(lk, P[j])
           Q == Cut(P, m, j)
<1>1. /\ P \in [0 .. m + 1 -> head .. tail] /\ P[0] = head /\ P[m + 1] = tail
      /\ \A a, b \in 0 .. m + 1 : P[a] = P[b] => a = b
      /\ \A i \in 0 .. m : lk.r[P[i]] = P[i + 1] /\ lk.l[P[i + 1]] = P[i]
  BY DEF Chain
<1>2. /\ lk.r[P[j]] = P[j + 1] /\ P[j + 1] \in head .. tail
      /\ lk.l[P[j]] = P[j - 1] /\ P[j - 1] \in head .. tail
  <2>1. j - 1 \in 0 .. m /\ (j - 1) + 1 = j /\ j + 1 \in 0 .. m + 1
    OBVIOUS
  <2> QED BY <1>1, <2>1
<1>3. d = [l |-> [lk.l EXCEPT ![P[j + 1]] = P[j - 1]],
           r |-> [lk.r EXCEPT ![P[j - 1]] = P[j + 1]]]
  <2>1. lk.r[P[j]] # NULL
    BY <1>2, CacheSizes
  <2> QED BY <2>1, <1>2 DEF deletel
<1>4. /\ d \in LinkType
      /\ \A x \in head .. tail :
           /\ d.r[x] = IF x = P[j - 1] THEN P[j + 1] ELSE lk.r[x]
           /\ d.l[x] = IF x = P[j + 1] THEN P[j - 1] ELSE lk.l[x]
  <2>1. /\ lk.l \in [head .. tail -> head .. tail \cup {NULL}]
        /\ lk.r \in [head .. tail -> head .. tail \cup {NULL}]
        /\ d.l = [lk.l EXCEPT ![P[j + 1]] = P[j - 1]]
        /\ d.r = [lk.r EXCEPT ![P[j - 1]] = P[j + 1]]
    BY <1>3 DEF LinkType
  <2>2. /\ d.l \in [head .. tail -> head .. tail \cup {NULL}]
        /\ d.r \in [head .. tail -> head .. tail \cup {NULL}]
    BY <1>2, <2>1
  <2>3. d \in LinkType
    BY <1>3, <2>1, <2>2 DEF LinkType
  <2> QED BY <1>2, <2>1, <2>3
<1>5. /\ Q \in [0 .. m -> head .. tail] /\ Q[0] = head /\ Q[m] = tail
  BY <1>1 DEF Cut
<1>6. \A a, b \in 0 .. m : Q[a] = Q[b] => a = b
  <2> DEFINE up(a) == IF a < j THEN a ELSE a + 1
  <2>1. \A a \in 0 .. m : Q[a] = P[up(a)] /\ up(a) \in 0 .. m + 1
    BY DEF Cut
  <2>2. \A a, b \in 0 .. m : up(a) = up(b) => a = b
    OBVIOUS
  <2> HIDE DEF up, Q
  <2> SUFFICES ASSUME NEW a \in 0 .. m, NEW b \in 0 .. m, Q[a] = Q[b]
               PROVE  a = b
    OBVIOUS
  <2>3. P[up(a)] = P[up(b)] /\ up(a) \in 0 .. m + 1 /\ up(b) \in 0 .. m + 1
    BY <2>1
  <2>4. up(a) = up(b)
    BY <1>1, <2>3
  <2> QED BY <2>2, <2>4
<1>7. ASSUME NEW i \in 0 .. m - 1
      PROVE  d.r[Q[i]] = Q[i + 1] /\ d.l[Q[i + 1]] = Q[i]
  <2>0. /\ Q[i] = IF i < j THEN P[i] ELSE P[i + 1]
        /\ Q[i + 1] = IF i + 1 < j THEN P[i + 1] ELSE P[i + 2]
    BY DEF Cut
  <2>1. CASE i + 1 < j
    <3>1. Q[i] = P[i] /\ Q[i + 1] = P[i + 1]
      BY <2>0, <2>1
    <3>2. /\ P[i] # P[j - 1] /\ P[i + 1] # P[j + 1]
          /\ P[i] \in head .. tail /\ P[i + 1] \in head .. tail
      <4>1. /\ i \in 0 .. m + 1 /\ i + 1 \in 0 .. m + 1
            /\ j - 1 \in 0 .. m + 1 /\ j + 1 \in 0 .. m + 1
            /\ i # j - 1 /\ i + 1 # j + 1
        BY <2>1
      <4> QED BY <1>1, <4>1
    <3>3. lk.r[P[i]] = P[i + 1] /\ lk.l[P[i + 1]] = P[i]
      BY <1>1
    <3> QED BY <1>4, <3>1, <3>2, <3>3
  <2>2. CASE i + 1 = j
    <3>1. Q[i] = P[j - 1] /\ Q[i + 1] = P[j + 1]
      <4>1. i = j - 1 /\ i + 2 = j + 1
        BY <2>2
      <4> QED BY <2>0, <2>2, <4>1
    <3> QED BY <1>2, <1>4, <3>1
  <2>3. CASE i + 1 > j
    <3>1. Q[i] = P[i + 1] /\ Q[i + 1] = P[i + 2]
      BY <2>0, <2>3
    <3>2. P[i + 1] # P[j - 1] /\ P[i + 2] # P[j + 1]
      <4>1. /\ i + 2 \in 0 .. m + 1 /\ i + 1 \in 0 .. m + 1
            /\ j - 1 \in 0 .. m + 1 /\ j + 1 \in 0 .. m + 1
            /\ i + 1 # j - 1 /\ i + 2 # j + 1
        BY <2>3
      <4> QED BY <1>1, <4>1
    <3>3. lk.r[P[i + 1]] = P[i + 2] /\ lk.l[P[i + 2]] = P[i + 1]
      <4>1. i + 1 \in 0 .. m /\ (i + 1) + 1 = i + 2
        OBVIOUS
      <4> QED BY <1>1, <4>1
    <3>4. P[i + 1] \in head .. tail /\ P[i + 2] \in head .. tail
      BY <1>1
    <3> QED BY <1>4, <3>1, <3>2, <3>3, <3>4
  <2> QED BY <2>1, <2>2, <2>3
<1> HIDE DEF d, Q
<1>8. Chain(d, Q, m - 1)
  <2>1. (m - 1) + 1 = m
    OBVIOUS
  <2> QED BY <2>1, <1>5, <1>6, <1>7 DEF Chain
<1> QED BY <1>4, <1>8 DEF d, Q

(* ... and a node that is in no list is put in front.                      *)
LEMMA ChainPush ==
  ASSUME NEW lk \in LinkType, NEW m \in Nat, NEW P, Chain(lk, P, m),
         NEW n \in Nodes, \A i \in 1 .. m : P[i] # n
  PROVE  /\ reflash_new(lk, n) \in LinkType
         /\ Chain(reflash_new(lk, n), Push(P, m, n), m + 1)
<1> DEFINE d == reflash_new(lk, n)
           Q == Push(P, m, n)
<1>1. /\ P \in [0 .. m + 1 -> head .. tail] /\ P[0] = head /\ P[m + 1] = tail
      /\ \A a, b \in 0 .. m + 1 : P[a] = P[b] => a = b
      /\ \A i \in 0 .. m : lk.r[P[i]] = P[i + 1] /\ lk.l[P[i + 1]] = P[i]
  BY DEF Chain
<1>2. /\ n \in head .. tail /\ n # head /\ n # tail
      /\ \A i \in 0 .. m + 1 : P[i] # n
  <2>1. n \in head .. tail /\ n # head /\ n # tail
    BY CacheSizes DEF Nodes
  <2>2. ASSUME NEW i \in 0 .. m + 1 PROVE P[i] # n
    <3>1. i = 0 \/ i = m + 1 \/ i \in 1 .. m
      OBVIOUS
    <3> QED BY <3>1, <2>1, <1>1
  <2> QED BY <2>1, <2>2
<1>3. lk.r[head] = P[1] /\ P[1] \in head .. tail /\ P[1] # head
  <2>1. 0 \in 0 .. m /\ 0 + 1 = 1 /\ 1 \in 0 .. m + 1
    OBVIOUS
  <2> QED BY <1>1, <2>1
<1>4. d = [l |-> [lk.l EXCEPT ![P[1]] = n, ![n] = head],
           r |-> [lk.r EXCEPT ![n] = P[1], ![head] = n]]
  BY <1>3 DEF reflash_new
<1>5. /\ d \in LinkType
      /\ \A x \in head .. tail :
           /\ d.r[x] = IF x = head THEN n ELSE IF x = n THEN P[1] ELSE lk.r[x]
           /\ d.l[x] = IF x = n THEN head ELSE IF x = P[1] THEN n ELSE lk.l[x]
  <2>1. /\ lk.l \in [head .. tail -> head .. tail \cup {NULL}]
        /\ lk.r \in [head .. tail -> head .. tail \cup {NULL}]
        /\ d.l = [lk.l EXCEPT ![P[1]] = n, ![n] = head]
        /\ d.r = [lk.r EXCEPT ![n] = P[1], ![head] = n]
    BY <1>4 DEF LinkType
  <2>2. head \in head .. tail
    BY CacheSizes
  <2> DEFINE T == head .. tail \cup {NULL}
  <2>3. d.l \in [head .. tail -> T] /\ d.r \in [head .. tail -> T]
    <3>1. n \in T /\ head \in T /\ P[1] \in T
      BY <1>2, <1>3, <2>2
    <3>2. lk.l \in [head .. tail -> T] /\ lk.r \in [head .. tail -> T]
      BY <2>1
    <3> HIDE DEF T
    <3>3. [lk.l EXCEPT ![P[1]] = n, ![n] = head] \in [head .. tail -> T]
      BY <3>1, <3>2, TwoUpdates
    <3>4. [lk.r EXCEPT ![n] = P[1], ![head] = n] \in [head .. tail -> T]
      BY <3>1, <3>2, TwoUpdates
    <3> HIDE DEF d
    <3> QED BY <2>1, <3>3, <3>4, Zenon
  <2>4. d \in LinkType
    BY <1>4, <2>1, <2>3 DEF LinkType
  <2> QED BY <1>2, <1>3, <2>1, <2>2, <2>4
<1>6. /\ Q \in [0 .. m + 2 -> head .. tail] /\ Q[0] = head /\ Q[m + 2] = tail
      /\ Q[1] = n /\ \A i \in 2 .. m + 2 : Q[i] = P[i - 1]
  BY <1>1, <1>2, CacheSizes DEF Push
<1>7. \A a, b \in 0 .. m + 2 : Q[a] = Q[b] => a = b
  <2> SUFFICES ASSUME NEW a \in 0 .. m + 2, NEW b \in 0 .. m + 2, Q[a] = Q[b]
               PROVE  a = b
    OBVIOUS
  <2>1. \A i \in 2 .. m + 2 : Q[i] = P[i - 1] /\ i - 1 \in 0 .. m + 1
          /\ Q[i] # n /\ Q[i] # head
    <3>1. TAKE i \in 2 .. m + 2
    <3>2. PICK j \in 1 .. m + 1 : j = i - 1
      OBVIOUS
    <3>3. Q[i] = P[j] /\ i - 1 \in 0 .. m + 1
      BY <3>2, <1>6
    <3> HIDE DEF Q
    <3>4. P[j] # n /\ P[j] # head
      BY <1>1, <1>2
    <3> QED BY <3>2, <3>3, <3>4
  <2>2. CASE a \in 2 .. m + 2 /\ b \in 2 .. m + 2
    <3>1. a - 1 = b - 1
      BY <1>1, <2>1, <2>2
    <3> QED BY <3>1
  <2>3. CASE a \in {0, 1} \/ b \in {0, 1}
    <3> HIDE DEF Q
    <3>1. \A i \in 0 .. m + 2 : i \in {0, 1} \/ i \in 2 .. m + 2
      OBVIOUS
    <3> QED BY <1>2, <1>6, <2>1, <2>3, <3>1
  <2> QED BY <2>2, <2>3
<1>8. ASSUME NEW i \in 0 .. m + 1
      PROVE  d.r[Q[i]] = Q[i + 1] /\ d.l[Q[i + 1]] = Q[i]
  <2>1. CASE i = 0
    <3>1. Q[i] = head /\ Q[i + 1] = n
      BY <1>6, <2>1
    <3>2. head \in head .. tail
      BY CacheSizes
    <3> QED BY <3>1, <3>2, <1>2, <1>3, <1>5
  <2>2. CASE i = 1
    <3>1. Q[i] = n /\ Q[i + 1] = P[1]
      BY <1>6, <2>2
    <3>2. P[1] # n
      BY <1>2
    <3> QED BY <3>1, <3>2, <1>2, <1>3, <1>5
  <2>3. CASE i \in 2 .. m + 1
    <3>1. Q[i] = P[i - 1] /\ Q[i + 1] = P[i]
      <4>1. i + 1 \in 2 .. m + 2 /\ (i + 1) - 1 = i
        BY <2>3
      <4> HIDE DEF Q
      <4> QED BY <4>1, <1>6, <2>3
    <3>2. lk.r[P[i - 1]] = P[i] /\ lk.l[P[i]] = P[i - 1]
      <4>1. i - 1 \in 0 .. m /\ (i - 1) + 1 = i
        BY <2>3
      <4> QED BY <1>1, <4>1
    <3>3. /\ P[i - 1] # n /\ P[i] # n /\ P[i - 1] # head /\ P[i] # P[1]
          /\ P[i - 1] \in head .. tail /\ P[i] \in head .. tail
      BY <1>1, <1>2, <2>3
    <3> QED BY <1>2, <1>5, <3>1, <3>2, <3>3
  <2> QED BY <2>1, <2>2, <2>3
<1> HIDE DEF d, Q
<1>9. Chain(d, Q, m + 1)
  <2>1. (m + 1) + 1 = m + 2
    OBVIOUS
  <2> QED BY <2>1, <1>6, <1>7, <1>8 DEF Chain
<1> QED BY <1>5, <1>9 DEF d, Q

(* reflash() of a node in the list, and of one that is not.                *)
Moved(P, m, j) ==
  [i \in 0 .. m + 1 |-> IF i = 0 THEN head ELSE IF i = 1 THEN P[j]
                        ELSE IF i <= j THEN P[i - 1] ELSE P[i]]

LEMMA MovedIsPushed ==
  ASSUME NEW m \in Nat, NEW P, NEW j \in 1 .. m
  PROVE  Push(Cut(P, m, j), m - 1, P[j]) = Moved(P, m, j)
<1>1. (m - 1) + 2 = m + 1
  OBVIOUS
<1>2. ASSUME NEW i \in 2 .. m + 1
      PROVE  Cut(P, m, j)[i - 1] = IF i <= j THEN P[i - 1] ELSE P[i]
  <2>1. i - 1 \in 0 .. m /\ (i - 1 < j <=> i <= j) /\ (i - 1) + 1 = i
    OBVIOUS
  <2> QED BY <2>1 DEF Cut
<1>3. ASSUME NEW i \in 0 .. m + 1
      PROVE  (IF i = 0 THEN head ELSE IF i = 1 THEN P[j] ELSE Cut(P, m, j)[i - 1])
             = IF i = 0 THEN head ELSE IF i = 1 THEN P[j]
               ELSE IF i <= j THEN P[i - 1] ELSE P[i]
  BY <1>2
<1> QED BY <1>1, <1>3 DEF Push, Moved

LEMMA ReflashKnown ==
  ASSUME NEW lk \in LinkType, NEW m \in Nat, NEW P, Chain(lk, P, m),
         NEW j \in 1 .. m
  PROVE  /\ reflash(lk, P[j]) \in LinkType
         /\ Chain(reflash(lk, P[j]), Moved(P, m, j), m)
<1> DEFINE d == deletel(lk, P[j])
           Q == Cut(P, m, j)
<1>1. reflash(lk, P[j]) = reflash_new(d, P[j])
  BY DEF reflash, reflash_new
<1>2. d \in LinkType /\ Chain(d, Q, m - 1) /\ m - 1 \in Nat
  BY ChainDelete
<1>3. P[j] \in Nodes
  BY ChainNodes
<1>4. \A i \in 1 .. m - 1 : Q[i] # P[j]
  <2> SUFFICES ASSUME NEW i \in 1 .. m - 1 PROVE Q[i] # P[j]
    OBVIOUS
  <2>1. Q[i] = IF i < j THEN P[i] ELSE P[i + 1]
    BY DEF Cut
  <2>2. \A a \in 0 .. m + 1 : a # j => P[a] # P[j]
    BY DEF Chain
  <2> QED BY <2>1, <2>2
<1> HIDE DEF d, Q
<1>5. /\ reflash_new(d, P[j]) \in LinkType
      /\ Chain(reflash_new(d, P[j]), Push(Q, m - 1, P[j]), (m - 1) + 1)
  BY <1>2, <1>3, <1>4, ChainPush
<1>6. (m - 1) + 1 = m /\ Push(Q, m - 1, P[j]) = Moved(P, m, j)
  BY MovedIsPushed DEF Q
<1> QED BY <1>1, <1>5, <1>6

Blank(lk, n) == [l |-> [lk.l EXCEPT ![n] = NULL], r |-> [lk.r EXCEPT ![n] = NULL]]

LEMMA ReflashNew ==
  ASSUME NEW lk \in LinkType, NEW m \in Nat, NEW P, Chain(lk, P, m),
         NEW n \in Nodes, \A i \in 1 .. m : P[i] # n
  PROVE  /\ reflash(Blank(lk, n), n) \in LinkType
         /\ Chain(reflash(Blank(lk, n), n), Push(P, m, n), m + 1)
<1> DEFINE b == Blank(lk, n)
<1>1. n \in head .. tail /\ n # head /\ n # tail
  BY CacheSizes DEF Nodes
<1>2. /\ lk.l \in [head .. tail -> head .. tail \cup {NULL}]
      /\ lk.r \in [head .. tail -> head .. tail \cup {NULL}]
      /\ b.l = [lk.l EXCEPT ![n] = NULL] /\ b.r = [lk.r EXCEPT ![n] = NULL]
  BY DEF LinkType, Blank
<1>3. /\ b \in LinkType /\ b.r[n] = NULL
      /\ \A x \in head .. tail : x # n => b.r[x] = lk.r[x] /\ b.l[x] = lk.l[x]
  <2>1. b.l \in [head .. tail -> head .. tail \cup {NULL}]
    BY <1>2, Zenon
  <2>2. b.r \in [head .. tail -> head .. tail \cup {NULL}]
    BY <1>2, Zenon
  <2> QED BY <1>1, <1>2, <2>1, <2>2 DEF LinkType, Blank
<1>4. Chain(b, P, m)
  <2>1. \A i \in 0 .. m + 1 : P[i] # n /\ P[i] \in head .. tail
    <3> SUFFICES ASSUME NEW i \in 0 .. m + 1 PROVE P[i] # n /\ P[i] \in head .. tail
      OBVIOUS
    <3>1. i = 0 \/ i = m + 1 \/ i \in 1 .. m
      OBVIOUS
    <3> QED BY <3>1, <1>1 DEF Chain
  <2>2. ASSUME NEW i \in 0 .. m PROVE b.r[P[i]] = P[i + 1] /\ b.l[P[i + 1]] = P[i]
    <3>1. lk.r[P[i]] = P[i + 1] /\ lk.l[P[i + 1]] = P[i]
      BY DEF Chain
    <3>2. i \in 0 .. m + 1 /\ i + 1 \in 0 .. m + 1
      OBVIOUS
    <3> HIDE DEF b
    <3> QED BY <3>1, <3>2, <2>1, <1>3
  <2> HIDE DEF b
  <2> QED BY <2>2 DEF Chain
<1>5. reflash(b, n) = reflash_new(b, n)
  BY <1>3 DEF reflash, reflash_new, deletel
<1> HIDE DEF b
<1>6. reflash(b, n) \in LinkType /\ Chain(reflash(b, n), Push(P, m, n), m + 1)
  BY <1>3, <1>4, <1>5, ChainPush
<1> QED BY <1>6 DEF b

-----------------------------------------------------------------------------
(* A least element, for want of induction.                                 *)
LEMMA Smallest ==
  ASSUME NEW D, D \subseteq Nat, D # {}
  PROVE  \E x \in D : \A y \in D : x <= y
<1>1. PICK x \in D : \A y \in D : <<y, x>> \notin OpToRel(<, Nat)
  BY NatLessThanWellFounded, WFMin, Zenon
<1>2. \A y \in D : ~(y < x)
  <2> SUFFICES ASSUME NEW y \in D, y < x PROVE FALSE
    OBVIOUS
  <2>1. <<y, x>> \in Nat \X Nat /\ <<y, x>>[1] < <<y, x>>[2]
    OBVIOUS
  <2> QED BY <1>1, <2>1, Zenon DEF OpToRel
<1> QED BY <1>2

(* Following r from the head, one gets the nodes in order.                 *)
LEMMA EntriesAre ==
  ASSUME NEW P, Chain(link, P, size), size \in Nat
  PROVE  Entries = [i \in 1 .. size |-> <<k[P[i]], v[P[i]]>>]
<1> DEFINE Sat(f) == f = [i \in 1 .. size |-> IF i = 1 THEN link.r[head]
                                              ELSE link.r[f[i - 1]]]
           p == [i \in 1 .. size |-> P[i]]
<1>1. Nth = CHOOSE f : Sat(f)
  BY DEF Nth
<1>2. \A i \in 1 .. size : P[i] = IF i = 1 THEN link.r[head] ELSE link.r[P[i - 1]]
  <2> SUFFICES ASSUME NEW i \in 1 .. size PROVE link.r[P[i - 1]] = P[i] /\ P[0] = head
    OBVIOUS
  <2>1. i - 1 \in 0 .. size /\ (i - 1) + 1 = i
    OBVIOUS
  <2> QED BY <2>1 DEF Chain
<1>3. Sat(p)
  BY <1>2
<1>4. Sat(Nth)
  <2> HIDE DEF Sat, p
  <2> QED BY <1>1, <1>3, Zenon
<1>5. \A i \in 1 .. size : Nth[i] = IF i = 1 THEN link.r[head] ELSE link.r[Nth[i - 1]]
  BY <1>4
<1>6. \A i \in 1 .. size : Nth[i] = P[i]
  <2> DEFINE D == {i \in 1 .. size : Nth[i] # P[i]}
  <2> SUFFICES ASSUME D # {} PROVE FALSE
    OBVIOUS
  <2>1. PICK i \in D : \A j \in D : i <= j
    <3>1. D \subseteq Nat
      OBVIOUS
    <3> HIDE DEF D
    <3> QED BY <3>1, Smallest
  <2>2. i # 1
    BY <1>2, <1>5
  <2>3. i - 1 \in 1 .. size /\ i - 1 \notin D
    BY <2>1, <2>2
  <2> QED BY <1>2, <1>5, <2>2, <2>3
<1> QED BY <1>6 DEF Entries

LEMMA EntriesAlways ==
  \A P : Chain(link, P, size) /\ size \in Nat =>
    Entries = [i \in 1 .. size |-> <<k[P[i]], v[P[i]]>>]
BY EntriesAre

LEMMA EntriesNext ==
  (\A P : Chain(link, P, size) /\ size \in Nat =>
    Entries = [i \in 1 .. size |-> <<k[P[i]], v[P[i]]>>])'
BY EntriesAlways, PTL

(* What Cache does to a sequence, element by element.                      *)
Pairs == Keys \X Values

ToFront(s, e, j) == <<e>> \o (SubSeq(s, 1, j - 1) \o SubSeq(s, j + 1, Len(s)))

LEMMA FrontOfMoved ==
  ASSUME NEW s \in Seq(Pairs), NEW e \in Pairs, NEW j \in 1 .. Len(s)
  PROVE  /\ ToFront(s, e, j) \in Seq(Pairs) /\ Len(ToFront(s, e, j)) = Len(s)
         /\ \A i \in 1 .. Len(s) :
              ToFront(s, e, j)[i] = IF i = 1 THEN e ELSE IF i <= j THEN s[i - 1] ELSE s[i]
<1> DEFINE n == Len(s)
           a == SubSeq(s, 1, j - 1)
           b == SubSeq(s, j + 1, n)
<1>0. n \in Nat /\ j \in 1 .. n
  OBVIOUS
<1>1. /\ a \in Seq(Pairs) /\ Len(a) = j - 1
      /\ \A i \in 1 .. j - 1 : a[i] = s[i]
  OBVIOUS
<1>2. /\ b \in Seq(Pairs) /\ Len(b) = n - j
      /\ \A i \in 1 .. n - j : b[i] = s[i + j]
  OBVIOUS
<1> HIDE DEF a, b
<1> DEFINE c == a \o b
<1>3. /\ c \in Seq(Pairs) /\ Len(c) = n - 1
      /\ \A i \in 1 .. n - 1 : c[i] = IF i < j THEN s[i] ELSE s[i + 1]
  <2>1. c \in Seq(Pairs) /\ Len(c) = n - 1
    <3>1. c \in Seq(Pairs) /\ Len(c) = Len(a) + Len(b)
      BY <1>1, <1>2, ConcatProperties, Zenon
    <3> HIDE DEF c, n
    <3> QED BY <3>1, <1>0, <1>1, <1>2
  <2>2. ASSUME NEW i \in 1 .. n - 1 PROVE c[i] = IF i < j THEN s[i] ELSE s[i + 1]
    <3>1. c[i] = IF i <= j - 1 THEN a[i] ELSE b[i - (j - 1)]
      BY <1>0, <1>1, <1>2
    <3>2. CASE i < j
      BY <3>1, <3>2, <1>0, <1>1
    <3>3. CASE ~(i < j)
      <4>1. PICK x \in 1 .. n - j : x = i - (j - 1) /\ x + j = i + 1
        BY <3>3, <1>0
      <4>2. c[i] = b[x]
        BY <3>1, <3>3, <4>1, <1>0
      <4>3. b[x] = s[x + j]
        BY <1>2
      <4> QED BY <3>3, <4>1, <4>2, <4>3, <1>0
    <3> QED BY <3>2, <3>3
  <2> QED BY <2>1, <2>2
<1> HIDE DEF c
<1> DEFINE d == <<e>> \o c
<1>4. /\ d \in Seq(Pairs) /\ Len(d) = n
      /\ d[1] = e /\ \A i \in 2 .. n : d[i] = c[i - 1]
  BY <1>0, <1>3
<1>5. \A i \in 1 .. n : d[i] = IF i = 1 THEN e ELSE IF i <= j THEN s[i - 1] ELSE s[i]
  <2> SUFFICES ASSUME NEW i \in 1 .. n, i # 1
               PROVE  d[i] = IF i <= j THEN s[i - 1] ELSE s[i]
    BY <1>4
  <2>1. i \in 2 .. n /\ i - 1 \in 1 .. n - 1 /\ (i - 1) + 1 = i
    OBVIOUS
  <2>2. d[i] = IF i - 1 < j THEN s[i - 1] ELSE s[i]
    BY <2>1, <1>3, <1>4
  <2>3. i - 1 < j <=> i <= j
    OBVIOUS
  <2> QED BY <2>2, <2>3
<1> HIDE DEF d
<1> QED BY <1>4, <1>5 DEF d, c, a, b, ToFront

(* ... and to a sequence that a new entry makes too long.                  *)
WithNew(s, e, c) ==
  LET t == <<e>> \o s IN SubSeq(t, 1, IF Len(t) < c THEN Len(t) ELSE c)

LEMMA FrontOfPushed ==
  ASSUME NEW s \in Seq(Pairs), NEW e \in Pairs, NEW c \in Nat, c > 0, Len(s) <= c
  PROVE  /\ WithNew(s, e, c) \in Seq(Pairs)
         /\ Len(WithNew(s, e, c)) = IF Len(s) < c THEN Len(s) + 1 ELSE c
         /\ \A i \in 1 .. Len(WithNew(s, e, c)) :
              WithNew(s, e, c)[i] = IF i = 1 THEN e ELSE s[i - 1]
<1> DEFINE t == <<e>> \o s
           n == IF Len(t) < c THEN Len(t) ELSE c
<1>1. /\ t \in Seq(Pairs) /\ Len(t) = Len(s) + 1
      /\ t[1] = e /\ \A i \in 2 .. Len(s) + 1 : t[i] = s[i - 1]
  OBVIOUS
<1>2. /\ n \in 1 .. Len(s) + 1 /\ n \in 1 .. Len(t)
      /\ n = IF Len(s) < c THEN Len(s) + 1 ELSE c
  BY <1>1
<1> HIDE DEF t, n, WithNew
<1>3. /\ SubSeq(t, 1, n) \in Seq(Pairs) /\ Len(SubSeq(t, 1, n)) = n
      /\ \A i \in 1 .. n : SubSeq(t, 1, n)[i] = t[i]
  BY <1>1, <1>2
<1>4. \A i \in 1 .. n : t[i] = IF i = 1 THEN e ELSE s[i - 1]
  BY <1>1, <1>2
<1>5. WithNew(s, e, c) = SubSeq(t, 1, n)
  BY DEF t, n, WithNew
<1>6. n = IF Len(s) < c THEN Len(s) + 1 ELSE c
  BY <1>2
<1> QED BY <1>3, <1>4, <1>5, <1>6

-----------------------------------------------------------------------------
Calls == [op : {"none", "put", "get"}, key : Keys \cup {NULL},
          value : Values \cup {NULL}]

LEMMA CallInCalls ==
  ASSUME NEW op \in {"put", "get"}, NEW key \in Keys,
         NEW value \in Values \cup {NULL}
  PROVE  Call(op, key, value) \in Calls
BY DEF Call, Calls

LEMMA CacheStarts == CacheInit => CacheInv /\ LRU!Init
<1> SUFFICES ASSUME CacheInit PROVE CacheInv /\ LRU!Init
  OBVIOUS
<1> USE CacheSizes DEF CacheInit
<1>1. CacheTypeOK
  <2>1. link \in LinkType
    BY DEF NoNodes, LinkType
  <2>2. call \in Calls
    BY DEF Calls, NoCall, Call
  <2> QED BY <2>1, <2>2 DEF CacheTypeOK, LinkType, Calls
<1>2. Agrees
  BY DEF Agrees, Known
<1>3. Order([i \in 0 .. 1 |-> IF i = 0 THEN head ELSE tail])
  <2> DEFINE P == [i \in 0 .. 1 |-> IF i = 0 THEN head ELSE tail]
  <2>1. link.r[head] = tail /\ link.l[tail] = head
    BY DEF NoNodes
  <2>2. Chain(link, P, 0)
    BY <2>1 DEF Chain
  <2> QED BY <2>2 DEF Order, Covers
<1>4. Ordered
  <2>1. [i \in 0 .. 1 |-> IF i = 0 THEN head ELSE tail] \in [0 .. size + 1 -> head .. tail]
    OBVIOUS
  <2> QED BY <2>1, <1>3 DEF Ordered
<1>5. Entries = <<>>
  BY DEF Entries
<1> QED BY <1>1, <1>2, <1>4, <1>5
        DEF CacheInv, LRU!Init, LRU!NoCall, LRU!Call, NoCall, Call

(* What CacheInv says of the entries.                                      *)
LEMMA EntriesType ==
  ASSUME CacheInv, NEW P, Order(P)
  PROVE  /\ size \in Nat /\ size <= capacity /\ link \in LinkType
         /\ Entries \in Seq(Pairs) /\ Len(Entries) = size
         /\ \A i \in 1 .. size : Entries[i] = <<k[P[i]], v[P[i]]>>
<1>1. size \in Nat /\ size <= capacity /\ link \in LinkType
  BY CacheSizes DEF CacheInv, CacheTypeOK, LinkType
<1>2. Entries = [i \in 1 .. size |-> <<k[P[i]], v[P[i]]>>]
  BY <1>1, EntriesAre DEF Order, Covers
<1>3. \A i \in 1 .. size : <<k[P[i]], v[P[i]]>> \in Keys \X Values
  BY DEF Order, Covers, CacheInv, Agrees
<1>4. Entries \in [1 .. size -> Pairs]
  BY <1>2, <1>3 DEF Pairs
<1> QED BY <1>1, <1>2, <1>4

(* A known key is at one place of the order.                               *)
LEMMA PlaceOfKey ==
  ASSUME CacheInv, NEW P, Order(P), NEW key \in Keys, Known(key)
  PROVE  \E j \in 1 .. size : /\ P[j] = map[key] /\ Entries[j][1] = key
                              /\ j \in LRU!Places(key)
<1>1. map[key] \in 1 .. size /\ k[map[key]] = key
  BY DEF CacheInv, Agrees
<1>2. PICK j \in 1 .. size : P[j] = map[key]
  BY <1>1 DEF Order, Covers
<1>3. Entries[j][1] = key /\ Len(Entries) = size
  BY <1>1, <1>2, EntriesType
<1> QED BY <1>2, <1>3 DEF LRU!Places

(* ... and an unknown one at none.                                         *)
LEMMA PlaceOfNewKey ==
  ASSUME CacheInv, NEW P, Order(P), NEW key \in Keys, ~Known(key)
  PROVE  LRU!Places(key) = {}
<1>1. ASSUME NEW i \in 1 .. size
      PROVE  Entries[i][1] = k[P[i]] /\ P[i] \in 1 .. size
  <2>1. Entries[i] = <<k[P[i]], v[P[i]]>>
    BY EntriesType
  <2>2. P[i] \in 1 .. size
    BY DEF Order, Covers
  <2> QED BY <2>1, <2>2
<1>2. \A n \in 1 .. size : k[n] # key
  BY CacheSizes DEF CacheInv, Agrees, Known
<1>3. Len(Entries) = size
  BY EntriesType
<1> QED BY <1>1, <1>2, <1>3 DEF LRU!Places


-----------------------------------------------------------------------------
LEMMA MovedCovers ==
  ASSUME NEW m \in Nat, NEW P, NEW j \in 1 .. m, Covers(P, m)
  PROVE  Covers(Moved(P, m, j), m)
<1> USE DEF Covers
<1> DEFINE Q == Moved(P, m, j)
<1>1. \A i \in 1 .. m : Q[i] = IF i = 1 THEN P[j] ELSE IF i <= j THEN P[i - 1] ELSE P[i]
  BY DEF Moved
<1> HIDE DEF Q
<1>2. ASSUME NEW i \in 1 .. m PROVE Q[i] \in 1 .. m
  <2>1. CASE i = 1 \/ i > j
    BY <1>1, <2>1
  <2>2. CASE i # 1 /\ i <= j
    <3>1. i - 1 \in 1 .. m
      BY <2>2
    <3> QED BY <3>1, <2>2, <1>1
  <2> QED BY <2>1, <2>2
<1>3. ASSUME NEW n \in 1 .. m PROVE \E i \in 1 .. m : Q[i] = n
  <2>1. PICK i \in 1 .. m : P[i] = n
    OBVIOUS
  <2>2. CASE i = j
    <3>1. 1 \in 1 .. m /\ Q[1] = P[j]
      BY <1>1
    <3> QED BY <3>1, <2>1, <2>2
  <2>3. CASE i < j
    <3>1. i + 1 \in 1 .. m /\ i + 1 # 1 /\ i + 1 <= j /\ (i + 1) - 1 = i
      BY <2>3
    <3>2. Q[i + 1] = P[i]
      BY <3>1, <1>1
    <3> QED BY <3>1, <3>2, <2>1
  <2>4. CASE i > j
    <3>1. Q[i] = P[i]
      BY <2>4, <1>1
    <3> QED BY <3>1, <2>1
  <2> QED BY <2>2, <2>3, <2>4
<1> QED BY <1>2, <1>3 DEF Q

LEMMA PushCovers ==
  ASSUME NEW m \in Nat, NEW P, Covers(P, m)
  PROVE  Covers(Push(P, m, m + 1), m + 1)
<1> USE DEF Covers
<1> DEFINE Q == Push(P, m, m + 1)
<1>1. \A i \in 1 .. m + 1 : Q[i] = IF i = 1 THEN m + 1 ELSE P[i - 1]
  BY DEF Push
<1> HIDE DEF Q
<1>2. ASSUME NEW i \in 1 .. m + 1 PROVE Q[i] \in 1 .. m + 1
  <2>1. CASE i = 1
    BY <1>1, <2>1
  <2>2. CASE i # 1
    <3>1. i - 1 \in 1 .. m
      BY <2>2
    <3> QED BY <3>1, <2>2, <1>1
  <2> QED BY <2>1, <2>2
<1>3. ASSUME NEW n \in 1 .. m + 1 PROVE \E i \in 1 .. m + 1 : Q[i] = n
  <2>1. CASE n = m + 1
    BY <1>1, <2>1
  <2>2. CASE n # m + 1
    <3>1. PICK i \in 1 .. m : P[i] = n
      BY <2>2
    <3>2. i + 1 \in 1 .. m + 1 /\ i + 1 # 1 /\ (i + 1) - 1 = i
      OBVIOUS
    <3>3. Q[i + 1] = P[i]
      BY <3>2, <1>1
    <3> QED BY <3>1, <3>2, <3>3
  <2> QED BY <2>1, <2>2
<1> QED BY <1>2, <1>3 DEF Q

(* The invariant, and the entries, after a step that leaves the order Q.   *)
LEMMA OrderNext ==
  ASSUME NEW m \in Nat, NEW Q, size' = m, Chain(link', Q, m), Covers(Q, m)
  PROVE  Ordered'
<1>1. Chain(link', Q, size') /\ Covers(Q, size')
  OBVIOUS
<1>2. Order(Q)'
  BY <1>1 DEF Order
<1>3. Q \in [0 .. size' + 1 -> head .. tail]
  BY <1>1 DEF Chain
<1> QED BY <1>2, <1>3 DEF Ordered

Lists(s, Q) ==
  /\ s \in Seq(Pairs) /\ Len(s) = size
  /\ \A i \in 1 .. size : s[i] = <<k[Q[i]], v[Q[i]]>>

LEMMA EntriesOfOrder ==
  ASSUME NEW m \in Nat, NEW Q, size' = m, Chain(link', Q, m), NEW s, Lists(s, Q)'
  PROVE  Entries' = s
<1> USE DEF Lists
<1>1. Chain(link', Q, size') /\ size' \in Nat
  OBVIOUS
<1>2. Entries' = [i \in 1 .. size' |-> <<k'[Q[i]], v'[Q[i]]>>]
  BY <1>1, EntriesNext
<1>3. s = [i \in 1 .. m |-> s[i]]
  OBVIOUS
<1>4. Entries' = [i \in 1 .. m |-> s[i]]
  BY <1>2
<1> QED BY <1>3, <1>4, Zenon

LEMMA UnchangedNodes ==
  ASSUME UNCHANGED <<map, k, v, link, size>>, CacheInv => call' \in Calls
  PROVE  Entries' = Entries /\ (CacheInv => CacheInv')
<1>1. Entries' = Entries
  BY DEF Entries, Nth
<1>2. CacheInv => CacheTypeOK'
  BY DEF CacheInv, CacheTypeOK, Calls
<1>3. Agrees => Agrees'
  BY DEF Agrees, Known
<1>4. Ordered => Ordered'
  BY DEF Ordered, Order
<1> QED BY <1>1, <1>2, <1>3, <1>4 DEF CacheInv

LEMMA UnchangedCache ==
  ASSUME UNCHANGED cacheVars
  PROVE  UNCHANGED <<Entries, call>> /\ (CacheInv => CacheInv')
<1>1. UNCHANGED <<map, k, v, link, size>> /\ UNCHANGED call
  BY DEF cacheVars
<1>2. CacheInv => call' \in Calls
  BY <1>1 DEF CacheInv, CacheTypeOK, Calls
<1> QED BY <1>1, <1>2, UnchangedNodes

(* A key that is known is used: get(), and put() of a known key.           *)
LEMMA Touch ==
  ASSUME CacheInv, NEW key \in Keys, Known(key), NEW value \in Values,
         NEW op \in {"put", "get"}, call' = Call(op, key, value),
         UNCHANGED <<map, k, size>>,
         v' = [v EXCEPT ![map[key]] = value],
         link' = reflash(link, map[key])
  PROVE  /\ CacheInv'
         /\ \E j \in LRU!Places(key) :
              /\ Entries' = <<<<key, value>>>> \o LRU!Without(j)
              /\ Entries[j] = <<key, v[map[key]]>>
<1>1. PICK P : Order(P)
  BY DEF CacheInv, Ordered
<1>2. PICK m \in Nat : size = m /\ m <= capacity
  BY <1>1, EntriesType
<1>3. PICK j \in 1 .. m : P[j] = map[key] /\ j \in LRU!Places(key)
  BY <1>1, <1>2, PlaceOfKey
<1>4. /\ Chain(link, P, m) /\ link \in LinkType
      /\ Covers(P, m)
  BY <1>1, <1>2, EntriesType DEF Order
<1>0. PICK Q : Q = Moved(P, m, j)
  OBVIOUS
<1>5. link' \in LinkType /\ Chain(link', Q, m) /\ Covers(Q, m)
  BY <1>0, <1>3, <1>4, ReflashKnown, MovedCovers
<1>6. \A i \in 1 .. m : Q[i] = IF i = 1 THEN P[j] ELSE IF i <= j THEN P[i - 1] ELSE P[i]
  BY <1>0 DEF Moved
<1>7. size' = m /\ Ordered'
  <2>1. size' = m
    BY <1>2
  <2> QED BY <1>5, <2>1, OrderNext
<1>8. /\ map[key] \in 1 .. m /\ k[map[key]] = key /\ map[key] \in Nodes
      /\ v \in [Nodes -> Values \cup {NULL}]
  BY <1>2, CacheSizes DEF CacheInv, Agrees, Nodes, CacheTypeOK
<1>9. \A n \in 1 .. m : v'[n] = IF n = map[key] THEN value ELSE v[n]
  BY <1>2, <1>8, CacheSizes DEF Nodes
<1>10. CacheTypeOK' /\ Agrees'
  <2>1. v' \in [Nodes -> Values \cup {NULL}]
    BY <1>8
  <2>2. CacheTypeOK'
    BY <2>1, <1>5, CallInCalls DEF CacheInv, CacheTypeOK, LinkType, Calls
  <2>3. Agrees'
    BY <1>2, <1>9 DEF CacheInv, Agrees, Known
  <2> QED BY <2>2, <2>3
<1>11. CacheInv'
  BY <1>7, <1>10 DEF CacheInv
<1>12. /\ Entries \in Seq(Pairs) /\ Len(Entries) = m
       /\ \A i \in 1 .. m : Entries[i] = <<k[P[i]], v[P[i]]>>
  BY <1>1, <1>2, EntriesType
<1> DEFINE e == <<key, value>>
<1>13. LET d == <<e>> \o LRU!Without(j) IN
       /\ d \in Seq(Pairs) /\ Len(d) = m
       /\ \A i \in 1 .. m :
            d[i] = IF i = 1 THEN e ELSE IF i <= j THEN Entries[i - 1] ELSE Entries[i]
  <2>1. e \in Pairs
    BY DEF Pairs
  <2>2. j \in 1 .. Len(Entries)
    BY <1>12
  <2>3. PICK s \in Seq(Pairs) : s = Entries
    BY <1>12
  <2>4. j \in 1 .. Len(s) /\ <<e>> \o LRU!Without(j) = ToFront(s, e, j)
    BY <2>2, <2>3 DEF LRU!Without, ToFront
  <2> HIDE DEF e
  <2>5. /\ ToFront(s, e, j) \in Seq(Pairs) /\ Len(ToFront(s, e, j)) = Len(s)
        /\ \A i \in 1 .. Len(s) : ToFront(s, e, j)[i]
                = IF i = 1 THEN e ELSE IF i <= j THEN s[i - 1] ELSE s[i]
    BY <2>1, <2>4, FrontOfMoved
  <2> QED BY <1>12, <2>3, <2>4, <2>5
<1>14. ASSUME NEW i \in 1 .. m
       PROVE  <<k'[Q[i]], v'[Q[i]]>>
              = IF i = 1 THEN e ELSE IF i <= j THEN Entries[i - 1] ELSE Entries[i]
  <2>1. \A x \in 1 .. m : x # j => P[x] # map[key]
    <3>1. /\ \A a, b \in 0 .. m + 1 : P[a] = P[b] => a = b
          /\ j \in 0 .. m + 1 /\ \A x \in 1 .. m : x \in 0 .. m + 1
      BY <1>4 DEF Chain
    <3> QED BY <3>1, <1>3
  <2>2. ASSUME NEW x \in 1 .. m, x # j, Q[i] = P[x]
        PROVE  <<k'[Q[i]], v'[Q[i]]>> = Entries[x]
    <3>1. k'[P[x]] = k[P[x]] /\ v'[P[x]] = v[P[x]]
      BY <2>1, <2>2, <1>4, <1>9
    <3> QED BY <3>1, <2>2, <1>12
  <2>3. CASE i = 1
    <3>1. Q[i] = map[key]
      BY <2>3, <1>3, <1>6
    <3> QED BY <2>3, <3>1, <1>8, <1>9
  <2>4. CASE i # 1 /\ i <= j
    <3>1. i - 1 \in 1 .. m /\ i - 1 # j /\ Q[i] = P[i - 1]
      BY <2>4, <1>6
    <3> QED BY <2>4, <3>1, <2>2
  <2>5. CASE i > j
    <3>1. i # j /\ i # 1 /\ Q[i] = P[i]
      BY <2>5, <1>6
    <3> QED BY <2>5, <3>1, <2>2
  <2> QED BY <2>3, <2>4, <2>5
<1>15. Entries' = <<e>> \o LRU!Without(j)
  <2>1. PICK d : d = <<e>> \o LRU!Without(j)
    OBVIOUS
  <2>2. /\ d \in Seq(Pairs) /\ Len(d) = m
        /\ \A i \in 1 .. m : d[i] = <<k'[Q[i]], v'[Q[i]]>>
    BY <2>1, <1>13, <1>14
  <2>3. Lists(d, Q)'
    BY <2>2, <1>7 DEF Lists
  <2>4. Entries' = d
    BY <1>5, <1>7, <2>3, EntriesOfOrder
  <2> QED BY <2>1, <2>4
<1>16. Entries[j] = <<key, v[map[key]]>>
  BY <1>3, <1>8, <1>12
<1> QED BY <1>3, <1>11, <1>15, <1>16

LEMMA GetStep ==
  ASSUME CacheInv, NEW key \in Keys, get(key)
  PROVE  CacheInv' /\ LRU!Get(key)
<1>1. CASE Known(key)
  <2> DEFINE value == v[map[key]]
  <2>1. /\ value \in Values /\ map[key] \in Nodes
        /\ v \in [Nodes -> Values \cup {NULL}]
    BY <1>1, CacheSizes DEF CacheInv, Agrees, CacheTypeOK, Nodes
  <2>2. v' = [v EXCEPT ![map[key]] = value]
    BY <2>1 DEF get
  <2>4. call' = Call("get", key, value)
    BY <1>1 DEF get
  <2> HIDE DEF value
  <2>3. /\ CacheInv'
        /\ \E j \in LRU!Places(key) :
              /\ Entries' = <<<<key, value>>>> \o LRU!Without(j)
              /\ Entries[j] = <<key, v[map[key]]>>
    BY <1>1, <2>1, <2>2, <2>4, Touch DEF get
  <2>5. PICK j \in LRU!Places(key) :
              /\ Entries' = <<Entries[j]>> \o LRU!Without(j)
              /\ Entries[j][2] = value
    <3>1. PICK j \in LRU!Places(key) :
              /\ Entries' = <<<<key, value>>>> \o LRU!Without(j)
              /\ Entries[j] = <<key, value>>
      BY <2>3 DEF value
    <3>2. PICK e : e = Entries[j]
      OBVIOUS
    <3>3. Entries' = <<e>> \o LRU!Without(j) /\ e[2] = value
      BY <3>1, <3>2
    <3> QED BY <3>2, <3>3
  <2>6. call' = LRU!Call("get", key, Entries[j][2])
    BY <2>4, <2>5 DEF Call, LRU!Call
  <2> QED BY <2>3, <2>5, <2>6 DEF LRU!Get, LRU!Hit
<1>2. CASE ~Known(key)
  <2>1. UNCHANGED <<map, k, v, link, size>> /\ call' = Call("get", key, NULL)
    BY <1>2 DEF get
  <2>2. CacheInv' /\ UNCHANGED Entries
    BY <2>1, CallInCalls, UnchangedNodes
  <2>3. PICK P : Order(P)
    BY DEF CacheInv, Ordered
  <2>4. LRU!Places(key) = {}
    BY <1>2, <2>3, PlaceOfNewKey
  <2> QED BY <2>1, <2>2, <2>4 DEF LRU!Get, LRU!Miss, Call, LRU!Call
<1> QED BY <1>1, <1>2

LEMMA PutKnownStep ==
  ASSUME CacheInv, NEW key \in Keys, NEW value \in Values, PutKnown(key, value),
         call' = Call("put", key, value)
  PROVE  CacheInv' /\ LRU!Put(key, value)
<1>1. /\ CacheInv'
      /\ \E j \in LRU!Places(key) :
              Entries' = <<<<key, value>>>> \o LRU!Without(j)
  BY Touch DEF PutKnown
<1> QED BY <1>1 DEF LRU!Put, Call, LRU!Call

-----------------------------------------------------------------------------
(* A new entry in front of those of the nodes at the first m places.       *)
Shifted(Q, P, m, n) ==
  /\ Q[1] = n
  /\ \A i \in 2 .. m + 1 : Q[i] = P[i - 1] /\ P[i - 1] # n /\ P[i - 1] \in Nodes

Room == IF size < capacity THEN size + 1 ELSE capacity

LEMMA NewInFront ==
  ASSUME CacheInv, NEW P, Order(P), NEW key \in Keys, NEW value \in Values,
         NEW n \in Nodes, NEW m \in Nat, NEW c \in Nat, m <= size,
         c = m + 1, c = Room, size' = c,
         NEW Q, Chain(link', Q, c), Shifted(Q, P, m, n),
         k' = [k EXCEPT ![n] = key], v' = [v EXCEPT ![n] = value]
  PROVE  Entries' = LRU!Front(<<<<key, value>>>> \o Entries)
<1> USE DEF Shifted, Room
<1> DEFINE e == <<key, value>>
<1>1. PICK s \in Seq(Pairs) : s = Entries /\ Len(s) = size
  BY EntriesType
<1>2. /\ size \in Nat /\ size <= capacity
      /\ \A i \in 1 .. size : s[i] = <<k[P[i]], v[P[i]]>>
  BY <1>1, EntriesType
<1>3. e \in Pairs
  BY DEF Pairs
<1>4. \A x \in Nodes : /\ k'[x] = IF x = n THEN key ELSE k[x]
                       /\ v'[x] = IF x = n THEN value ELSE v[x]
  BY DEF CacheInv, CacheTypeOK
<1>5. PICK d : d = LRU!Front(<<e>> \o Entries)
  OBVIOUS
<1>6. d = WithNew(s, e, capacity)
  BY <1>1, <1>5 DEF LRU!Front, WithNew
<1> HIDE DEF e
<1>7. /\ d \in Seq(Pairs) /\ Len(d) = m + 1
      /\ \A i \in 1 .. Len(d) : d[i] = IF i = 1 THEN e ELSE s[i - 1]
  <2>1. Len(s) <= capacity /\ capacity \in Nat /\ capacity > 0
    BY <1>1, <1>2, CacheSizes
  <2>2. /\ WithNew(s, e, capacity) \in Seq(Pairs)
        /\ Len(WithNew(s, e, capacity)) = IF Len(s) < capacity THEN Len(s) + 1 ELSE capacity
        /\ \A i \in 1 .. Len(WithNew(s, e, capacity)) :
             WithNew(s, e, capacity)[i] = IF i = 1 THEN e ELSE s[i - 1]
    BY <1>3, <2>1, FrontOfPushed
  <2> QED BY <2>2, <1>1, <1>6
<1>8. ASSUME NEW i \in 1 .. m + 1
      PROVE  d[i] = <<k'[Q[i]], v'[Q[i]]>>
  <2>1. CASE i = 1
    BY <2>1, <1>4, <1>7 DEF e
  <2>2. CASE i # 1
    <3>1. i \in 2 .. m + 1 /\ i - 1 \in 1 .. size
      BY <2>2, <1>2
    <3>2. Q[i] = P[i - 1] /\ P[i - 1] # n /\ P[i - 1] \in Nodes
      BY <3>1
    <3>3. d[i] = s[i - 1]
      BY <2>2, <1>7
    <3>4. s[i - 1] = <<k[P[i - 1]], v[P[i - 1]]>>
      BY <3>1, <1>2
    <3>5. k'[Q[i]] = k[P[i - 1]] /\ v'[Q[i]] = v[P[i - 1]]
      BY <3>2, <1>4
    <3> QED BY <3>3, <3>4, <3>5
  <2> QED BY <2>1, <2>2
<1>9. Lists(d, Q)'
  BY <1>7, <1>8 DEF Lists
<1>10. Entries' = d
  BY <1>9, EntriesOfOrder
<1> QED BY <1>5, <1>10 DEF e

LEMMA PutNewStep ==
  ASSUME CacheInv, NEW key \in Keys, NEW value \in Values, PutNew(key, value),
         call' = Call("put", key, value)
  PROVE  CacheInv' /\ LRU!Put(key, value)
<1>1. PICK P : Order(P)
  BY DEF CacheInv, Ordered
<1>2. PICK m \in Nat : size = m /\ m < capacity
  BY <1>1, EntriesType DEF PutNew
<1>3. PICK n \in Nodes : n = m + 1
  BY <1>2, CacheSizes DEF Nodes
<1>4. /\ Chain(link, P, m) /\ link \in LinkType
      /\ Covers(P, m)
  BY <1>1, <1>2, EntriesType DEF Order
<1>5. /\ ~Known(key) /\ size' = m + 1
      /\ k' = [k EXCEPT ![n] = key] /\ v' = [v EXCEPT ![n] = value]
      /\ link' = reflash(Blank(link, n), n)
      /\ map' = [map EXCEPT ![key] = n]
  BY <1>2, <1>3 DEF PutNew, NewNode, Blank
<1>6. \A i \in 1 .. m : P[i] # n /\ P[i] \in Nodes
  BY <1>2, <1>3, <1>4, CacheSizes DEF Nodes, Covers
<1>7. PICK Q : Q = Push(P, m, n)
  OBVIOUS
<1>8. link' \in LinkType /\ Chain(link', Q, m + 1)
  <2>1. /\ reflash(Blank(link, n), n) \in LinkType
        /\ Chain(reflash(Blank(link, n), n), Push(P, m, n), m + 1)
    BY <1>4, <1>6, ReflashNew
  <2> QED BY <2>1, <1>5, <1>7
<1>9. Covers(Q, m + 1)
  BY <1>3, <1>4, <1>7, PushCovers
<1>10. Q[1] = n /\ \A i \in 2 .. m + 1 : Q[i] = P[i - 1]
  BY <1>7 DEF Push
<1>11. Ordered'
  <2>1. PICK c \in Nat : c = m + 1
    OBVIOUS
  <2> QED BY <2>1, <1>5, <1>8, <1>9, OrderNext
<1>12. Entries' = LRU!Front(<<<<key, value>>>> \o Entries)
  <2>1. Shifted(Q, P, m, n)
    BY <1>6, <1>10 DEF Shifted
  <2>2. PICK c \in Nat : c = m + 1
    OBVIOUS
  <2>3. m <= size /\ c = Room /\ size' = c /\ Chain(link', Q, c)
    BY <1>2, <1>5, <1>8, <2>2 DEF Room
  <2>4. k' = [k EXCEPT ![n] = key] /\ v' = [v EXCEPT ![n] = value]
    BY <1>5
  <2> QED BY <2>1, <2>2, <2>3, <2>4, <1>1, NewInFront
<1>13. CacheTypeOK'
  <2>1. size' \in 0 .. capacity
    BY <1>2, <1>5, CacheSizes
  <2>2. call' \in Calls
    BY CallInCalls
  <2> QED BY <2>1, <2>2, <1>5, <1>8 DEF CacheInv, CacheTypeOK, LinkType, Calls
<1>14. Agrees'
  <2>1. /\ \A x \in Keys : map'[x] = IF x = key THEN n ELSE map[x]
        /\ \A x \in 1 .. m : k'[x] = k[x] /\ v'[x] = v[x] /\ x \in Nodes
        /\ k'[n] = key /\ v'[n] = value
    BY <1>2, <1>3, <1>5, CacheSizes DEF CacheInv, CacheTypeOK, Nodes
  <2>2. /\ \A x \in Keys : map[x] # NULL => map[x] \in 1 .. m /\ k[map[x]] = x
        /\ \A x \in 1 .. m : k[x] \in Keys /\ map[k[x]] = x /\ v[x] \in Values
        /\ map[key] = NULL /\ \A x \in 1 .. m : x # NULL
    BY <1>2, <1>5, CacheSizes DEF CacheInv, Agrees, Known
  <2>3. ASSUME NEW x \in Keys, map'[x] # NULL
        PROVE  map'[x] \in 1 .. m + 1 /\ k'[map'[x]] = x
    <3>1. CASE x = key
      BY <3>1, <2>1, <1>3
    <3>2. CASE x # key
      <4>1. map'[x] = map[x] /\ map[x] \in 1 .. m /\ k[map[x]] = x
        BY <3>2, <2>1, <2>2, <2>3
      <4> QED BY <4>1, <2>1
    <3> QED BY <3>1, <3>2
  <2>4. ASSUME NEW x \in 1 .. m + 1
        PROVE  k'[x] \in Keys /\ map'[k'[x]] = x /\ v'[x] \in Values
    <3>1. CASE x = n
      BY <3>1, <2>1
    <3>2. CASE x \in 1 .. m
      <4>1. k[x] # key
        BY <3>2, <2>2
      <4> QED BY <4>1, <3>2, <2>1, <2>2
    <3> QED BY <3>1, <3>2, <1>3
  <2> QED BY <2>3, <2>4, <1>5 DEF Agrees, Known
<1>15. CacheInv'
  BY <1>11, <1>13, <1>14 DEF CacheInv
<1>16. LRU!Places(key) = {}
  BY <1>1, <1>5, PlaceOfNewKey
<1> QED BY <1>12, <1>15, <1>16 DEF LRU!Put, Call, LRU!Call

LEMMA PutEvictingStep ==
  ASSUME CacheInv, NEW key \in Keys, NEW value \in Values, PutEvicting(key, value),
         call' = Call("put", key, value)
  PROVE  CacheInv' /\ LRU!Put(key, value)
<1>1. PICK P : Order(P)
  BY DEF CacheInv, Ordered
<1>2. PICK m \in Nat : size = m /\ m = capacity /\ m > 0
  BY <1>1, EntriesType, CacheSizes DEF PutEvicting
<1>3. /\ Chain(link, P, m) /\ link \in LinkType /\ Covers(P, m)
      /\ link.l[tail] = P[m]
  <2>1. m \in 0 .. m /\ (m - 1) + 1 = m
    BY <1>2
  <2> QED BY <1>1, <1>2, <2>1, EntriesType DEF Order, Chain
<1>4. PICK n \in Nodes : n = P[m] /\ n \in 1 .. m
  <2>1. m \in 1 .. m
    BY <1>2
  <2> QED BY <2>1, <1>2, <1>3, CacheSizes DEF Nodes, Covers
<1>5. PICK lk : lk = deletel(link, n)
  OBVIOUS
<1>6. PICK old \in Keys : old = k[n] /\ map[old] = n
  BY <1>2, <1>4 DEF CacheInv, Agrees
<1>7. /\ ~Known(key) /\ size' = m
      /\ k' = [k EXCEPT ![n] = key] /\ v' = [v EXCEPT ![n] = value]
      /\ link' = reflash(Blank(lk, n), n)
      /\ map' = [map EXCEPT ![old] = NULL, ![key] = n]
  BY <1>2, <1>3, <1>4, <1>5, <1>6 DEF PutEvicting, NewNode, Blank
<1>8. PICK C : C = Cut(P, m, m)
  OBVIOUS
<1>9. PICK c \in Nat : c = m - 1
  BY <1>2
<1>10. lk \in LinkType /\ Chain(lk, C, c)
  <2>1. m \in 1 .. m
    BY <1>2
  <2>2. deletel(link, P[m]) \in LinkType /\ Chain(deletel(link, P[m]), Cut(P, m, m), m - 1)
    BY <1>3, <2>1, ChainDelete
  <2> QED BY <2>2, <1>4, <1>5, <1>8, <1>9
<1>11. \A i \in 1 .. c : C[i] = P[i] /\ P[i] # n /\ P[i] \in Nodes
  <2> SUFFICES ASSUME NEW i \in 1 .. c
               PROVE  C[i] = P[i] /\ P[i] # n /\ P[i] \in Nodes
    OBVIOUS
  <2>1. i \in 0 .. m /\ i < m /\ i \in 1 .. m /\ i \in 0 .. m + 1 /\ m \in 0 .. m + 1 /\ i # m
    BY <1>9
  <2>2. C[i] = P[i]
    BY <2>1, <1>8 DEF Cut
  <2>3. P[i] # P[m]
    BY <2>1, <1>3 DEF Chain
  <2>4. P[i] \in Nodes
    BY <2>1, <1>2, <1>3, CacheSizes DEF Nodes, Covers
  <2> QED BY <2>2, <2>3, <2>4, <1>4
<1>12. PICK Q : Q = Push(C, c, n)
  OBVIOUS
<1>13. link' \in LinkType /\ Chain(link', Q, m)
  <2>1. \A i \in 1 .. c : C[i] # n
    BY <1>11
  <2>2. /\ reflash(Blank(lk, n), n) \in LinkType
        /\ Chain(reflash(Blank(lk, n), n), Push(C, c, n), c + 1)
    BY <2>1, <1>10, ReflashNew
  <2>3. c + 1 = m
    BY <1>9
  <2> QED BY <2>2, <2>3, <1>7, <1>12
<1>14. Covers(Q, m)
  <2>1. m \in 1 .. m
    BY <1>2
  <2>2. Push(Cut(P, m, m), m - 1, P[m]) = Moved(P, m, m)
    BY <2>1, MovedIsPushed
  <2>3. Q = Moved(P, m, m)
    BY <2>2, <1>4, <1>8, <1>9, <1>12
  <2> QED BY <2>1, <2>3, <1>3, MovedCovers
<1>15. Q[1] = n /\ \A i \in 2 .. m : Q[i] = C[i - 1] /\ i - 1 \in 1 .. c
  BY <1>9, <1>12 DEF Push
<1>16. Ordered'
  BY <1>7, <1>13, <1>14, OrderNext
<1>17. Entries' = LRU!Front(<<<<key, value>>>> \o Entries)
  <2>1. Shifted(Q, P, c, n)
    BY <1>9, <1>11, <1>15 DEF Shifted
  <2>2. c <= size /\ m = c + 1 /\ m = Room
    BY <1>2, <1>9 DEF Room
  <2>3. k' = [k EXCEPT ![n] = key] /\ v' = [v EXCEPT ![n] = value] /\ size' = m
    BY <1>7
  <2> QED BY <2>1, <2>2, <2>3, <1>1, <1>13, NewInFront
<1>18. CacheTypeOK'
  <2>1. size' \in 0 .. capacity
    BY <1>2, <1>7
  <2>2. map' \in [Keys -> Nodes \cup {NULL}]
    <3> DEFINE T == Nodes \cup {NULL}
    <3>1. map \in [Keys -> T] /\ n \in T /\ NULL \in T
      BY DEF CacheInv, CacheTypeOK
    <3> HIDE DEF T
    <3>2. [map EXCEPT ![old] = NULL, ![key] = n] \in [Keys -> T]
      BY <3>1, TwoUpdates
    <3>3. map' \in [Keys -> T]
      BY <3>2, <1>7
    <3> QED BY <3>3 DEF T
  <2>3. k' \in [Nodes -> Keys \cup {NULL}] /\ v' \in [Nodes -> Values \cup {NULL}]
    BY <1>7 DEF CacheInv, CacheTypeOK
  <2>4. call' \in Calls
    BY CallInCalls
  <2> QED BY <2>1, <2>2, <2>3, <2>4, <1>13 DEF CacheTypeOK, LinkType, Calls
<1>19. Agrees'
  <2>1. \A x \in Keys : map'[x] = IF x = key THEN n ELSE IF x = old THEN NULL ELSE map[x]
    BY <1>7 DEF CacheInv, CacheTypeOK
  <2>2. /\ \A x \in 1 .. m : x \in Nodes /\ x # NULL
        /\ \A x \in Nodes : /\ k'[x] = IF x = n THEN key ELSE k[x]
                            /\ v'[x] = IF x = n THEN value ELSE v[x]
    BY <1>2, <1>7, CacheSizes DEF CacheInv, CacheTypeOK, Nodes
  <2>3. /\ \A x \in Keys : map[x] # NULL => map[x] \in 1 .. m /\ k[map[x]] = x
        /\ \A x \in 1 .. m : k[x] \in Keys /\ map[k[x]] = x /\ v[x] \in Values
        /\ map[key] = NULL
    BY <1>2, <1>7 DEF CacheInv, Agrees, Known
  <2>4. ASSUME NEW x \in Keys, map'[x] # NULL
        PROVE  map'[x] \in 1 .. m /\ k'[map'[x]] = x
    <3>1. CASE x = key
      BY <3>1, <2>1, <2>2, <1>4
    <3>2. CASE x # key
      <4>1. map'[x] = map[x] /\ x # old
        BY <3>2, <2>1, <2>4
      <4>2. map[x] \in 1 .. m /\ k[map[x]] = x
        BY <4>1, <2>3, <2>4
      <4>3. map[x] # n
        BY <4>1, <4>2, <1>6
      <4> QED BY <4>1, <4>2, <4>3, <2>2
    <3> QED BY <3>1, <3>2
  <2>5. ASSUME NEW x \in 1 .. m
        PROVE  k'[x] \in Keys /\ map'[k'[x]] = x /\ v'[x] \in Values
    <3>1. CASE x = n
      BY <3>1, <2>1, <2>2
    <3>2. CASE x # n
      <4>1. k[x] # key /\ k[x] # old /\ k[x] \in Keys /\ map[k[x]] = x /\ v[x] \in Values
        BY <3>2, <2>2, <2>3, <1>6
      <4>2. k'[x] = k[x] /\ v'[x] = v[x]
        BY <3>2, <2>2
      <4> QED BY <4>1, <4>2, <2>1
    <3> QED BY <3>1, <3>2
  <2> QED BY <2>4, <2>5, <1>7 DEF Agrees, Known
<1>20. CacheInv'
  BY <1>16, <1>18, <1>19 DEF CacheInv
<1>21. LRU!Places(key) = {}
  BY <1>1, <1>7, PlaceOfNewKey
<1> QED BY <1>17, <1>20, <1>21 DEF LRU!Put, Call, LRU!Call

-----------------------------------------------------------------------------
(* put() and get() keep the invariant and are steps of Cache.              *)
LEMMA PutStep ==
  ASSUME CacheInv, NEW key \in Keys, NEW value \in Values, put(key, value)
  PROVE  CacheInv' /\ LRU!Put(key, value)
BY PutKnownStep, PutNewStep, PutEvictingStep DEF put

LEMMA CacheStartsNext == CacheInit' => CacheInv' /\ LRU!Init'
BY CacheStarts, PTL

AccountsType ==
  /\ users \in [Names -> Passwords \cup {NULL}]
  /\ db \in Seq(Names \X Passwords)
  /\ pc \in [Workers -> {"idle", "login", "keep", "home", "register", "insert", "map"}]
  /\ req \in [Workers -> Requests \cup {NoRequest}]
  /\ res \in [Workers -> BOOLEAN]
  /\ granted \subseteq Names \X Passwords /\ raced \subseteq Names
  /\ \A w \in Workers : pc[w] \in {"register", "insert", "map"} =>
       req[w].name \in Names /\ req[w].password \in Passwords

Indexes == 1 .. Len(db)

(* A worker that registers a name is alone with it and found it new.       *)
Alone ==
  \A w \in Workers : pc[w] \in {"insert", "map"} /\ req[w].name \notin raced =>
    /\ users[req[w].name] = NULL
    /\ \A u \in Workers : pc[u] \in {"insert", "map"} /\ req[u].name = req[w].name
         => u = w

UniqueRow ==
  \A i, j \in Indexes : db[i][1] = db[j][1] /\ db[i][1] \notin raced => i = j

(* The password of a row is in users, or about to be put there.            *)
RowKnown ==
  \A i \in Indexes : db[i][1] \notin raced =>
    \/ users[db[i][1]] = db[i][2]
    \/ \E w \in Workers : /\ pc[w] = "map" /\ req[w].name = db[i][1]
                          /\ req[w].password = db[i][2]

HasRow ==
  \A w \in Workers : pc[w] = "map" /\ res[w] =>
    \E i \in Indexes : db[i] = <<req[w].name, req[w].password>>

RegInv ==
  /\ AccountsType /\ Alone /\ UniqueRow /\ RowKnown /\ HasRow
  /\ GrantedDurable /\ GrantedCanLogIn

-----------------------------------------------------------------------------
LEMMA RegInit == Init => RegInv
BY DEF Init, RegInv, AccountsType, Load, Alone, UniqueRow, RowKnown, HasRow,
       GrantedDurable, GrantedCanLogIn, Indexes

LEMMA RowTypes ==
  ASSUME AccountsType, NEW i \in Indexes
  PROVE  db[i][1] \in Names /\ db[i][2] \in Passwords /\ db[i][2] # NULL
<1>1. db[i] \in Names \X Passwords
  BY DEF AccountsType, Indexes
<1> QED BY <1>1, AccountsAssumption

LEMMA Greatest ==
  ASSUME NEW n \in Nat, NEW T, T \subseteq 1 .. n, T # {}
  PROVE  \E i \in T : \A j \in T : j <= i
<1> DEFINE D == {n - i : i \in T}
<1>1. D \subseteq Nat
  OBVIOUS
<1>2. PICK i0 \in T : TRUE
  OBVIOUS
<1>3. n - i0 \in D
  OBVIOUS
<1>4. PICK x \in D : \A y \in D : x <= y
  <2> HIDE DEF D
  <2> QED BY <1>1, <1>3, Smallest
<1>5. PICK i \in T : x = n - i
  OBVIOUS
<1>6. ASSUME NEW j \in T PROVE j <= i
  <2>1. n - j \in D
    OBVIOUS
  <2>2. x <= n - j
    BY <2>1, <1>4
  <2>3. i \in 1 .. n /\ j \in 1 .. n
    OBVIOUS
  <2> QED BY <2>2, <2>3, <1>5
<1> QED BY <1>6

LEMMA LoadType ==
  ASSUME AccountsType
  PROVE  Load(db) \in [Names -> Passwords \cup {NULL}]
<1> SUFFICES ASSUME NEW n \in Names
             PROVE  Load(db)[n] \in Passwords \cup {NULL}
  BY DEF Load
<1> DEFINE of == {i \in 1 .. Len(db) : db[i][1] = n}
<1>1. Load(db)[n] = IF of = {} THEN NULL
                    ELSE db[CHOOSE i \in of : \A j \in of : j <= i][2]
  BY DEF Load
<1>2. CASE of = {}
  BY <1>1, <1>2
<1>3. CASE of # {}
  <2>1. Len(db) \in Nat /\ of \subseteq 1 .. Len(db)
    BY DEF AccountsType
  <2>2. \E i \in of : \A j \in of : j <= i
    BY <1>3, <2>1, Greatest
  <2>3. PICK m \in of : m = CHOOSE i \in of : \A j \in of : j <= i
    BY <2>2
  <2>4. db[m][2] \in Passwords
    BY RowTypes DEF Indexes
  <2> QED BY <1>1, <1>3, <2>3, <2>4
<1> QED BY <1>2, <1>3

(* The load at the start finds the password of a name with one row.        *)
LEMMA LoadFinds ==
  ASSUME AccountsType, UniqueRow, NEW i \in Indexes, db[i][1] \notin raced
  PROVE  Load(db)[db[i][1]] = db[i][2]
<1> DEFINE n == db[i][1]
           of == {j \in 1 .. Len(db) : db[j][1] = n}
<1>1. of = {i}
  BY DEF UniqueRow, Indexes
<1>2. (CHOOSE j \in of : \A k1 \in of : k1 <= j) = i
  BY <1>1 DEF Indexes
<1>3. n \in Names
  BY RowTypes
<1>4. Load(db)[n] = IF of = {} THEN NULL
                    ELSE db[CHOOSE j \in of : \A k1 \in of : k1 <= j][2]
  BY <1>3 DEF Load
<1> QED BY <1>1, <1>2, <1>4

(* A worker that is not registering goes where it is not registering.      *)
LEMMA OthersKeep ==
  ASSUME RegInv, NEW w \in Workers, UNCHANGED <<users, db, granted, raced>>,
         pc[w] \notin {"insert", "map"}, pc'[w] \notin {"insert", "map"},
         \A u \in Workers \ {w} :
           pc'[u] = pc[u] /\ req'[u] = req[u] /\ res'[u] = res[u],
         AccountsType'
  PROVE  RegInv'
<1> USE DEF RegInv
<1>1. Alone'
  BY DEF Alone
<1>2. UniqueRow' /\ GrantedDurable' /\ GrantedCanLogIn'
  BY DEF UniqueRow, GrantedDurable, GrantedCanLogIn, Indexes, Rows
<1>3. RowKnown'
  BY DEF RowKnown, Indexes
<1>4. HasRow'
  BY DEF HasRow, Indexes
<1> QED BY <1>1, <1>2, <1>3, <1>4

LEMMA AnswerType ==
  ASSUME AccountsType, NEW w \in Workers, Answer(w),
         UNCHANGED <<users, db, granted, raced>>
  PROVE  /\ AccountsType' /\ pc'[w] = "idle"
         /\ \A u \in Workers \ {w} :
              pc'[u] = pc[u] /\ req'[u] = req[u] /\ res'[u] = res[u]
BY DEF AccountsType, Answer, Goto

-----------------------------------------------------------------------------
LEMMA FindStep ==
  ASSUME RegInv, NEW w \in Workers, FindName(w)
  PROVE  RegInv'
<1> USE DEF RegInv
<1> DEFINE n == req[w].name
<1>1. n \in Names /\ pc[w] = "register" /\ UNCHANGED <<users, db, granted>>
  BY DEF FindName, AccountsType
<1>2. CASE users[n] # NULL
  <2>1. Answer(w) /\ UNCHANGED raced
    BY <1>2 DEF FindName
  <2> QED BY <1>1, <2>1, AnswerType, OthersKeep
<1>3. CASE users[n] = NULL
  <2>1. /\ pc' = [pc EXCEPT ![w] = "insert"] /\ UNCHANGED <<req, res>>
        /\ raced \subseteq raced'
        /\ n \notin raced' => Registering(n) = {}
        /\ raced' \subseteq raced \cup {n}
    BY <1>3 DEF FindName, Goto
  <2>2. AccountsType'
    BY <1>1, <2>1 DEF AccountsType
  <2>3. Alone'
    BY <1>1, <1>3, <2>1 DEF Alone, AccountsType, Registering
  <2>4. UniqueRow' /\ HasRow' /\ GrantedDurable' /\ GrantedCanLogIn'
    BY <1>1, <2>1 DEF UniqueRow, HasRow, GrantedDurable, GrantedCanLogIn,
                      Indexes, Rows, AccountsType
  <2>5. RowKnown'
    BY <1>1, <2>1 DEF RowKnown, Indexes, AccountsType
  <2> QED BY <2>2, <2>3, <2>4, <2>5
<1> QED BY <1>2, <1>3

LEMMA InsertRowStep ==
  ASSUME RegInv, NEW w \in Workers, InsertRow(w)
  PROVE  RegInv'
<1> USE DEF RegInv
<1> DEFINE row == <<req[w].name, req[w].password>>
<1>1. PICK ok \in BOOLEAN :
        /\ res' = [res EXCEPT ![w] = ok]
        /\ db' = IF ok THEN Append(db, row) ELSE db
  BY DEF InsertRow
<1>2. /\ pc[w] = "insert" /\ pc' = [pc EXCEPT ![w] = "map"]
      /\ UNCHANGED <<users, req, granted, raced>>
      /\ row \in Names \X Passwords
  BY DEF InsertRow, Goto, AccountsType
<1>3. /\ db' \in Seq(Names \X Passwords)
      /\ Indexes \subseteq Indexes'
      /\ \A i \in Indexes : db'[i] = db[i]
      /\ \A i \in Indexes' \ Indexes : ok /\ i = Len(db) + 1 /\ db'[i] = row
      /\ ok => \E i \in Indexes' : db'[i] = row
  <2>1. db \in Seq(Names \X Passwords) /\ Len(db) \in Nat
    BY DEF AccountsType
  <2>2. CASE ~ok
    BY <2>1, <2>2, <1>1 DEF Indexes
  <2>3. CASE ok
    <3> HIDE DEF row
    <3>1. db' = Append(db, row)
      BY <2>3, <1>1
    <3>2. db' \in Seq(Names \X Passwords) /\ Len(db') = Len(db) + 1
      BY <3>1, <2>1, <1>2
    <3>3. db'[Len(db) + 1] = row /\ \A i \in 1 .. Len(db) : db'[i] = db[i]
      BY <3>1, <2>1, <1>2
    <3>4. Len(db) + 1 \in Indexes'
      BY <3>2, <2>1 DEF Indexes
    <3>5. Indexes \subseteq Indexes' /\ Indexes' \ Indexes \subseteq {Len(db) + 1}
      BY <3>2, <2>1 DEF Indexes
    <3> QED BY <2>3, <3>2, <3>3, <3>4, <3>5 DEF Indexes
  <2> QED BY <2>2, <2>3
<1>4. AccountsType'
  BY <1>1, <1>2, <1>3 DEF AccountsType
<1>5. Alone'
  BY <1>2 DEF Alone, AccountsType
<1>6. ASSUME NEW i \in Indexes, db[i][1] = row[1], row[1] \notin raced PROVE FALSE
  <2>1. db[i][2] # NULL /\ users[row[1]] = NULL
    BY <1>2, <1>6, RowTypes DEF Alone
  <2>2. PICK u \in Workers : pc[u] = "map" /\ req[u].name = db[i][1]
    BY <2>1, <1>6 DEF RowKnown
  <2> QED BY <2>2, <1>2, <1>6 DEF Alone
<1>7. UniqueRow'
  <2> SUFFICES ASSUME NEW i \in Indexes', NEW j \in Indexes',
                      db'[i][1] = db'[j][1], db'[i][1] \notin raced
               PROVE  i = j
    BY <1>2 DEF UniqueRow
  <2> QED BY <1>3, <1>6 DEF UniqueRow
<1>8. RowKnown'
  <2> SUFFICES ASSUME NEW i \in Indexes', db'[i][1] \notin raced
               PROVE  \/ users[db'[i][1]] = db'[i][2]
                      \/ \E u \in Workers : /\ pc'[u] = "map" /\ req[u].name = db'[i][1]
                                            /\ req[u].password = db'[i][2]
    BY <1>2 DEF RowKnown
  <2>1. CASE i \in Indexes
    BY <2>1, <1>2, <1>3 DEF RowKnown, AccountsType
  <2>2. CASE i \notin Indexes
    BY <2>2, <1>2, <1>3 DEF AccountsType
  <2> QED BY <2>1, <2>2
<1>9. HasRow'
  <2> SUFFICES ASSUME NEW u \in Workers, pc'[u] = "map", res'[u]
               PROVE  \E i \in Indexes' : db'[i] = <<req[u].name, req[u].password>>
    BY <1>2 DEF HasRow
  <2>1. CASE u = w
    BY <2>1, <1>1, <1>3 DEF AccountsType
  <2>2. CASE u # w
    <3>1. pc[u] = "map" /\ res[u]
      BY <2>2, <1>1, <1>2 DEF AccountsType
    <3>2. PICK i \in Indexes : db[i] = <<req[u].name, req[u].password>>
      BY <3>1 DEF HasRow
    <3> QED BY <3>2, <1>3
  <2> QED BY <2>1, <2>2
<1>10. GrantedDurable' /\ GrantedCanLogIn'
  BY <1>2, <1>3 DEF GrantedDurable, GrantedCanLogIn, Rows, Indexes
<1> QED BY <1>4, <1>5, <1>7, <1>8, <1>9, <1>10

LEMMA InsertUserStep ==
  ASSUME RegInv, NEW w \in Workers, InsertUser(w)
  PROVE  RegInv'
<1> USE DEF RegInv
<1> DEFINE n == req[w].name
           p == req[w].password
<1>1. /\ pc[w] = "map" /\ UNCHANGED <<db, raced>>
      /\ users' = IF users[n] = NULL THEN [users EXCEPT ![n] = p] ELSE users
      /\ granted' = IF res[w] THEN granted \cup {<<n, p>>} ELSE granted
      /\ pc' = [pc EXCEPT ![w] = "idle"]
      /\ req' = [req EXCEPT ![w] = NoRequest]
      /\ res' = [res EXCEPT ![w] = FALSE]
      /\ n \in Names /\ p \in Passwords
  BY DEF InsertUser, Answer, Goto, AccountsType
<1>2. /\ \A m \in Names \ {n} : users'[m] = users[m]
      /\ users[n] # NULL => users'[n] = users[n]
      /\ n \notin raced => users[n] = NULL /\ users'[n] = p
  BY <1>1 DEF Alone, AccountsType
<1>3. AccountsType'
  BY <1>1 DEF AccountsType
<1>4. Alone'
  BY <1>1, <1>2 DEF Alone, AccountsType
<1>5. UniqueRow'
  BY <1>1 DEF UniqueRow, Indexes
<1>6. RowKnown'
  <2> SUFFICES ASSUME NEW i \in Indexes, db[i][1] \notin raced
               PROVE  \/ users'[db[i][1]] = db[i][2]
                      \/ \E u \in Workers : /\ pc'[u] = "map" /\ req'[u].name = db[i][1]
                                            /\ req'[u].password = db[i][2]
    BY <1>1 DEF RowKnown, Indexes
  <2>1. CASE users[db[i][1]] = db[i][2]
    BY <2>1, <1>2, RowTypes
  <2>2. CASE users[db[i][1]] # db[i][2]
    <3>1. PICK u \in Workers : /\ pc[u] = "map" /\ req[u].name = db[i][1]
                               /\ req[u].password = db[i][2]
      BY <2>2 DEF RowKnown
    <3>2. CASE u = w
      BY <3>1, <3>2, <1>2
    <3>3. CASE u # w
      BY <3>1, <3>3, <1>1 DEF AccountsType
    <3> QED BY <3>2, <3>3
  <2> QED BY <2>1, <2>2
<1>7. HasRow'
  BY <1>1 DEF HasRow, Indexes, AccountsType
<1>8. GrantedDurable'
  BY <1>1 DEF GrantedDurable, HasRow, Rows, Indexes
<1>9. GrantedCanLogIn'
  <2> SUFFICES ASSUME NEW g \in granted', g[1] \notin raced
               PROVE  users'[g[1]] = g[2]
    BY <1>1 DEF GrantedCanLogIn
  <2>1. CASE g \in granted
    <3>1. users[g[1]] = g[2] /\ g[1] \in Names /\ g[2] # NULL
      BY <2>1, AccountsAssumption DEF GrantedCanLogIn, AccountsType
    <3> QED BY <3>1, <1>2
  <2>2. CASE g = <<n, p>>
    BY <2>2, <1>2
  <2> QED BY <2>1, <2>2, <1>1
<1> QED BY <1>3, <1>4, <1>5, <1>6, <1>7, <1>8, <1>9

LEMMA RestartStep ==
  ASSUME RegInv, Restart
  PROVE  RegInv'
<1> USE DEF RegInv
<1>1. /\ UNCHANGED <<db, granted, raced>> /\ users' = Load(db)
      /\ pc' = [w \in Workers |-> "idle"]
      /\ req' = [w \in Workers |-> NoRequest]
      /\ res' = [w \in Workers |-> FALSE]
  BY DEF Restart
<1>2. Load(db) \in [Names -> Passwords \cup {NULL}]
  BY LoadType
<1>3. AccountsType'
  BY <1>1, <1>2 DEF AccountsType
<1>4. Alone' /\ HasRow' /\ UniqueRow' /\ GrantedDurable'
  BY <1>1 DEF Alone, HasRow, UniqueRow, GrantedDurable, Indexes, Rows
<1>5. RowKnown'
  BY <1>1, LoadFinds DEF RowKnown, Indexes
<1>6. GrantedCanLogIn'
  <2> SUFFICES ASSUME NEW g \in granted, g[1] \notin raced
               PROVE  Load(db)[g[1]] = g[2]
    BY <1>1 DEF GrantedCanLogIn
  <2>1. PICK i \in Indexes : db[i] = g
    BY DEF GrantedDurable, Rows, Indexes
  <2> QED BY <2>1, LoadFinds
<1> QED BY <1>3, <1>4, <1>5, <1>6

LEMMA RegStep == RegInv /\ [Next]_vars => RegInv'
<1> SUFFICES ASSUME RegInv, [Next]_vars PROVE RegInv'
  OBVIOUS
<1> USE DEF RegInv
<1>1. ASSUME NEW w \in Workers, Ask(w) PROVE RegInv'
  <2>1. PICK q \in Requests : /\ req' = [req EXCEPT ![w] = q]
                              /\ pc' = [pc EXCEPT ![w] = q.kind]
    BY <1>1 DEF Ask, Goto
  <2>2. /\ q.kind \in {"login", "register", "home"}
        /\ q.kind = "register" => q.name \in Names /\ q.password \in Passwords
    BY DEF Requests
  <2>3. AccountsType'
    BY <1>1, <2>1, <2>2 DEF Ask, AccountsType
  <2> QED BY <1>1, <2>1, <2>2, <2>3, OthersKeep DEF Ask, AccountsType
<1>2. ASSUME NEW w \in Workers, Login(w) PROVE RegInv'
  <2>1. CASE Answer(w)
    BY <1>2, <2>1, AnswerType, OthersKeep DEF Login
  <2>2. CASE ~Answer(w)
    <3>1. /\ pc' = [pc EXCEPT ![w] = "keep"]
          /\ UNCHANGED <<req, res, users, db, granted, raced>>
      BY <1>2, <2>2 DEF Login, Goto
    <3>2. AccountsType'
      BY <3>1 DEF AccountsType
    <3> QED BY <1>2, <3>1, <3>2, OthersKeep DEF Login, AccountsType
  <2> QED BY <2>1, <2>2
<1>3. ASSUME NEW w \in Workers, KeepSession(w) \/ Home(w) PROVE RegInv'
  BY <1>3, AnswerType, OthersKeep DEF KeepSession, Home
<1>4. ASSUME UNCHANGED vars PROVE RegInv'
  <2>1. UNCHANGED accountVars
    BY <1>4 DEF vars
  <2>2. AccountsType' /\ Alone' /\ HasRow'
    BY <2>1 DEF accountVars, AccountsType, Alone, HasRow, Indexes
  <2>3. UniqueRow' /\ RowKnown'
    BY <2>1 DEF accountVars, UniqueRow, RowKnown, Indexes
  <2>4. GrantedDurable' /\ GrantedCanLogIn'
    BY <2>1 DEF accountVars, GrantedDurable, GrantedCanLogIn, Rows
  <2> QED BY <2>2, <2>3, <2>4
<1> QED BY <1>1, <1>2, <1>3, <1>4, FindStep, InsertRowStep, InsertUserStep,
           RestartStep
        DEF Next

(* Who was sent to the login page after registering is in the table with   *)
(* that password: no failed INSERT, no race and no crash gets a name the   *)
(* login page without its row (http_conn.cpp:601-635).                     *)
THEOREM RegistrationDurable == Spec => []GrantedDurable
<1>1. RegInv => GrantedDurable
  BY DEF RegInv
<1> QED BY <1>1, RegInit, RegStep, PTL DEF Spec

(* Unless two registrations of the name met, the one who registered can    *)
(* log in, now and after any number of restarts (http_conn.cpp:605-617,    *)
(* 31-77).                                                                 *)
THEOREM RegisteredOnceCanLogIn == Spec => []GrantedCanLogIn
<1>1. RegInv => GrantedCanLogIn
  BY DEF RegInv
<1> QED BY <1>1, RegInit, RegStep, PTL DEF Spec

-----------------------------------------------------------------------------
(* The name and the address of a request that is about sessions.           *)
SessionRequests ==
  \A w \in Workers :
    /\ pc[w] \in {"login", "keep", "home"} => req[w].ip \in Keys
    /\ pc[w] \in {"login", "keep"} =>
         req[w].name \in Names /\ req[w].password \in Passwords

(* Every name in the cache, or about to be put there, has an account; also *)
(* in a node that no key leads to.                                         *)
Sessions ==
  /\ \A w \in Workers : pc[w] = "keep" => users[req[w].name] # NULL
  /\ \A n \in 1 .. size : v[n] \in Names /\ users[v[n]] # NULL

SessionInv == AccountsType /\ CacheInv /\ SessionRequests /\ Sessions

LEMMA SessionInit == Init => SessionInv
<1> SUFFICES ASSUME Init PROVE SessionInv
  OBVIOUS
<1>1. AccountsType
  BY RegInit DEF RegInv
<1>2. CacheInv
  BY CacheStarts DEF Init
<1>3. SessionRequests /\ Sessions
  BY DEF Init, CacheInit, SessionRequests, Sessions
<1> QED BY <1>1, <1>2, <1>3 DEF SessionInv

LEMMA AccountsTypeStep == RegInv /\ [Next]_vars => AccountsType'
BY RegStep DEF RegInv

(* What a step does that leaves the cache alone and removes no account.    *)
LEMMA SessionsKept ==
  ASSUME SessionInv, AccountsType', UNCHANGED cacheVars, NEW w \in Workers,
         \A n \in Names : users[n] # NULL => users'[n] # NULL,
         \A u \in Workers \ {w} : pc'[u] = pc[u] /\ req'[u] = req[u],
         pc'[w] \in {"login", "keep", "home"} => req'[w].ip \in Keys,
         pc'[w] \in {"login", "keep"} =>
           req'[w].name \in Names /\ req'[w].password \in Passwords,
         pc'[w] = "keep" => users'[req'[w].name] # NULL
  PROVE  SessionInv' /\ UNCHANGED <<Entries, call>>
<1> USE DEF SessionInv
<1>1. CacheInv' /\ UNCHANGED <<Entries, call>>
  BY UnchangedCache
<1>2. SessionRequests'
  BY DEF SessionRequests
<1>3. Sessions'
  <2>1. UNCHANGED <<v, size>>
    BY DEF cacheVars
  <2>2. ASSUME NEW u \in Workers, pc'[u] = "keep" PROVE users'[req'[u].name] # NULL
    BY <2>2 DEF Sessions, SessionRequests
  <2>3. ASSUME NEW n \in 1 .. size PROVE v[n] \in Names /\ users'[v[n]] # NULL
    BY DEF Sessions
  <2> QED BY <2>1, <2>2, <2>3 DEF Sessions
<1> QED BY <1>1, <1>2, <1>3

(* put() keeps the other values.                                           *)
LEMMA PutValues ==
  ASSUME CacheInv, NEW key \in Keys, NEW value \in Values, put(key, value),
         NEW n \in 1 .. size'
  PROVE  v'[n] = value \/ (n \in 1 .. size /\ v'[n] = v[n])
<1>1. /\ size \in 0 .. capacity /\ v \in [Nodes -> Values \cup {NULL}]
      /\ capacity \in Nat
  BY CacheSizes DEF CacheInv, CacheTypeOK
<1>2. CASE PutKnown(key, value)
  BY <1>1, <1>2 DEF PutKnown, Nodes
<1>3. CASE PutNew(key, value)
  <2>1. size' = size + 1 /\ v' = [v EXCEPT ![size + 1] = value] /\ size < capacity
    BY <1>3 DEF PutNew, NewNode
  <2> QED BY <2>1, <1>1 DEF Nodes
<1>4. CASE PutEvicting(key, value)
  BY <1>1, <1>4 DEF PutEvicting, NewNode, Nodes
<1> QED BY <1>2, <1>3, <1>4 DEF put

LEMMA KeepStep ==
  ASSUME SessionInv, AccountsType', NEW w \in Workers, KeepSession(w)
  PROVE  SessionInv' /\ [LRU!Next]_<<Entries, call>>
<1> USE DEF SessionInv
<1> DEFINE key == req[w].ip
           value == req[w].name
<1>1. /\ pc[w] = "keep" /\ put(key, value)
      /\ pc' = [pc EXCEPT ![w] = "idle"] /\ req' = [req EXCEPT ![w] = NoRequest]
      /\ UNCHANGED users
  BY DEF KeepSession, Answer, Goto
<1>2. /\ key \in Keys /\ value \in Names /\ value \in Values
      /\ users[value] # NULL
  BY <1>1, AccountsAssumption DEF SessionRequests, Sessions
<1> HIDE DEF key, value
<1>3. CacheInv' /\ LRU!Put(key, value)
  BY <1>1, <1>2, PutStep
<1>4. \A u \in Workers : /\ u # w => pc'[u] = pc[u] /\ req'[u] = req[u]
                         /\ u = w => pc'[u] = "idle"
  BY <1>1 DEF AccountsType
<1>5. SessionRequests'
  BY <1>4 DEF SessionRequests
<1>6. Sessions'
  <2>1. ASSUME NEW u \in Workers, pc'[u] = "keep" PROVE users'[req'[u].name] # NULL
    BY <2>1, <1>1, <1>4 DEF Sessions
  <2>2. ASSUME NEW n \in 1 .. size' PROVE v'[n] \in Names /\ users'[v'[n]] # NULL
    <3>1. v'[n] = value \/ (n \in 1 .. size /\ v'[n] = v[n])
      BY <1>1, <1>2, PutValues
    <3> QED BY <3>1, <1>1, <1>2 DEF Sessions
  <2> QED BY <2>1, <2>2 DEF Sessions
<1>7. LRU!Next
  BY <1>2, <1>3 DEF LRU!Next
<1> QED BY <1>3, <1>5, <1>6, <1>7

LEMMA HomeStep ==
  ASSUME SessionInv, AccountsType', NEW w \in Workers, Home(w)
  PROVE  SessionInv' /\ [LRU!Next]_<<Entries, call>>
<1> USE DEF SessionInv
<1> DEFINE key == req[w].ip
<1>1. /\ pc[w] = "home" /\ get(key)
      /\ pc' = [pc EXCEPT ![w] = "idle"] /\ req' = [req EXCEPT ![w] = NoRequest]
      /\ UNCHANGED <<users, v, size>>
  BY DEF Home, Answer, Goto, get
<1>2. key \in Keys
  BY <1>1 DEF SessionRequests
<1> HIDE DEF key
<1>3. CacheInv' /\ LRU!Get(key)
  BY <1>1, <1>2, GetStep
<1>4. \A u \in Workers : /\ u # w => pc'[u] = pc[u] /\ req'[u] = req[u]
                         /\ u = w => pc'[u] = "idle"
  BY <1>1 DEF AccountsType
<1>5. SessionRequests'
  BY <1>4 DEF SessionRequests
<1>6. Sessions'
  BY <1>1, <1>4 DEF Sessions
<1>7. LRU!Next
  BY <1>2, <1>3 DEF LRU!Next
<1> QED BY <1>3, <1>5, <1>6, <1>7

LEMMA RestartSessions ==
  ASSUME SessionInv, AccountsType', Restart
  PROVE  SessionInv' /\ [LRU!Next]_<<Entries, call>>
<1>1. CacheInit'
  BY DEF Restart, CacheInit
<1>2. CacheInv' /\ LRU!Init'
  BY <1>1, CacheStartsNext
<1>3. SessionRequests' /\ Sessions'
  BY DEF Restart, SessionRequests, Sessions
<1>4. LRU!Next
  BY <1>2 DEF LRU!Init, LRU!Next, LRU!Restart
<1> QED BY <1>2, <1>3, <1>4 DEF SessionInv

LEMMA SessionStep ==
  SessionInv /\ AccountsType' /\ [Next]_vars => SessionInv' /\ [LRU!Next]_<<Entries, call>>
<1> SUFFICES ASSUME SessionInv, AccountsType', [Next]_vars
             PROVE  SessionInv' /\ [LRU!Next]_<<Entries, call>>
  OBVIOUS
<1>0. AccountsType /\ SessionRequests
  BY DEF SessionInv
<1>1. ASSUME NEW w \in Workers, Ask(w) PROVE SessionInv' /\ UNCHANGED <<Entries, call>>
  <2>1. PICK q \in Requests : /\ req' = [req EXCEPT ![w] = q]
                              /\ pc' = [pc EXCEPT ![w] = q.kind]
    BY <1>1 DEF Ask, Goto
  <2>2. /\ q.kind \in {"login", "home"} => q.ip \in Keys
        /\ q.kind = "login" => q.name \in Names /\ q.password \in Passwords
        /\ q.kind \in {"login", "register", "home"}
    BY DEF Requests
  <2>3. /\ pc'[w] = q.kind /\ req'[w] = q
        /\ \A u \in Workers \ {w} : pc'[u] = pc[u] /\ req'[u] = req[u]
    BY <2>1, <1>0 DEF AccountsType
  <2> QED BY <1>1, <2>2, <2>3, SessionsKept DEF Ask
<1>2. ASSUME NEW w \in Workers, Login(w) PROVE SessionInv' /\ UNCHANGED <<Entries, call>>
  <2>1. pc[w] = "login" /\ UNCHANGED cacheVars /\ UNCHANGED users
    BY <1>2 DEF Login
  <2>2. CASE users[req[w].name] = req[w].password
    <3>1. pc' = [pc EXCEPT ![w] = "keep"] /\ UNCHANGED req
      BY <1>2, <2>2 DEF Login, Goto
    <3>2. /\ pc'[w] = "keep" /\ req'[w] = req[w]
          /\ \A u \in Workers \ {w} : pc'[u] = pc[u] /\ req'[u] = req[u]
      BY <3>1, <1>0 DEF AccountsType
    <3>3. /\ req[w].ip \in Keys /\ req[w].name \in Names
          /\ req[w].password \in Passwords /\ req[w].password # NULL
      BY <2>1, <1>0, AccountsAssumption DEF SessionRequests
    <3> QED BY <2>1, <2>2, <3>2, <3>3, SessionsKept
  <2>3. CASE users[req[w].name] # req[w].password
    <3>1. Answer(w)
      BY <1>2, <2>3 DEF Login
    <3>2. /\ pc'[w] = "idle"
          /\ \A u \in Workers \ {w} : pc'[u] = pc[u] /\ req'[u] = req[u]
      BY <3>1, <1>0 DEF AccountsType, Answer, Goto
    <3> QED BY <2>1, <3>2, SessionsKept
  <2> QED BY <2>2, <2>3
<1>3. ASSUME NEW w \in Workers, FindName(w) \/ InsertRow(w)
      PROVE  SessionInv' /\ UNCHANGED <<Entries, call>>
  <2>1. /\ UNCHANGED cacheVars /\ UNCHANGED users
        /\ pc'[w] \in {"idle", "insert", "map"}
        /\ \A u \in Workers \ {w} : pc'[u] = pc[u] /\ req'[u] = req[u]
    BY <1>3, <1>0 DEF FindName, InsertRow, Answer, Goto, AccountsType
  <2> QED BY <2>1, SessionsKept
<1>4. ASSUME NEW w \in Workers, InsertUser(w)
      PROVE  SessionInv' /\ UNCHANGED <<Entries, call>>
  <2> DEFINE n == req[w].name
             p == req[w].password
  <2>1. /\ pc[w] = "map" /\ UNCHANGED cacheVars
        /\ users' = IF users[n] = NULL THEN [users EXCEPT ![n] = p] ELSE users
        /\ pc' = [pc EXCEPT ![w] = "idle"] /\ req' = [req EXCEPT ![w] = NoRequest]
    BY <1>4 DEF InsertUser, Answer, Goto
  <2>2. /\ pc'[w] = "idle"
        /\ \A u \in Workers \ {w} : pc'[u] = pc[u] /\ req'[u] = req[u]
    BY <2>1, <1>0 DEF AccountsType
  <2>3. n \in Names /\ p \in Passwords /\ p # NULL
    BY <2>1, <1>0, AccountsAssumption DEF AccountsType
  <2>4. \A x \in Names : users[x] # NULL => users'[x] # NULL
    BY <2>1, <2>3, <1>0 DEF AccountsType
  <2> QED BY <2>1, <2>2, <2>4, SessionsKept
<1>5. ASSUME UNCHANGED vars PROVE SessionInv' /\ UNCHANGED <<Entries, call>>
  <2>1. UNCHANGED cacheVars /\ UNCHANGED <<users, pc, req, v, size>>
    BY <1>5 DEF vars, cacheVars, accountVars
  <2>2. CacheInv' /\ UNCHANGED <<Entries, call>>
    BY <2>1, UnchangedCache DEF SessionInv
  <2>3. SessionRequests' /\ Sessions'
    BY <2>1 DEF SessionInv, SessionRequests, Sessions
  <2> QED BY <2>2, <2>3 DEF SessionInv
<1> QED BY <1>1, <1>2, <1>3, <1>4, <1>5, KeepStep, HomeStep, RestartSessions DEF Next

(* A session belongs to a name that can log in: whatever is in the cache   *)
(* of addresses, after updates, evictions and restarts, leads to an        *)
(* account (http_conn.cpp:588-591, 661, LRU.h:42-102).                     *)
THEOREM SessionsHaveAccounts == Spec => []SessionHasAccount
<1>1. SessionInv => SessionHasAccount
  <2> SUFFICES ASSUME SessionInv PROVE SessionHasAccount
    OBVIOUS
  <2>1. TypeOK
    BY DEF SessionInv, AccountsType, CacheInv, TypeOK
  <2>2. ASSUME NEW key \in Keys, Known(key) PROVE users[v[map[key]]] # NULL
    BY <2>2 DEF SessionInv, CacheInv, Agrees, Sessions
  <2> QED BY <2>1, <2>2 DEF SessionHasAccount
<1> QED BY <1>1, SessionInit, SessionStep, RegInit, AccountsTypeStep, RegStep, PTL
        DEF Spec

(* Map and doubly linked list, for any capacity, are one cache that        *)
(* forgets what was not used for longest: get() of a key is answered with  *)
(* the value that was put last for that key, or with none when the key was *)
(* not put or pushed out since, and each call moves the entry of its own   *)
(* key to the front and touches no other, but for the last one of a full   *)
(* cache (LRU.h:46-106).                                                   *)
THEOREM CacheImplemented == Spec => ImplementsCache
<1>1. Init => LRU!Init
  BY CacheStarts DEF Init
<1> QED BY <1>1, SessionInit, SessionStep, RegInit, AccountsTypeStep, RegStep, PTL
        DEF Spec, ImplementsCache, LRU!CSpec
=============================================================================
