------------------------------ MODULE LRUCache ------------------------------
(***************************************************************************)
(* LRUCache of LRU/LRU.h: a map from keys to nodes, and the nodes in a     *)
(* doubly linked list between two sentinels, the one used last in front.   *)
(*                                                                         *)
(* A node that is evicted is not freed in the code; nothing points to it   *)
(* any more, and its number is used again here.                            *)
(***************************************************************************)
EXTENDS Integers, Sequences

CONSTANTS
  Keys,      \* IP addresses
  Values,    \* names of users
  capacity,
  NULL       \* no node, no key, and the empty string

ASSUME CacheAssumption ==
  /\ capacity \in Nat \ {0}
  /\ NULL \notin Keys \cup Values \cup Int

VARIABLES
  map,   \* per key, its node or NULL
  k, v,  \* per node
  link,  \* the pointers l and r of nodes and sentinels
  size,
  call   \* history: the last call, with the value put or answered

cacheVars == <<map, k, v, link, size, call>>

Nodes == 1 .. capacity

head == 0

tail == capacity + 1

(* The two sentinels point to each other.                                  *)
NoNodes ==
  [l |-> [n \in head .. tail |-> IF n = tail THEN head ELSE NULL],
   r |-> [n \in head .. tail |-> IF n = head THEN tail ELSE NULL]]

Call(op, key, value) == [op |-> op, key |-> key, value |-> value]

NoCall == Call("none", NULL, NULL)

CacheInit ==
  /\ map = [key \in Keys |-> NULL]
  /\ k = [n \in Nodes |-> NULL] /\ v = [n \in Nodes |-> NULL]
  /\ link = NoNodes
  /\ size = 0
  /\ call = NoCall

-----------------------------------------------------------------------------
(* deletel(): out of the list, if it is in it.                             *)
deletel(lk, n) ==
  IF lk.r[n] = NULL
  THEN lk
  ELSE [l |-> [lk.l EXCEPT ![lk.r[n]] = lk.l[n]],
        r |-> [lk.r EXCEPT ![lk.l[n]] = lk.r[n]]]

(* reflash(): to the front.                                                *)
reflash_new(lk, n) ==
  [l |-> [lk.l EXCEPT ![lk.r[head]] = n, ![n] = head],
   r |-> [lk.r EXCEPT ![n] = lk.r[head], ![head] = n]]

reflash(lk, n) ==
  LET d == deletel(lk, n) IN
  [l |-> [d.l EXCEPT ![d.r[head]] = n, ![n] = head],
   r |-> [d.r EXCEPT ![n] = d.r[head], ![head] = n]]

Known(key) == map[key] # NULL

(* get(key): the value, or the empty string.                               *)
get(key) ==
  /\ link' = IF Known(key) THEN reflash(link, map[key]) ELSE link
  /\ call' = Call("get", key, IF Known(key) THEN v[map[key]] ELSE NULL)
  /\ UNCHANGED <<map, k, v, size>>

(* put() of a key that is in the map ...                                   *)
PutKnown(key, value) ==
  /\ Known(key)
  /\ v' = [v EXCEPT ![map[key]] = value]
  /\ link' = reflash(link, map[key])
  /\ UNCHANGED <<map, k, size>>

(* ... and of a new key, in a new node n.                                  *)
NewNode(lk, n, key, value) ==
  /\ k' = [k EXCEPT ![n] = key]
  /\ v' = [v EXCEPT ![n] = value]
  /\ link' = reflash([l |-> [lk.l EXCEPT ![n] = NULL],
                      r |-> [lk.r EXCEPT ![n] = NULL]], n)

PutNew(key, value) ==
  /\ ~Known(key) /\ size < capacity
  /\ size' = size + 1
  /\ NewNode(link, size', key, value)
  /\ map' = [map EXCEPT ![key] = size']

(* When the cache is full, the last node goes, with its entry in the map.  *)
PutEvictingKeepKey(key, value) ==
  LET last == link.l[tail] IN
  /\ ~Known(key) /\ size >= capacity
  /\ NewNode(deletel(link, last), last, key, value)
  /\ map' = [map EXCEPT ![key] = last]
  /\ UNCHANGED size

PutEvicting(key, value) ==
  LET last == link.l[tail] IN
  /\ ~Known(key) /\ size >= capacity
  /\ NewNode(deletel(link, last), last, key, value)
  /\ map' = [map EXCEPT ![k[last]] = NULL, ![key] = last]
  /\ UNCHANGED size

put(key, value) ==
  /\ PutKnown(key, value) \/ PutNew(key, value) \/ PutEvicting(key, value)
  /\ call' = Call("put", key, value)

-----------------------------------------------------------------------------
(* The entries in the order of the list.                                   *)
Nth[i \in 1 .. size] == IF i = 1 THEN link.r[head] ELSE link.r[Nth[i - 1]]

Entries == [i \in 1 .. size |-> <<k[Nth[i]], v[Nth[i]]>>]

LRU == INSTANCE Cache WITH entries <- Entries

CacheTypeOK ==
  /\ map \in [Keys -> Nodes \cup {NULL}]
  /\ k \in [Nodes -> Keys \cup {NULL}] /\ v \in [Nodes -> Values \cup {NULL}]
  /\ link \in [l : [head .. tail -> head .. tail \cup {NULL}],
               r : [head .. tail -> head .. tail \cup {NULL}]]
  /\ size \in 0 .. capacity
  /\ call \in [op : {"none", "put", "get"}, key : Keys \cup {NULL},
               value : Values \cup {NULL}]

(* List and map, with updates, moves to the front and evictions, are one   *)
(* cache that forgets what was not used for longest: each get() is         *)
(* answered with the value that was put last for its own key, or with none *)
(* after that key was evicted, and each call moves the entry of its own    *)
(* key and no other (LRU.h:46-106).                                        *)
ImplementsCache == LRU!CSpec
=============================================================================
