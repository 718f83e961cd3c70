------------------------------ MODULE TimeHeap ------------------------------
(***************************************************************************)
(* time_heap of timer/min_heap.cpp: timers in an array that is a binary    *)
(* heap by expire.  Only the main thread uses it, so that an operation is  *)
(* one step; tick() is one step per timer it takes out.                    *)
(*                                                                         *)
(* The specification is about the class as it stands: every timer is added *)
(* once, its expire is not changed while it is in the heap, and the heap   *)
(* was made with a capacity of at least one.  IdleTimer uses the same      *)
(* operations the way my_web.cpp does.                                     *)
(***************************************************************************)
EXTENDS Integers

CONSTANTS
  MaxTimers, \* bound: heap_timer objects, numbered as they are created
  Delays,    \* delays a timer may be created with
  Cap,       \* capacity the heap is created with
  Epoch,     \* time(NULL) at the start
  MaxTime,   \* bound of the clock
  NULL       \* a null pointer

ASSUME HeapAssumption ==
  /\ Delays \subseteq Nat \ {0}
  /\ Cap \in Nat \ {0}
  /\ Epoch \in Nat \ {0} /\ MaxTime \in Nat /\ Epoch <= MaxTime
  /\ MaxTimers \in Nat
  /\ NULL \notin 1 .. MaxTimers

VARIABLES
  array, capacity, cur_size,
  expire,      \* of each timer; 0 before it is created
  cb_func,     \* timers whose callback is set
  now,         \* time(NULL)
  cur,         \* what tick() read the clock as; 0 when it is not running
  ran,         \* timers whose callback has run
  deleted      \* timers deleted by pop_timer

Timers == 1 .. MaxTimers

vars == <<array, capacity, cur_size, expire, cb_func, now, cur, ran, deleted>>

InHeap == {array[i] : i \in 0 .. cur_size - 1}

Init ==
  /\ array = [i \in 0 .. Cap - 1 |-> NULL]
  /\ capacity = Cap
  /\ cur_size = 0
  /\ expire = [t \in Timers |-> 0]
  /\ cb_func = {}
  /\ now = Epoch /\ cur = 0
  /\ ran = {} /\ deleted = {}

empty == cur_size = 0

Parent(i) == (i - 1) \div 2

-----------------------------------------------------------------------------
Heap == [array |-> array, capacity |-> capacity, cur_size |-> cur_size]

SetHeap(h) ==
  /\ array' = h.array /\ capacity' = h.capacity /\ cur_size' = h.cur_size

(* resize(): twice the cells, the new ones null.                           *)
resize(h) ==
  [h EXCEPT !.capacity = 2 * @,
            !.array = [i \in 0 .. 2 * h.capacity - 1 |->
                         IF i < h.cur_size THEN @[i] ELSE NULL]]

Full(h) == h.cur_size >= h.capacity

(* The hole left at i moves up past the timers that are due later, and     *)
(* takes t; ex is when each timer is due.                                  *)
PercolateUp(a, hole, t, ex) ==
  LET up[i \in 0 .. hole] ==
        IF i = 0 \/ ex[a[Parent(i)]] <= ex[t]
        THEN [a EXCEPT ![i] = t]
        ELSE [up[Parent(i)] EXCEPT ![i] = a[Parent(i)]]
  IN up[hole]

(* add_timer(t) on the heap h.                                             *)
Add(h, t, ex) ==
  LET r == IF Full(h) THEN resize(h) ELSE h
  IN [r EXCEPT !.cur_size = @ + 1,
               !.array = PercolateUp(@, r.cur_size, t, ex)]

(* percolate_down(hole) on the first n cells: the smaller child moves up   *)
(* as long as it is due before the timer that was in the hole.             *)
SmallerChildLeft(a, h, n) == 2 * h + 1

SmallerChildNotLast(a, h, n) ==
  LET left == 2 * h + 1 IN
  IF left < n - 2 /\ expire[a[left + 1]] < expire[a[left]] THEN left + 1
                                                           ELSE left

SmallerChild(a, h, n) ==
  LET left == 2 * h + 1 IN
  IF left < n - 1 /\ expire[a[left + 1]] < expire[a[left]] THEN left + 1
                                                           ELSE left

percolate_down(a, hole, n) ==
  LET down[h \in hole .. capacity - 1] ==
        IF 2 * h + 1 <= n - 1 /\ expire[a[SmallerChild(a, h, n)]] < expire[a[hole]]
        THEN [down[SmallerChild(a, h, n)] EXCEPT ![h] = a[SmallerChild(a, h, n)]]
        ELSE [a EXCEPT ![h] = a[hole]]
  IN down[hole]

-----------------------------------------------------------------------------
(* add_timer() on a new timer, as in client_init().                        *)
add_timer(t, delay) ==
  /\ cur = 0
  /\ expire[t] = 0 /\ \A u \in 1 .. t - 1 : expire[u] # 0
  /\ expire' = [expire EXCEPT ![t] = now + delay]
  /\ cb_func' = cb_func \union {t}
  /\ SetHeap(Add(Heap, t, expire'))
  /\ UNCHANGED <<now, cur, ran, deleted>>

(* del_timer(): the timer stays where it is, without its callback.         *)
del_timer(t) ==
  /\ cur = 0
  /\ t \in InHeap
  /\ cb_func' = cb_func \ {t}
  /\ UNCHANGED <<array, capacity, cur_size, expire, now, cur, ran, deleted>>

(* tick() reads the clock once ...                                         *)
TickStart ==
  /\ cur = 0
  /\ cur' = now
  /\ UNCHANGED <<array, capacity, cur_size, expire, cb_func, now, ran, deleted>>

(* ... and takes timers off the top while they are due, with pop_timer().  *)
DueEarly == ~empty /\ expire[array[0]] <= cur + 1

Due == ~empty /\ expire[array[0]] <= cur

TickPop ==
  LET n == cur_size - 1
      moved == [array EXCEPT ![0] = array[n]]
  IN /\ cur # 0 /\ Due
     /\ ran' = IF array[0] \in cb_func THEN ran \union {array[0]} ELSE ran
     /\ deleted' = deleted \union {array[0]}
     /\ cb_func' = cb_func \ {array[0]}
     /\ cur_size' = n
     /\ array' = percolate_down(moved, 0, n)
     /\ UNCHANGED <<capacity, expire, now, cur>>

TickEnd ==
  /\ cur # 0 /\ ~Due
  /\ cur' = 0
  /\ UNCHANGED <<array, capacity, cur_size, expire, cb_func, now, ran, deleted>>

(* The clock goes on, also while tick() runs.                              *)
Clock ==
  /\ now < MaxTime
  /\ now' = now + 1
  /\ UNCHANGED <<array, capacity, cur_size, expire, cb_func, cur, ran, deleted>>

Tick == TickStart \/ TickPop \/ TickEnd

Next ==
  \/ \E t \in Timers : (\E delay \in Delays : add_timer(t, delay)) \/ del_timer(t)
  \/ Tick
  \/ Clock

Spec == Init /\ [][Next]_vars

-----------------------------------------------------------------------------
Queue == INSTANCE TimerQueue WITH
  pending <- InHeap, cancelled <- InHeap \ cb_func

TypeOK ==
  /\ capacity \in Nat \ {0} /\ cur_size \in 0 .. capacity
  /\ array \in [0 .. capacity - 1 -> Timers \union {NULL}]
  /\ expire \in [Timers -> Nat]
  /\ cb_func \subseteq Timers
  /\ now \in Epoch .. MaxTime /\ cur \in 0 .. now
  /\ ran \subseteq Timers /\ deleted \subseteq Timers

(* Every subtree has its earliest timer at the root, so that top() and     *)
(* tick() see the timer that is due next (min_heap.cpp:80-95, 171-194).    *)
HeapOrder ==
  \A i \in 1 .. cur_size - 1 : expire[array[Parent(i)]] <= expire[array[i]]

(* No cell in use points to a timer that was deleted, no timer is in two   *)
(* cells, and a timer that was added is in the heap until it is deleted    *)
(* (min_heap.cpp:119-135, 196-214).                                        *)
NoDangling ==
  /\ InHeap = {t \in Timers : expire[t] # 0} \ deleted
  /\ \A i, j \in 0 .. cur_size - 1 : array[i] = array[j] => i = j

(* The array is a heap of the timers that are pending, each of them once,  *)
(* through every addition, resize and removal (min_heap.cpp:69-97,         *)
(* 119-135, 171-214).                                                      *)
WellFormed == TypeOK /\ HeapOrder /\ NoDangling

(* The heap keeps what a container of timers promises: timers run earliest *)
(* first, not before their time, and not after del_timer                   *)
(* (min_heap.cpp:137-165).                                                 *)
ImplementsTimerQueue == Queue!QSpec

(* When tick() ends no timer that was due when it read the clock is left,  *)
(* wherever in the array it was and whether or not it was cancelled: it    *)
(* looks at the top only and stops at the first timer that is not due      *)
(* (min_heap.cpp:137-165).                                                 *)
TickLeavesNoneDue ==
  [][cur # 0 /\ cur' = 0 => \A t \in InHeap' : expire[t] > cur]_vars
=============================================================================
