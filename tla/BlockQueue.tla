----------------------------- MODULE BlockQueue -----------------------------
(***************************************************************************)
(* block_queue of log/block_queue.h: a ring in an array, a mutex and a     *)
(* condition variable.  Every operation holds the mutex from its first to  *)
(* its last access, and is one step here; only a pop on an empty queue     *)
(* lets go of it, in pthread_cond_wait, and goes on when it was woken and  *)
(* has the mutex again.                                                    *)
(***************************************************************************)
EXTENDS Integers, Sequences

CONSTANTS
  Threads,  \* the threads that call pop
  Items,    \* what is put into the queue
  MaxSize,  \* max_size, the length of the array
  NoItem    \* an element of the array, or an out parameter, never assigned

(* The constructor ends the program unless max_size is positive.           *)
ASSUME QueueAssumption == MaxSize \in Nat \ {0} /\ NoItem \notin Items

VARIABLES
  m_array, m_size, m_front, m_back,
  item,    \* per thread, the out parameter of its pop
  cond     \* per thread: not in pop, waiting or woken in one of its forms

ring == <<m_array, m_size, m_front, m_back>>
queueVars == <<ring, item, cond>>

Cells == 0 .. MaxSize - 1

QueueInit ==
  /\ m_array = [i \in Cells |-> NoItem]
  /\ m_size = 0 /\ m_front = -1 /\ m_back = -1
  /\ item = [t \in Threads |-> NoItem]
  /\ cond = [t \in Threads |-> "out"]

is_full == m_size >= MaxSize

Wrap(i) == (i + 1) % MaxSize

-----------------------------------------------------------------------------
(* broadcast(): every thread that waits is woken.                          *)
NoBroadcast == UNCHANGED cond

Broadcast ==
  cond' = [t \in Threads |-> IF cond[t] = "wait" THEN "woken"
                             ELSE IF cond[t] = "timedwait" THEN "timedwoken"
                             ELSE cond[t]]

(* push() on a queue that is full: the item is not taken.                  *)
PushRefused == is_full /\ Broadcast /\ UNCHANGED <<ring, item>>

(* ... and on one with room.  m_front and m_back are -1 until the first.   *)
AppendAtFront(x) ==
  LET first == m_back = -1 /\ m_front = -1
      back == IF first THEN 0 ELSE Wrap(m_back)
  IN /\ m_front' = IF first THEN 0 ELSE m_front
     /\ m_back' = back
     /\ m_array' = [m_array EXCEPT ![m_front'] = x]
     /\ m_size' = m_size + 1

AppendItem(x) ==
  LET first == m_back = -1 /\ m_front = -1
      back == IF first THEN 0 ELSE Wrap(m_back)
  IN /\ m_front' = IF first THEN 0 ELSE m_front
     /\ m_back' = back
     /\ m_array' = [m_array EXCEPT ![back] = x]
     /\ m_size' = m_size + 1

PushItem(x) ==
  /\ ~is_full
  /\ AppendItem(x)
  /\ Broadcast
  /\ UNCHANGED item

TakeFront(t) ==
  /\ item' = [item EXCEPT ![t] = m_array[m_front]]
  /\ m_front' = Wrap(m_front)
  /\ m_size' = m_size - 1
  /\ cond' = [cond EXCEPT ![t] = "out"]
  /\ UNCHANGED <<m_array, m_back>>

(* pop(item): the size is tested again after every wake-up.                *)
Pop(t) ==
  /\ cond[t] \in {"out", "woken"}
  /\ IF m_size <= 0
     THEN cond' = [cond EXCEPT ![t] = "wait"] /\ UNCHANGED <<ring, item>>
     ELSE TakeFront(t)

(* pop(item, ms_timeout) waits at most once.  tv_nsec may come out as a    *)
(* second or more, for which pthread_cond_timedwait fails at once.         *)
TimedPop(t) ==
  /\ cond[t] = "out"
  /\ IF m_size <= 0
     THEN /\ cond' \in {[cond EXCEPT ![t] = "timedwait"], cond}
          /\ UNCHANGED <<ring, item>>
     ELSE TakeFront(t)

TimedPopWoken(t) ==
  /\ cond[t] = "timedwoken"
  /\ IF m_size <= 0
     THEN cond' = [cond EXCEPT ![t] = "out"] /\ UNCHANGED <<ring, item>>
     ELSE TakeFront(t)

(* The time is over: pop gives up, whatever is in the queue by then.       *)
Timeout(t) ==
  /\ cond[t] = "timedwait"
  /\ cond' = [cond EXCEPT ![t] = "out"]
  /\ UNCHANGED <<ring, item>>

(* pthread_cond_wait may return although nobody woke the thread.           *)
Spurious(t) ==
  /\ cond[t] \in {"wait", "timedwait"}
  /\ cond' = [cond EXCEPT ![t] = IF cond[t] = "wait" THEN "woken"
                                                     ELSE "timedwoken"]
  /\ UNCHANGED <<ring, item>>

clear ==
  /\ m_size' = 0 /\ m_front' = -1 /\ m_back' = -1
  /\ UNCHANGED <<m_array, item, cond>>

-----------------------------------------------------------------------------
QueueNext ==
  \/ \E x \in Items : PushItem(x)
  \/ PushRefused
  \/ \E t \in Threads : Pop(t) \/ TimedPop(t) \/ TimedPopWoken(t)
                          \/ Timeout(t) \/ Spurious(t)
  \/ clear

QueueSpec == QueueInit /\ [][QueueNext]_queueVars

-----------------------------------------------------------------------------
(* What is in the ring, oldest first.                                      *)
Cell(i) == IF m_front + i < MaxSize THEN m_front + i ELSE m_front + i - MaxSize

Contents == [i \in 1 .. m_size |-> m_array[Cell(i - 1)]]

Queue == INSTANCE BoundedQueue WITH items <- Contents

QueueTypeOK ==
  /\ m_array \in [Cells -> Items \cup {NoItem}]
  /\ m_size \in 0 .. MaxSize
  /\ m_front \in -1 .. MaxSize - 1 /\ m_back \in -1 .. MaxSize - 1
  /\ item \in [Threads -> Items \cup {NoItem}]
  /\ cond \in [Threads -> {"out", "wait", "woken", "timedwait", "timedwoken"}]

(* The two ends of the ring are m_size cells apart, all round the array,   *)
(* and what lies between them was put in: pop never returns a cell that    *)
(* no push has filled (block_queue.h:144-152, 172-175).                    *)
RingConsistent ==
  /\ (m_front = -1) <=> (m_back = -1)
  /\ m_front = -1 => m_size = 0
  /\ m_front # -1 => Wrap(m_back) = Cell(m_size)
  /\ \A i \in 1 .. m_size : Contents[i] \in Items

(* The ring with its condition variable is the bounded FIFO: no item is    *)
(* lost or handed out twice when the queue is full, empty or wraps round   *)
(* (block_queue.h:135-178).                                                *)
ImplementsBoundedQueue == Queue!QSpec
=============================================================================
