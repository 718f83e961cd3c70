-------------------------- MODULE ThreadPoolProofs --------------------------
(***************************************************************************)
(* Proofs about ThreadPool, for any number of workers, callers, requests   *)
(* and any capacity of the queue.  The argument has two layers: who may be *)
(* inside the critical section and what it knows there (Inside), and the   *)
(* account the semaphore keeps of the queue (Counted).  The refinement of  *)
(* JobQueue needs only the first.                                          *)
(***************************************************************************)
EXTENDS ThreadPool, FiniteSetTheorems, TLAPS

(* A thread past the start of a call, or past front(), has a request.      *)
HoldsRequest ==
  /\ \A c \in Callers :
       pc[c] \in {"lock", "locked", "push", "post"} => request[c] \in Requests
  /\ \A w \in Workers : pc[w] \in {"pop", "run"} => request[w] \in Requests

(* Only the owner of m_queuemutex is between lock() and unlock().          *)
MutexHeld ==
  \A t \in Threads : pc[t] \in {"locked", "push", "pop"} => m_queuemutex = t

(* What the owner has read in its critical section is still true.          *)
ReadsStable ==
  /\ \A c \in Callers : pc[c] = "push" => Len(m_request_queue) < MaxQueue
  /\ \A w \in Workers : pc[w] = "pop" =>
       m_request_queue # <<>> /\ request[w] = Head(m_request_queue)

Inside ==
  TypeOK /\ HoldsRequest /\ MutexHeld /\ ReadsStable /\ QueueBounded

-----------------------------------------------------------------------------
LEMMA InsideInit == Init => Inside
<1> SUFFICES ASSUME Init PROVE Inside
  OBVIOUS
<1> USE PoolAssumption DEF Init, Threads
<1>1. TypeOK
  <2>1. /\ m_request_queue \in Seq(Requests)
        /\ request \in [Threads -> Requests \cup {NoRequest}]
    OBVIOUS
  <2>2. pc \in [Threads -> {"idle", "loop"}]
    OBVIOUS
  <2>3. /\ \A w \in Workers : pc[w] = "loop"
        /\ \A c \in Callers : pc[c] = "idle"
    OBVIOUS
  <2> QED BY <2>1, <2>2, <2>3 DEF TypeOK
<1>2. \A t \in Threads : pc[t] \in {"idle", "loop"}
  OBVIOUS
<1>3. QueueBounded
  BY DEF QueueBounded
<1> QED
  BY <1>1, <1>2, <1>3 DEF Inside, HoldsRequest, MutexHeld, ReadsStable

LEMMA InsideStep == Inside /\ [Next]_vars => Inside'
<1> SUFFICES ASSUME Inside, [Next]_vars PROVE Inside'
  OBVIOUS
<1> USE PoolAssumption
    DEF Inside, TypeOK, HoldsRequest, MutexHeld, ReadsStable, QueueBounded,
        Threads, Goto
<1>1. ASSUME NEW c \in Callers, NEW r \in Requests, Call(c, r) PROVE Inside'
  BY <1>1 DEF Call
<1>2. ASSUME NEW t \in Threads, LockQueue(t) PROVE Inside'
  BY <1>2 DEF LockQueue
<1>3. ASSUME NEW c \in Callers, Refuse(c) PROVE Inside'
  BY <1>3 DEF Refuse
<1>4. ASSUME NEW c \in Callers, Admit(c) PROVE Inside'
  BY <1>4 DEF Admit, Full
<1>5. ASSUME NEW c \in Callers, Push(c) PROVE Inside'
  BY <1>5 DEF Push
<1>6. ASSUME NEW c \in Callers, Post(c) PROVE Inside'
  BY <1>6 DEF Post
<1>7. ASSUME NEW w \in Workers, Loop(w) PROVE Inside'
  BY <1>7 DEF Loop
<1>8. ASSUME NEW w \in Workers, Wait(w) PROVE Inside'
  BY <1>8 DEF Wait
<1>9. ASSUME NEW w \in Workers, Front(w) PROVE Inside'
  BY <1>9 DEF Front
<1>10. ASSUME NEW w \in Workers, Pop(w) PROVE Inside'
  BY <1>10 DEF Pop
<1>11. ASSUME NEW w \in Workers, Run(w) PROVE Inside'
  BY <1>11 DEF Run
<1>12. ASSUME Destroy PROVE Inside'
  BY <1>12 DEF Destroy
<1>13. ASSUME UNCHANGED vars PROVE Inside'
  BY <1>13 DEF vars
<1> QED
  BY <1>1, <1>2, <1>3, <1>4, <1>5, <1>6, <1>7, <1>8, <1>9, <1>10, <1>11,
     <1>12, <1>13
  DEF Next, CallerStep, WorkerStep

(* Every variable stays in its type, and the program counters of workers   *)
(* and callers stay apart (threadpool.h:121-139 and 176-245).              *)
THEOREM TypeInvariant == Spec => []TypeOK
<1>1. Inside => TypeOK
  BY DEF Inside
<1> QED
  BY InsideInit, InsideStep, <1>1, PTL DEF Spec

(* The size test and the push_back of increase() (threadpool.h:127-134)    *)
(* never let the queue past m_max_queue_number, whoever calls it.          *)
THEOREM QueueNeverOverflows == Spec => []QueueBounded
<1>1. Inside => QueueBounded
  BY DEF Inside
<1> QED
  BY InsideInit, InsideStep, <1>1, PTL DEF Spec

-----------------------------------------------------------------------------
LEMMA FiniteParts ==
  /\ IsFiniteSet(Claimed) /\ Cardinality(Claimed) \in Nat
  /\ IsFiniteSet(Unposted) /\ Cardinality(Unposted) \in Nat
<1>1. Claimed \in SUBSET Workers /\ Unposted \in SUBSET Callers
  BY DEF Claimed, Unposted
<1> QED
  BY <1>1, FS_Subset, FS_CardinalityType, PoolAssumption

LEMMA CountedInit == Init => SemaphoreCountsRequests
<1> SUFFICES ASSUME Init PROVE SemaphoreCountsRequests
  OBVIOUS
<1>1. Claimed = {} /\ Unposted = {}
  BY PoolAssumption DEF Init, Claimed, Unposted, Threads
<1> QED
  BY <1>1, FS_EmptySet DEF Init, SemaphoreCountsRequests

LEMMA CountedImpliesWoken ==
  Inside /\ SemaphoreCountsRequests => WokenWorkerFindsWork
<1> SUFFICES ASSUME Inside, SemaphoreCountsRequests,
                    NEW w \in Workers, pc[w] \in {"locked", "pop"}
             PROVE  m_request_queue # <<>>
  BY DEF WokenWorkerFindsWork
<1>1. w \in Claimed
  BY DEF Claimed
<1>2. Cardinality(Claimed) # 0
  BY <1>1, FiniteParts, FS_EmptySet
<1> QED
  BY <1>2, FiniteParts DEF SemaphoreCountsRequests, Inside, TypeOK

LEMMA CountedStep ==
  Inside /\ SemaphoreCountsRequests /\ [Next]_vars => SemaphoreCountsRequests'
<1> SUFFICES ASSUME Inside, SemaphoreCountsRequests, [Next]_vars
             PROVE  SemaphoreCountsRequests'
  OBVIOUS
<1> USE DEF Inside, TypeOK, Threads, Goto
<1> DEFINE Same == /\ Claimed' = Claimed
                   /\ Unposted' = Unposted
                   /\ UNCHANGED <<m_request_queue, m_queuestart>>
<1>0. Same => SemaphoreCountsRequests'
  BY DEF SemaphoreCountsRequests
<1>1. ASSUME NEW c \in Callers, NEW r \in Requests, Call(c, r) PROVE Same
  BY <1>1, PoolAssumption DEF Call, Claimed, Unposted
<1>2. ASSUME NEW t \in Threads, LockQueue(t) PROVE Same
  BY <1>2, PoolAssumption DEF LockQueue, Claimed, Unposted
<1>3. ASSUME NEW c \in Callers, Refuse(c) PROVE Same
  BY <1>3, PoolAssumption DEF Refuse, Claimed, Unposted
<1>4. ASSUME NEW c \in Callers, Admit(c) PROVE Same
  BY <1>4, PoolAssumption DEF Admit, Claimed, Unposted
<1>5. ASSUME NEW c \in Callers, Push(c) PROVE SemaphoreCountsRequests'
  <2>1. Claimed' = Claimed
    BY <1>5, PoolAssumption DEF Push, Claimed
  <2>2. Unposted' = Unposted \cup {c} /\ c \notin Unposted
    BY <1>5, PoolAssumption DEF Push, Unposted
  <2>3. Cardinality(Unposted') = Cardinality(Unposted) + 1
    BY <2>2, FiniteParts, FS_AddElement
  <2>4. Len(m_request_queue') = Len(m_request_queue) + 1
    BY <1>5 DEF Push, HoldsRequest
  <2> QED
    BY <1>5, <2>1, <2>3, <2>4, FiniteParts DEF Push, SemaphoreCountsRequests
<1>6. ASSUME NEW c \in Callers, Post(c) PROVE SemaphoreCountsRequests'
  <2>1. Claimed' = Claimed
    BY <1>6, PoolAssumption DEF Post, Claimed
  <2>2. Unposted' = Unposted \ {c} /\ c \in Unposted
    BY <1>6, PoolAssumption DEF Post, Unposted
  <2>3. Cardinality(Unposted') = Cardinality(Unposted) - 1
    BY <2>2, FiniteParts, FS_RemoveElement
  <2> QED
    BY <1>6, <2>1, <2>3, FiniteParts DEF Post, SemaphoreCountsRequests
<1>7. ASSUME NEW w \in Workers, Loop(w) PROVE Same
  BY <1>7, PoolAssumption DEF Loop, Claimed, Unposted
<1>8. ASSUME NEW w \in Workers, Wait(w) PROVE SemaphoreCountsRequests'
  <2>1. Unposted' = Unposted
    BY <1>8, PoolAssumption DEF Wait, Unposted
  <2>2. Claimed' = Claimed \cup {w} /\ w \notin Claimed
    BY <1>8, PoolAssumption DEF Wait, Claimed
  <2>3. Cardinality(Claimed') = Cardinality(Claimed) + 1
    BY <2>2, FiniteParts, FS_AddElement
  <2> QED
    BY <1>8, <2>1, <2>3, FiniteParts DEF Wait, SemaphoreCountsRequests
<1>9. ASSUME NEW w \in Workers, Front(w) PROVE Same
  <2>1. m_request_queue # <<>>
    BY <1>9, CountedImpliesWoken DEF Front, WokenWorkerFindsWork
  <2> QED
    BY <1>9, <2>1, PoolAssumption DEF Front, Claimed, Unposted
<1>10. ASSUME NEW w \in Workers, Pop(w) PROVE SemaphoreCountsRequests'
  <2>1. Unposted' = Unposted
    BY <1>10, PoolAssumption DEF Pop, Unposted
  <2>2. Claimed' = Claimed \ {w} /\ w \in Claimed
    BY <1>10, PoolAssumption DEF Pop, Claimed
  <2>3. Cardinality(Claimed') = Cardinality(Claimed) - 1
    BY <2>2, FiniteParts, FS_RemoveElement
  <2>4. Len(m_request_queue') = Len(m_request_queue) - 1
    BY <1>10 DEF Pop, ReadsStable
  <2> QED
    BY <1>10, <2>1, <2>3, <2>4, FiniteParts DEF Pop, SemaphoreCountsRequests
<1>11. ASSUME NEW w \in Workers, Run(w) PROVE Same
  BY <1>11, PoolAssumption DEF Run, Claimed, Unposted
<1>12. ASSUME Destroy PROVE Same
  BY <1>12 DEF Destroy, Claimed, Unposted
<1>13. ASSUME UNCHANGED vars PROVE Same
  BY <1>13 DEF vars, Claimed, Unposted
<1> QED
  BY <1>0, <1>1, <1>2, <1>3, <1>4, <1>5, <1>6, <1>7, <1>8, <1>9, <1>10,
     <1>11, <1>12, <1>13
  DEF Next, CallerStep, WorkerStep

(* No request is stranded in the queue while the workers sleep: every one  *)
(* is matched by a unit of m_queuestart, by a worker already woken for it  *)
(* or by a caller about to post (threadpool.h:134-137 and 183-192).        *)
THEOREM SemaphoreInvariant == Spec => []SemaphoreCountsRequests
BY InsideInit, InsideStep, CountedInit, CountedStep, PTL DEF Spec

(* A woken worker finds a request: the empty() test of run()               *)
(* (threadpool.h:185-189) is never true.                                   *)
THEOREM NoFalseWakeup == Spec => []WokenWorkerFindsWork
BY InsideInit, InsideStep, CountedInit, CountedStep, CountedImpliesWoken, PTL
DEF Spec

-----------------------------------------------------------------------------
LEMMA JobsInit == Init => Jobs!Init
BY DEF Init, Jobs!Init, running, Threads

LEMMA JobsStep == Inside /\ [Next]_vars => [Jobs!Next]_(Jobs!vars)
<1> SUFFICES ASSUME Inside, [Next]_vars PROVE [Jobs!Next]_(Jobs!vars)
  OBVIOUS
<1> USE PoolAssumption DEF Inside, TypeOK, Threads, Goto, running
<1> DEFINE Stutter == UNCHANGED <<m_request_queue, running>>
<1>0. Stutter => UNCHANGED Jobs!vars
  BY DEF Jobs!vars
<1>1. ASSUME NEW c \in Callers, NEW r \in Requests, Call(c, r) PROVE Stutter
  BY <1>1 DEF Call
<1>2. ASSUME NEW t \in Threads, LockQueue(t) PROVE Stutter
  BY <1>2 DEF LockQueue
<1>3. ASSUME NEW c \in Callers, Refuse(c) PROVE Stutter
  BY <1>3 DEF Refuse
<1>4. ASSUME NEW c \in Callers, Admit(c) PROVE Stutter
  BY <1>4 DEF Admit
<1>5. ASSUME NEW c \in Callers, Push(c)
      PROVE  \E r \in Requests : Jobs!Accept(r)
  BY <1>5 DEF Push, Jobs!Accept, HoldsRequest, ReadsStable
<1>6. ASSUME NEW c \in Callers, Post(c) PROVE Stutter
  BY <1>6 DEF Post
<1>7. ASSUME NEW w \in Workers, Loop(w) PROVE Stutter
  BY <1>7 DEF Loop
<1>8. ASSUME NEW w \in Workers, Wait(w) PROVE Stutter
  BY <1>8 DEF Wait
<1>9. ASSUME NEW w \in Workers, Front(w) PROVE Stutter
  BY <1>9 DEF Front
<1>10. ASSUME NEW w \in Workers, Pop(w) PROVE Jobs!Start(w)
  BY <1>10 DEF Pop, Jobs!Start, HoldsRequest, ReadsStable
<1>11. ASSUME NEW w \in Workers, Run(w) PROVE Jobs!Finish(w)
  BY <1>11 DEF Run, Jobs!Finish, HoldsRequest
<1>12. ASSUME Destroy PROVE Stutter
  BY <1>12 DEF Destroy
<1>13. ASSUME UNCHANGED vars PROVE Stutter
  BY <1>13 DEF vars
<1> QED
  BY <1>0, <1>1, <1>2, <1>3, <1>4, <1>5, <1>6, <1>7, <1>8, <1>9, <1>10,
     <1>11, <1>12, <1>13
  DEF Next, CallerStep, WorkerStep, Jobs!Next

(* The pool is a bounded FIFO whose requests each run once, in the order   *)
(* they were accepted (threadpool.h:121-245).                              *)
THEOREM PoolImplementsJobQueue == Spec => ImplementsJobQueue
BY InsideInit, InsideStep, JobsInit, JobsStep, PTL
DEF Spec, ImplementsJobQueue, Jobs!Spec
=============================================================================
