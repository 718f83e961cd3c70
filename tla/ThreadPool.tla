----------------------------- MODULE ThreadPool -----------------------------
(***************************************************************************)
(* my_threadpool (threadpool/threadpool.h) with the my_locker and my_sem   *)
(* it is built from (locker/locker.h).  A caller of increase() appends a   *)
(* request under m_queuemutex and then posts m_queuestart; a worker waits  *)
(* on m_queuestart, takes the oldest request under m_queuemutex and runs   *)
(* it.  What running means is left to the modules that use the pool.       *)
(***************************************************************************)
EXTENDS Naturals, Sequences, FiniteSets

CONSTANTS
  Workers,     \* the m_thread_number worker threads
  Callers,     \* threads that call increase(); the program has one
  Requests,    \* the connection objects whose addresses are queued
  MaxQueue,    \* m_max_queue_number
  MaxCalls,    \* bound of the model: calls of increase() in a behaviour
  NoRequest,   \* a thread that holds no request
  NoThread     \* the owner of a free mutex

ASSUME PoolAssumption ==
  /\ IsFiniteSet(Workers) /\ IsFiniteSet(Callers)
  /\ Workers \cap Callers = {}
  /\ NoThread \notin Workers \cup Callers
  /\ NoRequest \notin Requests
  /\ MaxQueue \in Nat \ {0}
  /\ MaxCalls \in Nat

Threads == Workers \cup Callers

VARIABLES
  m_request_queue,  \* the list of queued requests, oldest first
  m_queuemutex,     \* the thread that holds the mutex, or NoThread
  m_queuestart,     \* value of the semaphore
  m_stop,           \* set by the destructor
  pc,               \* where each thread is in increase() or run()
  request,          \* the request each thread works on
  calls             \* calls of increase() so far

vars == <<m_request_queue, m_queuemutex, m_queuestart, m_stop, pc, request,
          calls>>

Init ==
  /\ m_request_queue = <<>>
  /\ m_queuemutex = NoThread
  /\ m_queuestart = 0
  /\ m_stop = FALSE
  /\ pc = [t \in Threads |-> IF t \in Workers THEN "loop" ELSE "idle"]
  /\ request = [t \in Threads |-> NoRequest]
  /\ calls = 0

Goto(t, label) == pc' = [pc EXCEPT ![t] = label]

-----------------------------------------------------------------------------
(* Both increase() and run() enter a critical section the same way.        *)
LockQueueUnguarded(t) ==
  /\ pc[t] = "lock"
  /\ m_queuemutex' = t
  /\ Goto(t, "locked")
  /\ UNCHANGED <<m_request_queue, m_queuestart, m_stop, request, calls>>

LockQueue(t) ==
  /\ pc[t] = "lock"
  /\ m_queuemutex = NoThread
  /\ m_queuemutex' = t
  /\ Goto(t, "locked")
  /\ UNCHANGED <<m_request_queue, m_queuestart, m_stop, request, calls>>

-----------------------------------------------------------------------------
(* increase(): the caller's side.                                          *)
Call(c, r) ==
  /\ pc[c] = "idle"
  /\ ~m_stop
  /\ calls < MaxCalls
  /\ calls' = calls + 1
  /\ request' = [request EXCEPT ![c] = r]
  /\ Goto(c, "lock")
  /\ UNCHANGED <<m_request_queue, m_queuemutex, m_queuestart, m_stop>>

Full == Len(m_request_queue) >= MaxQueue

(* A full queue: unlock and return false.  The request is not queued.      *)
Refuse(c) ==
  /\ pc[c] = "locked"
  /\ Full
  /\ m_queuemutex' = NoThread
  /\ Goto(c, "idle")
  /\ request' = [request EXCEPT ![c] = NoRequest]
  /\ UNCHANGED <<m_request_queue, m_queuestart, m_stop, calls>>

Admit(c) ==
  /\ pc[c] = "locked"
  /\ ~Full
  /\ Goto(c, "push")
  /\ UNCHANGED <<m_request_queue, m_queuemutex, m_queuestart, m_stop,
                 request, calls>>

Push(c) ==
  /\ pc[c] = "push"
  /\ m_request_queue' = Append(m_request_queue, request[c])
  /\ m_queuemutex' = NoThread
  /\ Goto(c, "post")
  /\ UNCHANGED <<m_queuestart, m_stop, request, calls>>

PostLost(c) ==
  /\ pc[c] = "post"
  /\ Goto(c, "idle")
  /\ request' = [request EXCEPT ![c] = NoRequest]
  /\ UNCHANGED <<m_request_queue, m_queuemutex, m_queuestart, m_stop, calls>>

Post(c) ==
  /\ pc[c] = "post"
  /\ m_queuestart' = m_queuestart + 1
  /\ Goto(c, "idle")
  /\ request' = [request EXCEPT ![c] = NoRequest]
  /\ UNCHANGED <<m_request_queue, m_queuemutex, m_stop, calls>>

-----------------------------------------------------------------------------
(* run(): a worker's side.                                                 *)
Loop(w) ==
  /\ pc[w] = "loop"
  /\ Goto(w, IF m_stop THEN "exit" ELSE "wait")
  /\ UNCHANGED <<m_request_queue, m_queuemutex, m_queuestart, m_stop,
                 request, calls>>

Wait(w) ==
  /\ pc[w] = "wait"
  /\ m_queuestart > 0
  /\ m_queuestart' = m_queuestart - 1
  /\ Goto(w, "lock")
  /\ UNCHANGED <<m_request_queue, m_queuemutex, m_stop, request, calls>>

(* front(), or the early exit of the loop body when the queue is empty.    *)
Front(w) ==
  /\ pc[w] = "locked"
  /\ IF m_request_queue = <<>>
     THEN /\ m_queuemutex' = NoThread
          /\ Goto(w, "loop")
          /\ UNCHANGED request
     ELSE /\ request' = [request EXCEPT ![w] = Head(m_request_queue)]
          /\ Goto(w, "pop")
          /\ UNCHANGED m_queuemutex
  /\ UNCHANGED <<m_request_queue, m_queuestart, m_stop, calls>>

Pop(w) ==
  /\ pc[w] = "pop"
  /\ m_request_queue' = Tail(m_request_queue)
  /\ m_queuemutex' = NoThread
  /\ Goto(w, "run")
  /\ UNCHANGED <<m_queuestart, m_stop, request, calls>>

Run(w) ==
  /\ pc[w] = "run"
  /\ request' = [request EXCEPT ![w] = NoRequest]
  /\ Goto(w, "loop")
  /\ UNCHANGED <<m_request_queue, m_queuemutex, m_queuestart, m_stop, calls>>

-----------------------------------------------------------------------------
(* ~my_threadpool, run by the thread that made the calls.  Workers are     *)
(* detached and are not woken.                                             *)
Destroy ==
  /\ ~m_stop
  /\ \A c \in Callers : pc[c] = "idle"
  /\ m_stop' = TRUE
  /\ UNCHANGED <<m_request_queue, m_queuemutex, m_queuestart, pc, request,
                 calls>>

CallerStep(c) == LockQueue(c) \/ Refuse(c) \/ Admit(c) \/ Push(c) \/ Post(c)

WorkerStep(w) ==
  Loop(w) \/ Wait(w) \/ LockQueue(w) \/ Front(w) \/ Pop(w) \/ Run(w)

Next ==
  \/ \E c \in Callers : (\E r \in Requests : Call(c, r)) \/ CallerStep(c)
  \/ \E w \in Workers : WorkerStep(w)
  \/ Destroy

Spec == Init /\ [][Next]_vars

(* A thread that can take its next step takes it: the scheduler runs every *)
(* ready thread, and process() of a request returns.                       *)
Fairness ==
  /\ \A c \in Callers : WF_vars(CallerStep(c))
  /\ \A w \in Workers : WF_vars(WorkerStep(w))

FairSpec == Spec /\ Fairness

-----------------------------------------------------------------------------
TypeOK ==
  /\ m_request_queue \in Seq(Requests)
  /\ m_queuemutex \in Threads \cup {NoThread}
  /\ m_queuestart \in Nat
  /\ m_stop \in BOOLEAN
  /\ pc \in [Threads -> {"idle", "lock", "locked", "push", "post",
                         "loop", "wait", "pop", "run", "exit"}]
  /\ \A w \in Workers : pc[w] \notin {"idle", "push", "post"}
  /\ \A c \in Callers : pc[c] \notin {"loop", "wait", "pop", "run", "exit"}
  /\ request \in [Threads -> Requests \cup {NoRequest}]
  /\ calls \in Nat

(* The queue never grows past m_max_queue_number, although the test of the *)
(* size and the push_back are two steps: increase() holds m_queuemutex     *)
(* from the one to the other (threadpool.h:127-136).                       *)
QueueBounded == Len(m_request_queue) <= MaxQueue

(* Workers that have taken a unit of the semaphore and no request yet, and *)
(* callers that have queued a request and not posted it yet.               *)
Claimed == {w \in Workers : pc[w] \in {"lock", "locked", "pop"}}
Unposted == {c \in Callers : pc[c] = "post"}

(* The semaphore accounts for every queued request: none is stranded in    *)
(* the queue while all workers sleep, and no worker is woken for nothing.  *)
(* (threadpool.h:134-137 against threadpool.h:183-192)                     *)
SemaphoreCountsRequests ==
  Len(m_request_queue)
    = m_queuestart + Cardinality(Claimed) + Cardinality(Unposted)

(* A worker that got past m_queuestart.wait() and holds the mutex finds a  *)
(* request: the empty() test of run() (threadpool.h:185) never fires.      *)
WokenWorkerFindsWork ==
  \A w \in Workers : pc[w] \in {"locked", "pop"} => m_request_queue # <<>>

(* The pool is the bounded FIFO of JobQueue: a request starts to run when  *)
(* it leaves the queue.                                                    *)
running == [w \in Workers |-> IF pc[w] = "run" THEN request[w] ELSE NoRequest]

Jobs == INSTANCE JobQueue WITH pending <- m_request_queue

ImplementsJobQueue == Jobs!Spec

(* Every request increase() accepted is run unless the pool is destroyed:  *)
(* no wake-up is lost between push_back, post and wait.                    *)
AcceptedRequestsRun ==
  \A r \in Requests :
    (\E i \in 1 .. Len(m_request_queue) : m_request_queue[i] = r)
      ~> (m_stop \/ \E w \in Workers : pc[w] = "run" /\ request[w] = r)
=============================================================================
