------------------------------ MODULE JobQueue ------------------------------
(***************************************************************************)
(* What my_threadpool promises the event loop: requests wait in a bounded  *)
(* first-in first-out queue, an idle worker starts the oldest of them, and *)
(* no request is started twice or started without having been accepted.    *)
(* ThreadPool implements this specification with a mutex and a semaphore.  *)
(***************************************************************************)
EXTENDS Naturals, Sequences

CONSTANTS
  Workers,    \* the worker threads
  Requests,   \* what can be queued: pointers to connection objects
  MaxQueue,   \* capacity of the queue
  NoRequest   \* a worker that runs nothing

VARIABLES
  pending,    \* accepted requests, oldest first
  running     \* what each worker is running

vars == <<pending, running>>

Init ==
  /\ pending = <<>>
  /\ running = [w \in Workers |-> NoRequest]

Accept(r) ==
  /\ Len(pending) < MaxQueue
  /\ pending' = Append(pending, r)
  /\ UNCHANGED running

Start(w) ==
  /\ running[w] = NoRequest
  /\ pending # <<>>
  /\ running' = [running EXCEPT ![w] = Head(pending)]
  /\ pending' = Tail(pending)

Finish(w) ==
  /\ running[w] # NoRequest
  /\ running' = [running EXCEPT ![w] = NoRequest]
  /\ UNCHANGED pending

Next ==
  \/ \E r \in Requests : Accept(r)
  \/ \E w \in Workers : Start(w) \/ Finish(w)

Spec == Init /\ [][Next]_vars
=============================================================================
