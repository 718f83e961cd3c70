------------------------------ MODULE SqlPool ------------------------------
(***************************************************************************)
(* connection_pool and connectionRAII (sql_conn/sql_conn.cpp).  A thread   *)
(* borrows a database connection for the time a connectionRAII object is   *)
(* alive.  GetConnection looks at the size of the list without the lock,   *)
(* then waits on the semaphore reserve, then takes the front under lock.   *)
(* The pool is a static object: its destructor runs at process exit while  *)
(* the detached worker threads still do.                                   *)
(***************************************************************************)
EXTENDS Integers, Sequences, FiniteSets

CONSTANTS
  Threads,    \* the threads that borrow: the workers
  Conns,      \* the connections opened by init()
  MaxAsks,    \* bound of the model: calls of GetConnection in a behaviour
  NULL,       \* no connection
  NoThread    \* the owner of a free lock

ASSUME SqlAssumption ==
  /\ IsFiniteSet(Threads) /\ IsFiniteSet(Conns)
  /\ NULL \notin Conns
  /\ NoThread \notin Threads
  /\ MaxAsks \in Nat

MaxConn == Cardinality(Conns)

VARIABLES
  connList,    \* the free connections
  reserve,     \* value of the semaphore
  lock,        \* the thread that holds the mutex, or NoThread
  m_FreeConn,  \* counter of free connections
  m_CurConn,   \* counter of connections in use
  pc,          \* where each thread is
  con,         \* con of GetConnection, then conRAII
  destroyed,   \* DestroyPool has run
  asks         \* calls of GetConnection so far

vars == <<connList, reserve, lock, m_FreeConn, m_CurConn, pc, con, destroyed,
          asks>>

(* init() has opened MaxConn connections; a failure to open one ends the   *)
(* program.                                                                *)
Init ==
  /\ connList \in [1 .. MaxConn -> Conns]
  /\ \A i, j \in 1 .. MaxConn : connList[i] = connList[j] => i = j
  /\ reserve = MaxConn
  /\ lock = NoThread
  /\ m_FreeConn = MaxConn
  /\ m_CurConn = 0
  /\ pc = [t \in Threads |-> "out"]
  /\ con = [t \in Threads |-> NULL]
  /\ destroyed = FALSE
  /\ asks = 0

Goto(t, label) == pc' = [pc EXCEPT ![t] = label]

-----------------------------------------------------------------------------
(* GetConnection, called by the constructor of connectionRAII.             *)
Empty == Len(connList) = 0

(* The test of the size, made without the lock.                            *)
Ask(t) ==
  /\ pc[t] = "out"
  /\ asks < MaxAsks
  /\ asks' = asks + 1
  /\ Goto(t, IF Empty THEN "use" ELSE "wait")
  /\ UNCHANGED <<connList, reserve, lock, m_FreeConn, m_CurConn, con,
                 destroyed>>

NoWait(t) ==
  /\ pc[t] = "wait"
  /\ Goto(t, "lock")
  /\ UNCHANGED <<connList, reserve, lock, m_FreeConn, m_CurConn, con,
                 destroyed, asks>>

Wait(t) ==
  /\ pc[t] = "wait"
  /\ reserve > 0
  /\ reserve' = reserve - 1
  /\ Goto(t, "lock")
  /\ UNCHANGED <<connList, lock, m_FreeConn, m_CurConn, con, destroyed, asks>>

LockIgnored(t) ==
  /\ pc[t] \in {"lock", "relock"}
  /\ lock' = t
  /\ Goto(t, IF pc[t] = "lock" THEN "front" ELSE "push")
  /\ UNCHANGED <<connList, reserve, m_FreeConn, m_CurConn, con, destroyed,
                 asks>>

Lock(t) ==
  /\ pc[t] \in {"lock", "relock"}
  /\ lock = NoThread
  /\ lock' = t
  /\ Goto(t, IF pc[t] = "lock" THEN "front" ELSE "push")
  /\ UNCHANGED <<connList, reserve, m_FreeConn, m_CurConn, con, destroyed,
                 asks>>

(* front() and pop_front() do not test for an empty list; on one, the list *)
(* unlinks and frees its own header and the process is aborted.            *)
Front(t) ==
  /\ pc[t] = "front"
  /\ IF connList = <<>>
     THEN /\ pc' = [u \in Threads |-> "abort"]
          /\ UNCHANGED con
     ELSE /\ con' = [con EXCEPT ![t] = Head(connList)]
          /\ Goto(t, "pop")
  /\ UNCHANGED <<connList, reserve, lock, m_FreeConn, m_CurConn, destroyed,
                 asks>>

Pop(t) ==
  /\ pc[t] = "pop"
  /\ connList' = Tail(connList)
  /\ m_FreeConn' = m_FreeConn - 1
  /\ m_CurConn' = m_CurConn + 1
  /\ lock' = NoThread
  /\ Goto(t, "use")
  /\ UNCHANGED <<reserve, con, destroyed, asks>>

-----------------------------------------------------------------------------
(* ReleaseConnection, called by the destructor of connectionRAII.  A       *)
(* thread that was given NULL gives nothing back.                          *)
Release(t) ==
  /\ pc[t] = "use"
  /\ Goto(t, IF con[t] = NULL THEN "out" ELSE "relock")
  /\ UNCHANGED <<connList, reserve, lock, m_FreeConn, m_CurConn, con,
                 destroyed, asks>>

PushUncounted(t) ==
  /\ pc[t] = "push"
  /\ connList' = Append(connList, con[t])
  /\ m_FreeConn' = m_FreeConn + 1
  /\ lock' = NoThread
  /\ con' = [con EXCEPT ![t] = NULL]
  /\ Goto(t, "post")
  /\ UNCHANGED <<reserve, m_CurConn, destroyed, asks>>

Push(t) ==
  /\ pc[t] = "push"
  /\ connList' = Append(connList, con[t])
  /\ m_FreeConn' = m_FreeConn + 1
  /\ m_CurConn' = m_CurConn - 1
  /\ lock' = NoThread
  /\ con' = [con EXCEPT ![t] = NULL]
  /\ Goto(t, "post")
  /\ UNCHANGED <<reserve, destroyed, asks>>

PostLost(t) ==
  /\ pc[t] = "post"
  /\ Goto(t, "out")
  /\ UNCHANGED <<connList, reserve, lock, m_FreeConn, m_CurConn, con,
                 destroyed, asks>>

Post(t) ==
  /\ pc[t] = "post"
  /\ reserve' = reserve + 1
  /\ Goto(t, "out")
  /\ UNCHANGED <<connList, lock, m_FreeConn, m_CurConn, con, destroyed, asks>>

-----------------------------------------------------------------------------
(* The static destructor: the free connections are closed, those in use    *)
(* are not, and reserve keeps its value.                                   *)
DestroyPool ==
  /\ ~destroyed
  /\ lock = NoThread
  /\ destroyed' = TRUE
  /\ IF connList = <<>>
     THEN UNCHANGED <<connList, m_FreeConn, m_CurConn>>
     ELSE connList' = <<>> /\ m_FreeConn' = 0 /\ m_CurConn' = 0
  /\ UNCHANGED <<reserve, lock, pc, con, asks>>

Step(t) ==
  Wait(t) \/ Lock(t) \/ Front(t) \/ Pop(t) \/ Release(t) \/ Push(t) \/ Post(t)

Next ==
  \/ \E t \in Threads : Ask(t) \/ Step(t)
  \/ DestroyPool

Spec == Init /\ [][Next]_vars

(* A thread that can take its next step takes it; a query returns.         *)
Fairness == \A t \in Threads : WF_vars(Step(t))

FairSpec == Spec /\ Fairness

-----------------------------------------------------------------------------
Labels == {"out", "wait", "lock", "front", "pop", "use", "relock", "push",
           "post", "abort"}

TypeOK ==
  /\ connList \in Seq(Conns)
  /\ reserve \in Nat
  /\ lock \in Threads \cup {NoThread}
  /\ m_FreeConn \in Int
  /\ m_CurConn \in Int
  /\ pc \in [Threads -> Labels]
  /\ con \in [Threads -> Conns \cup {NULL}]
  /\ destroyed \in BOOLEAN
  /\ asks \in Nat

(* Threads that have a connection which is not in connList.                *)
Holders == {t \in Threads : pc[t] \in {"use", "relock", "push"} /\ con[t] # NULL}

(* Two threads never use the same connection, and a connection that is in  *)
(* use is not in the list: a MYSQL handle may not be shared by two threads *)
(* (sql_conn.cpp:101-110 and 123-129).                                     *)
LentOnce ==
  /\ \A t, u \in Holders : con[t] = con[u] => t = u
  /\ \A t \in Holders, i \in 1 .. Len(connList) : connList[i] # con[t]
  /\ \A i, j \in 1 .. Len(connList) : connList[i] = connList[j] => i = j

(* The counters say how many connections are free and lent, and none is    *)
(* lost (sql_conn.cpp:106-107 and 126-127).                                *)
CountersMatch ==
  ~destroyed =>
    /\ m_FreeConn = Len(connList)
    /\ m_CurConn = Cardinality(Holders)
    /\ m_FreeConn + m_CurConn = MaxConn

(* Until the pool is destroyed, a thread that got past reserve.wait()      *)
(* finds a connection, although the list may have been emptied since the   *)
(* size was tested (sql_conn.cpp:94-104).                                  *)
FrontFindsConnection ==
  ~destroyed =>
    \A t \in Threads : /\ pc[t] \in {"front", "pop"} => connList # <<>>
                       /\ pc[t] # "abort"

(* With no more threads than connections, the 8 and 8 of main.cpp, nobody  *)
(* is handed NULL, which the callers do not test for (sql_conn.cpp:94-97). *)
NobodyGetsNull ==
  ~destroyed /\ Cardinality(Threads) <= MaxConn =>
    \A t \in Threads : pc[t] = "use" => con[t] # NULL

(* A thread that waits for a connection gets one, unless the program ends: *)
(* each connection given back is announced (sql_conn.cpp:100 and 131).     *)
WaiterServed == \A t \in Threads : pc[t] = "wait" ~> (pc[t] = "use" \/ destroyed)

(* "Destroys all connections" (sql_conn.h:30): none is open afterwards.    *)
DestroyClosesAll ==
  destroyed => connList = <<>> /\ \A t \in Threads : con[t] = NULL
=============================================================================
