--------------------------- MODULE SqlPoolProofs ---------------------------
(***************************************************************************)
(* Proofs about SqlPool, for any number of threads and connections.  First *)
(* what each thread knows at each point (Known), then that no connection   *)
(* is in two places (LentOnce), then the accounts: the semaphore counts    *)
(* the list (Counted), and list and holders together make MaxConn.         *)
(***************************************************************************)
EXTENDS SqlPool, FiniteSetTheorems, TLAPS

(* Only the owner of the lock is between lock() and unlock().              *)
LockHeld ==
  \A t \in Threads : pc[t] \in {"front", "pop", "push"} => lock = t

(* A thread has a connection from front() to push_back() and at no other   *)
(* time; before pop_front() it is still the first of the list.             *)
ConKnown ==
  \A t \in Threads :
    /\ pc[t] \in {"out", "wait", "lock", "front", "post"} => con[t] = NULL
    /\ pc[t] \in {"relock", "push"} => con[t] \in Conns
    /\ pc[t] = "pop" => connList # <<>> /\ con[t] = Head(connList)

Known == TypeOK /\ LockHeld /\ ConKnown

LEMMA MaxConnNat == MaxConn \in Nat
BY SqlAssumption, FS_CardinalityType DEF MaxConn

LEMMA EmptyListType == <<>> \in Seq(Conns)
OBVIOUS

LEMMA KnownInit == Init => Known
<1> SUFFICES ASSUME Init PROVE Known
  OBVIOUS
<1> USE SqlAssumption DEF Init
<1>1. connList \in Seq(Conns)
  BY MaxConnNat
<1>2. /\ pc \in [Threads -> Labels]
      /\ \A t \in Threads : pc[t] = "out" /\ con[t] = NULL
  BY DEF Labels
<1>3. reserve \in Nat /\ m_FreeConn \in Int /\ m_CurConn \in Int /\ asks \in Nat
  BY MaxConnNat
<1>4. con \in [Threads -> Conns \cup {NULL}]
  OBVIOUS
<1>5. lock \in Threads \cup {NoThread} /\ destroyed \in BOOLEAN
  OBVIOUS
<1>6. TypeOK
  BY <1>1, <1>2, <1>3, <1>4, <1>5 DEF TypeOK
<1> QED
  BY <1>2, <1>6 DEF Known, LockHeld, ConKnown

LEMMA KnownStep == Known /\ [Next]_vars => Known'
<1> SUFFICES ASSUME Known, [Next]_vars PROVE Known'
  OBVIOUS
<1> USE SqlAssumption DEF Known, TypeOK, LockHeld, ConKnown, Goto, Labels
<1>1. ASSUME NEW t \in Threads, Ask(t) PROVE Known'
  BY <1>1 DEF Ask
<1>2. ASSUME NEW t \in Threads, Wait(t) PROVE Known'
  BY <1>2 DEF Wait
<1>3. ASSUME NEW t \in Threads, Lock(t) PROVE Known'
  BY <1>3 DEF Lock
<1>4. ASSUME NEW t \in Threads, Front(t) PROVE Known'
  BY <1>4 DEF Front
<1>5. ASSUME NEW t \in Threads, Pop(t) PROVE Known'
  BY <1>5 DEF Pop
<1>6. ASSUME NEW t \in Threads, Release(t) PROVE Known'
  BY <1>6 DEF Release
<1>7. ASSUME NEW t \in Threads, Push(t) PROVE Known'
  BY <1>7 DEF Push
<1>8. ASSUME NEW t \in Threads, Post(t) PROVE Known'
  BY <1>8 DEF Post
<1>9. ASSUME DestroyPool PROVE Known'
  <2>1. \A t \in Threads : pc[t] # "pop"
    BY <1>9 DEF DestroyPool
  <2>2. connList' = connList \/ connList' = <<>>
    BY <1>9 DEF DestroyPool
  <2>3. connList' \in Seq(Conns)
    BY <2>2, EmptyListType
  <2>4. m_FreeConn' \in Int /\ m_CurConn' \in Int
    BY <1>9 DEF DestroyPool
  <2> QED
    BY <1>9, <2>1, <2>3, <2>4 DEF DestroyPool
<1>10. ASSUME UNCHANGED vars PROVE Known'
  BY <1>10 DEF vars
<1> QED
  BY <1>1, <1>2, <1>3, <1>4, <1>5, <1>6, <1>7, <1>8, <1>9, <1>10
  DEF Next, Step

(* Every variable of the pool stays in its type (sql_conn.cpp:90-154).     *)
THEOREM SqlTypeInvariant == Spec => []TypeOK
<1>1. Known => TypeOK
  BY DEF Known
<1> QED
  BY KnownInit, KnownStep, <1>1, PTL DEF Spec

-----------------------------------------------------------------------------
LEMMA LentInit == Init => LentOnce
<1> SUFFICES ASSUME Init PROVE LentOnce
  OBVIOUS
<1>1. Holders = {}
  BY DEF Init, Holders
<1>2. Len(connList) = MaxConn
  BY MaxConnNat DEF Init
<1> QED
  BY <1>1, <1>2 DEF Init, LentOnce

LEMMA LentStep == Known /\ LentOnce /\ [Next]_vars => LentOnce'
<1> SUFFICES ASSUME Known, LentOnce, [Next]_vars PROVE LentOnce'
  OBVIOUS
<1> USE SqlAssumption DEF Known, TypeOK, ConKnown, Goto, Labels, Holders
<1> DEFINE Same == UNCHANGED <<connList, con>> /\ Holders' = Holders
<1>0. Same => LentOnce'
  BY DEF LentOnce
<1>1. ASSUME NEW t \in Threads, Ask(t) PROVE Same
  BY <1>1 DEF Ask
<1>2. ASSUME NEW t \in Threads, Wait(t) PROVE Same
  BY <1>2 DEF Wait
<1>3. ASSUME NEW t \in Threads, Lock(t) PROVE Same
  BY <1>3 DEF Lock
<1>4. ASSUME NEW t \in Threads, Front(t) PROVE LentOnce'
  BY <1>4 DEF Front, LentOnce
<1>5. ASSUME NEW t \in Threads, Pop(t) PROVE LentOnce'
  <2>1. Holders' = Holders \cup {t} /\ UNCHANGED con
    BY <1>5 DEF Pop
  <2>2. /\ Len(connList') = Len(connList) - 1
        /\ \A i \in 1 .. Len(connList') :
             /\ i + 1 \in 1 .. Len(connList)
             /\ connList'[i] = connList[i + 1]
    BY <1>5 DEF Pop
  <2>3. 1 \in 1 .. Len(connList) /\ con[t] = connList[1]
    BY <1>5 DEF Pop
  <2>4. \A u \in Holders' : con'[u] = con'[t] => u = t
    BY <2>1, <2>3 DEF LentOnce
  <2>5. \A i \in 1 .. Len(connList') : connList'[i] # con'[t]
    <3> TAKE i \in 1 .. Len(connList')
    <3>1. connList[i + 1] # connList[1]
      BY <2>2, <2>3 DEF LentOnce
    <3> QED BY <3>1, <2>1, <2>2, <2>3
  <2>6. \A i, j \in 1 .. Len(connList') :
          connList'[i] = connList'[j] => i = j
    <3> TAKE i, j \in 1 .. Len(connList')
    <3> HAVE connList'[i] = connList'[j]
    <3>1. i + 1 = j + 1
      BY <2>2 DEF LentOnce
    <3> QED BY <3>1, <2>2
  <2> QED
    BY <2>1, <2>2, <2>4, <2>5, <2>6 DEF LentOnce
<1>6. ASSUME NEW t \in Threads, Release(t) PROVE Same
  BY <1>6 DEF Release
<1>7. ASSUME NEW t \in Threads, Push(t) PROVE LentOnce'
  <2>1. t \in Holders /\ con[t] \in Conns
    BY <1>7 DEF Push
  <2>2. Holders' = Holders \ {t} /\ \A u \in Holders' : con'[u] = con[u]
    BY <1>7 DEF Push
  <2>3. /\ Len(connList') = Len(connList) + 1
        /\ connList'[Len(connList) + 1] = con[t]
        /\ \A i \in 1 .. Len(connList) : connList'[i] = connList[i]
    BY <1>7, <2>1 DEF Push
  <2> QED
    BY <2>1, <2>2, <2>3 DEF LentOnce
<1>8. ASSUME NEW t \in Threads, Post(t) PROVE Same
  BY <1>8 DEF Post
<1>9. ASSUME DestroyPool PROVE LentOnce'
  BY <1>9 DEF DestroyPool, LentOnce
<1>10. ASSUME UNCHANGED vars PROVE Same
  BY <1>10 DEF vars
<1> QED
  BY <1>0, <1>1, <1>2, <1>3, <1>4, <1>5, <1>6, <1>7, <1>8, <1>9, <1>10
  DEF Next, Step

(* No connection is ever used by two threads, or used while it is free     *)
(* (sql_conn.cpp:101-110 and 123-129), even when the pool is destroyed     *)
(* under the threads.                                                      *)
THEOREM ConnectionsLentOnce == Spec => []LentOnce
BY KnownInit, KnownStep, LentInit, LentStep, PTL DEF Spec
-----------------------------------------------------------------------------
(* Threads that have a unit of reserve and no connection yet, and threads  *)
(* that have given a connection back and not said so.                      *)
Promised == {t \in Threads : pc[t] \in {"lock", "front", "pop"}}
Posting == {t \in Threads : pc[t] = "post"}

(* reserve accounts for every free connection.                             *)
Counted ==
  ~destroyed =>
    /\ Len(connList) = reserve + Cardinality(Promised) + Cardinality(Posting)
    /\ \A t \in Threads : pc[t] # "abort"

Accounts == Counted /\ CountersMatch

LEMMA FiniteGroups ==
  /\ IsFiniteSet(Promised) /\ Cardinality(Promised) \in Nat
  /\ IsFiniteSet(Posting) /\ Cardinality(Posting) \in Nat
  /\ IsFiniteSet(Holders) /\ Cardinality(Holders) \in Nat
<1>1. /\ Promised \in SUBSET Threads
      /\ Posting \in SUBSET Threads
      /\ Holders \in SUBSET Threads
  BY DEF Promised, Posting, Holders
<1> QED
  BY <1>1, FS_Subset, FS_CardinalityType, SqlAssumption

LEMMA AccountsInit == Init => Accounts
<1> SUFFICES ASSUME Init PROVE Accounts
  OBVIOUS
<1>1. Promised = {} /\ Posting = {} /\ Holders = {}
  BY DEF Init, Promised, Posting, Holders
<1>2. Len(connList) = MaxConn
  BY MaxConnNat DEF Init
<1>3. \A t \in Threads : pc[t] # "abort"
  BY DEF Init
<1> QED
  BY <1>1, <1>2, <1>3, MaxConnNat, FS_EmptySet
  DEF Init, Accounts, Counted, CountersMatch

LEMMA CountedImpliesFound == Known /\ Counted => FrontFindsConnection
<1> SUFFICES ASSUME Known, Counted, ~destroyed,
                    NEW t \in Threads, pc[t] \in {"front", "pop"}
             PROVE  connList # <<>>
  BY DEF FrontFindsConnection, Counted
<1>1. t \in Promised
  BY DEF Promised
<1>2. Cardinality(Promised) # 0
  BY <1>1, FiniteGroups, FS_EmptySet
<1> QED
  BY <1>2, FiniteGroups DEF Counted, Known, TypeOK

LEMMA AccountsStep == Known /\ Accounts /\ [Next]_vars => Accounts'
<1> SUFFICES ASSUME Known, Accounts, [Next]_vars, ~destroyed'
             PROVE  Accounts'
  BY DEF Accounts, Counted, CountersMatch
<1>0. ~destroyed
  BY DEF Next, Step, Ask, Wait, Lock, Front, Pop, Release, Push, Post,
         DestroyPool, vars
<1> USE <1>0, FiniteGroups DEF Known, TypeOK, Goto, Labels
<1> DEFINE Counts == /\ UNCHANGED <<connList, reserve, m_FreeConn, m_CurConn>>
                     /\ Promised' = Promised
                     /\ Posting' = Posting
                     /\ Holders' = Holders
                     /\ \A t \in Threads : pc'[t] # "abort"
<1>a. Counts => Accounts'
  BY DEF Accounts, Counted, CountersMatch
<1>b. \A t \in Threads : pc[t] # "abort"
  BY DEF Accounts, Counted
<1>1. ASSUME NEW t \in Threads, Ask(t) PROVE Counts
  BY <1>1, <1>b DEF Ask, Promised, Posting, Holders, ConKnown
<1>2. ASSUME NEW t \in Threads, Wait(t) PROVE Accounts'
  <2>1. Promised' = Promised \cup {t} /\ t \notin Promised
    BY <1>2 DEF Wait, Promised
  <2>2. Posting' = Posting /\ Holders' = Holders
    BY <1>2 DEF Wait, Posting, Holders, ConKnown
  <2>3. \A u \in Threads : pc'[u] # "abort"
    BY <1>2, <1>b DEF Wait
  <2>4. Cardinality(Promised') = Cardinality(Promised) + 1
    BY <2>1, FS_AddElement
  <2> QED
    BY SMTT(40), <1>2, <2>2, <2>3, <2>4 DEF Wait, Accounts, Counted, CountersMatch
<1>3. ASSUME NEW t \in Threads, Lock(t) PROVE Counts
  BY <1>3, <1>b DEF Lock, Promised, Posting, Holders, ConKnown
<1>4. ASSUME NEW t \in Threads, Front(t) PROVE Counts
  <2>1. connList # <<>>
    BY <1>4, CountedImpliesFound DEF Front, FrontFindsConnection, Accounts
  <2>2. /\ pc' = [pc EXCEPT ![t] = "pop"]
        /\ con' = [con EXCEPT ![t] = Head(connList)]
        /\ UNCHANGED <<connList, reserve, m_FreeConn, m_CurConn>>
    BY <1>4, <2>1 DEF Front
  <2>3. Holders' = Holders
    BY <1>4, <2>2 DEF Front, Holders
  <2>4. Promised' = Promised /\ Posting' = Posting
    BY <1>4, <2>2 DEF Front, Promised, Posting
  <2> QED
    BY <2>2, <2>3, <2>4, <1>b
<1>5. ASSUME NEW t \in Threads, Pop(t) PROVE Accounts'
  <2>1. Promised' = Promised \ {t} /\ t \in Promised
    BY <1>5 DEF Pop, Promised
  <2>2. Holders' = Holders \cup {t} /\ t \notin Holders
    BY <1>5, SqlAssumption DEF Pop, Holders, ConKnown
  <2>3. Posting' = Posting /\ \A u \in Threads : pc'[u] # "abort"
    BY <1>5, <1>b DEF Pop, Posting
  <2>4. Cardinality(Promised') = Cardinality(Promised) - 1
    BY <2>1, FS_RemoveElement
  <2>5. Cardinality(Holders') = Cardinality(Holders) + 1
    BY <2>2, FS_AddElement
  <2>6. Len(connList') = Len(connList) - 1
    BY <1>5 DEF Pop, ConKnown
  <2>7. /\ reserve' = reserve
        /\ m_FreeConn' = m_FreeConn - 1
        /\ m_CurConn' = m_CurConn + 1
    BY <1>5 DEF Pop
  <2>8. Counted'
    BY <2>3, <2>4, <2>6, <2>7 DEF Accounts, Counted
  <2>9. CountersMatch'
    BY SMTT(40), <2>5, <2>6, <2>7, MaxConnNat DEF Accounts, CountersMatch
  <2> QED
    BY <2>8, <2>9 DEF Accounts
<1>6. ASSUME NEW t \in Threads, Release(t) PROVE Counts
  BY <1>6, <1>b DEF Release, Promised, Posting, Holders
<1>7. ASSUME NEW t \in Threads, Push(t) PROVE Accounts'
  <2>1. Posting' = Posting \cup {t} /\ t \notin Posting
    BY <1>7 DEF Push, Posting
  <2>2. Holders' = Holders \ {t} /\ t \in Holders
    BY <1>7, SqlAssumption DEF Push, Holders, ConKnown
  <2>3. Promised' = Promised /\ \A u \in Threads : pc'[u] # "abort"
    BY <1>7, <1>b DEF Push, Promised
  <2>4. Cardinality(Posting') = Cardinality(Posting) + 1
    BY <2>1, FS_AddElement
  <2>5. Cardinality(Holders') = Cardinality(Holders) - 1
    BY <2>2, FS_RemoveElement
  <2>6. Len(connList') = Len(connList) + 1
    BY <1>7 DEF Push, ConKnown
  <2>7. /\ reserve' = reserve
        /\ m_FreeConn' = m_FreeConn + 1
        /\ m_CurConn' = m_CurConn - 1
    BY <1>7 DEF Push
  <2>8. Counted'
    BY <2>3, <2>4, <2>6, <2>7 DEF Accounts, Counted
  <2>9. CountersMatch'
    BY SMTT(40), <2>5, <2>6, <2>7, MaxConnNat DEF Accounts, CountersMatch
  <2> QED
    BY <2>8, <2>9 DEF Accounts
<1>8. ASSUME NEW t \in Threads, Post(t) PROVE Accounts'
  <2>1. Posting' = Posting \ {t} /\ t \in Posting
    BY <1>8 DEF Post, Posting
  <2>2. Promised' = Promised /\ Holders' = Holders
    BY <1>8 DEF Post, Promised, Holders, ConKnown
  <2>3. \A u \in Threads : pc'[u] # "abort"
    BY <1>8, <1>b DEF Post
  <2>4. Cardinality(Posting') = Cardinality(Posting) - 1
    BY <2>1, FS_RemoveElement
  <2> QED
    BY <1>8, <2>2, <2>3, <2>4 DEF Post, Accounts, Counted, CountersMatch
<1>9. ASSUME DestroyPool PROVE FALSE
  BY <1>9 DEF DestroyPool
<1>10. ASSUME UNCHANGED vars PROVE Counts
  BY <1>10, <1>b DEF vars, Promised, Posting, Holders
<1> QED
  BY <1>a, <1>1, <1>2, <1>3, <1>4, <1>5, <1>6, <1>7, <1>8, <1>9, <1>10
  DEF Next, Step

(* m_FreeConn and m_CurConn always say how many connections are free and   *)
(* lent, and together they are MaxConn (sql_conn.cpp:106-107, 126-127).    *)
THEOREM PoolCountersMatch == Spec => []CountersMatch
<1>1. Accounts => CountersMatch
  BY DEF Accounts
<1> QED
  BY KnownInit, KnownStep, AccountsInit, AccountsStep, <1>1, PTL DEF Spec

(* front() is never called on an empty list before the pool is destroyed:  *)
(* the unlocked size test does not matter, the semaphore does the counting *)
(* (sql_conn.cpp:94-104).                                                  *)
THEOREM FrontNeverOnEmpty == Spec => []FrontFindsConnection
<1>1. Known /\ Accounts => FrontFindsConnection
  BY CountedImpliesFound DEF Accounts
<1> QED
  BY KnownInit, KnownStep, AccountsInit, AccountsStep, <1>1, PTL DEF Spec

-----------------------------------------------------------------------------
LEMMA NullInit == Init => NobodyGetsNull
BY DEF Init, NobodyGetsNull

LEMMA NullStep ==
  Known /\ Accounts /\ NobodyGetsNull /\ [Next]_vars => NobodyGetsNull'
<1> SUFFICES ASSUME Known, Accounts, NobodyGetsNull, [Next]_vars,
                    ~destroyed', Cardinality(Threads) <= MaxConn,
                    NEW u \in Threads, pc'[u] = "use"
             PROVE  con'[u] # NULL
  BY DEF NobodyGetsNull, MaxConn
<1>0. ~destroyed
  BY DEF Next, Step, Ask, Wait, Lock, Front, Pop, Release, Push, Post,
         DestroyPool, vars
<1> USE <1>0 DEF Known, TypeOK, Goto, Labels
<1>1. CASE pc[u] = "use"
  <2>1. con[u] # NULL
    BY <1>1 DEF NobodyGetsNull
  <2>2. con'[u] = con[u]
    BY <1>1 DEF Next, Step, Ask, Wait, Lock, Front, Pop, Release, Push, Post,
                DestroyPool, vars
  <2> QED
    BY <2>1, <2>2
<1>2. CASE Ask(u)
  <2>1. Holders \in SUBSET (Threads \ {u})
    BY <1>2 DEF Ask, Holders
  <2>2. Cardinality(Holders) <= Cardinality(Threads) - 1
    <3>1. /\ IsFiniteSet(Threads \ {u})
          /\ Cardinality(Threads \ {u}) = Cardinality(Threads) - 1
      BY SqlAssumption, FS_RemoveElement
    <3>2. Cardinality(Holders) <= Cardinality(Threads \ {u})
      BY <2>1, <3>1, FS_Subset
    <3> QED
      BY <3>1, <3>2
  <2>3. Len(connList) # 0
    BY <2>2, MaxConnNat, FiniteGroups, FS_CardinalityType, SqlAssumption
    DEF Accounts, CountersMatch
  <2> QED
    BY <1>2, <2>3 DEF Ask, Empty
<1>3. CASE Pop(u)
  BY <1>3, SqlAssumption DEF Pop, ConKnown
<1> QED
  BY <1>1, <1>2, <1>3
  DEF Next, Step, Ask, Wait, Lock, Front, Pop, Release, Push, Post,
      DestroyPool, vars

(* With at least as many connections as threads, GetConnection never       *)
(* returns NULL while the pool lives: the 8 connections of main.cpp are    *)
(* enough for its 8 workers (sql_conn.cpp:94-97).                          *)
THEOREM EnoughConnectionsNoNull == Spec => []NobodyGetsNull
BY KnownInit, KnownStep, AccountsInit, AccountsStep, NullInit, NullStep, PTL
DEF Spec
=============================================================================
