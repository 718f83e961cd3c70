--------------------------- MODULE DispatchProofs ---------------------------
(***************************************************************************)
(* Proofs about Dispatch, for any descriptors, workers, clients and sizes. *)
(* Three layers.  Custody, for both models: the main thread works on open  *)
(* descriptors only, one event each, so clients are counted right.         *)
(* Exclusive and Flow, for the proactor model: a connection is in at most  *)
(* one place, hence what is read of it at one step is still true at the    *)
(* next.  Handshake, for the reactor model: the main thread has given out  *)
(* at most one request that has not been answered through improv.          *)
(***************************************************************************)
EXTENDS Dispatch, FiniteSetTheorems, TLAPS

SockType ==
  [conn : 0 .. MaxConns, inbox : Nat, sent : 0 .. Pieces + 1,
   kind : Requests \cup {"none"}, gone : BOOLEAN, full : BOOLEAN,
   last : BOOLEAN]

UserType ==
  [conn : 0 .. MaxConns, buf : 0 .. Pieces, cut : BOOLEAN,
   out : 0 .. MaxConns, left : 0 .. Parts, bad : BOOLEAN, linger : BOOLEAN,
   improv : {0, 1}, timer_flag : {0, 1}, m_state : {0, 1}]

WorkerPcs ==
  {"idle", "state", "improv_parse", "improv_flag", "improv_done", "flag",
   "parse", "respond"}

HasFdPcs ==
  {"close", "in", "out", "increase", "increase_read", "increase_write",
   "spin", "settle"}

MainPcs == HasFdPcs \cup {"wait", "next", "accept"}

(* What TypeOK says in both models, without the bound on what waits to be  *)
(* read, which needs Flow.                                                 *)
Typed ==
  /\ backlog \in Nat /\ conns \in Nat /\ accepted \in Nat /\ edge \in BOOLEAN
  /\ backlog + accepted <= conns /\ conns <= MaxConns
  /\ sock \in [Fds -> SockType]
  /\ interest \in [Fds -> {"off", "in", "out"}]
  /\ users \in [Fds -> UserType]
  /\ m_client_number \in Int
  /\ queue \in Seq(Fds) /\ dropped \subseteq Fds
  /\ wpc \in [Workers -> WorkerPcs]
  /\ wfd \in [Workers -> Fds \cup {NoFd}]
  /\ wret \in [Workers -> 0 .. MaxConns]
  /\ \A w \in Workers : wpc[w] = "idle" <=> wfd[w] = NoFd
  /\ mpc \in MainPcs
  /\ mfd \in Fds \cup {NoFd}
  /\ batch \subseteq [fd : Fds \cup {NoFd}, kind : Events]

InBatch(fd) == \E e \in batch : e.fd = fd

(* The main thread and the events it has yet to handle.                    *)
Custody ==
  /\ \A fd \in Fds : interest[fd] # "off" => IsOpen(fd)
  /\ \A e \in batch : IF e.kind = "listen" THEN e.fd = NoFd
                      ELSE e.fd \in Fds /\ IsOpen(e.fd)
  /\ \A e, f \in batch : e.fd = f.fd => e = f
  /\ mpc \in HasFdPcs => mfd \in Fds /\ IsOpen(mfd) /\ ~InBatch(mfd)
  /\ mpc = "wait" => batch = {}

MainInv == Typed /\ Custody

-----------------------------------------------------------------------------
(* Proactor.                                                               *)
Armed(fd) == interest[fd] # "off" /\ ~MainHolds(fd)
Queued(fd) == \E i \in 1 .. Len(queue) : queue[i] = fd
WithWorker(fd) == \E w \in Workers : wfd[w] = fd

(* A descriptor is in at most one place, and there once.                   *)
Exclusive ==
  /\ mpc \notin {"increase_read", "increase_write", "spin", "settle"}
  /\ \A w \in Workers : wpc[w] \in {"idle", "parse", "respond"}
  /\ \A fd \in Fds :
       /\ Armed(fd) => ~InBatch(fd) /\ ~Queued(fd) /\ ~WithWorker(fd)
       /\ InBatch(fd) => ~MainHolds(fd) /\ ~Queued(fd) /\ ~WithWorker(fd)
       /\ MainHolds(fd) => ~Queued(fd) /\ ~WithWorker(fd)
       /\ Queued(fd) => ~WithWorker(fd) /\ IsOpen(fd)
       /\ WithWorker(fd) => IsOpen(fd)
  /\ \A i, j \in 1 .. Len(queue) : queue[i] = queue[j] => i = j
  /\ \A v, w \in Workers : wfd[v] = wfd[w] /\ wfd[v] # NoFd => v = w
  /\ mpc \in {"in", "out", "increase"} => interest[mfd] = "off"

Somewhere(fd) ==
  Armed(fd) \/ InBatch(fd) \/ MainHolds(fd) \/ Queued(fd) \/ WithWorker(fd)

(* A descriptor that is open is somewhere, unless its request found the    *)
(* queue full; then it is nowhere.                                         *)
Placed ==
  /\ \A fd \in Fds : IsOpen(fd) => Somewhere(fd) \/ fd \in dropped
  /\ \A fd \in dropped : IsOpen(fd) /\ ~Somewhere(fd)

(* What an event says is true until it is handled.                         *)
EventTrue(fd, kind) ==
  /\ kind = "hup" => sock[fd].gone
  /\ kind = "in" => sock[fd].inbox > 0
  /\ kind = "out" => users[fd].left > 0

(* All of a request that ends within the buffer has been read.             *)
ReadWhole(fd) ==
  users[fd].buf = Pieces /\ sock[fd].kind \notin {"none", "long"}

(* What has arrived of a request and has been read is what was sent, and a *)
(* response is there for a whole request of the same client, or for one    *)
(* that is malformed.                                                      *)
Consistent(fd) ==
  LET s == sock[fd]
      u == users[fd] IN
  /\ u.conn = s.conn
  /\ s.sent <= Length(s.kind) /\ (s.kind = "none" => s.sent = 0)
  /\ ~s.last => u.buf + s.inbox = s.sent
  /\ s.last => s.inbox = 0 /\ mpc = "close" /\ mfd = fd
  /\ u.bad => s.kind = "bad"
  /\ u.left > 0 => u.out = s.conn /\ (u.bad \/ ReadWhole(fd))
  /\ interest[fd] = "out" => u.left > 0

(* What a worker has found in a request belongs to the client it is for.   *)
MadeFor(w) ==
  wpc[w] = "respond" /\ wret[w] # NoConn =>
    wret[w] = sock[wfd[w]].conn /\ (users[wfd[w]].bad \/ ReadWhole(wfd[w]))

(* Why the main thread is about to close a connection.                     *)
Excused(s) == s.gone \/ s.last \/ Refused(s)

Flow ==
  /\ \A fd \in Fds : IsOpen(fd) => Consistent(fd)
  /\ \A e \in batch : e.kind # "listen" => EventTrue(e.fd, e.kind)
  /\ mpc \in {"in", "out"} => EventTrue(mfd, mpc)
  /\ mpc = "close" => Excused(sock[mfd])
  /\ \A w \in Workers : MadeFor(w)

(* Nothing waits on a socket that is closed.                               *)
ClosedEmpty == \A fd \in Fds : ~IsOpen(fd) => sock[fd].inbox = 0

ProactorInv == MainInv /\ Exclusive /\ Flow /\ ClosedEmpty

-----------------------------------------------------------------------------
(* Reactor: the workers that have not yet set improv for their request.    *)
Unanswered ==
  {w \in Workers :
     wpc[w] \in {"state", "improv_parse", "improv_flag", "improv_done"}}

Answered(fd) == users[fd].improv = 1

Handshake ==
  /\ mpc \notin {"in", "out", "increase"}
  /\ Len(queue) <= 1
  /\ queue # <<>> => mpc = "spin" /\ queue[1] = mfd /\ Unanswered = {}
  /\ \A v, w \in Unanswered : v = w
  /\ \A w \in Unanswered : mpc = "spin" /\ wfd[w] = mfd
  /\ \A fd \in Fds : Answered(fd) =>
       /\ mpc \in {"spin", "settle"} /\ fd = mfd
       /\ queue = <<>> /\ Unanswered = {}

-----------------------------------------------------------------------------
(* The tuple of the request queue is always opened.                        *)
USE DEF queueVars

LEMMA Sizes ==
  /\ MAX_FD \in Nat /\ MAX_FD > 0 /\ MaxQueue \in Nat /\ MaxQueue > 0
  /\ Pieces \in Nat /\ Pieces > 0 /\ Parts \in Nat /\ Parts > 0
  /\ MaxConns \in Nat
BY DispatchAssumption

LEMMA MainInit == Init => MainInv
<1> SUFFICES ASSUME Init PROVE MainInv
  OBVIOUS
<1> USE DispatchAssumption DEF Init
<1>1. Closed \in SockType /\ InitUser(NoConn) \in UserType
  BY DEF Closed, InitUser, NoConn, SockType, UserType
<1>2. Typed
  <2>1. /\ sock \in [Fds -> SockType] /\ users \in [Fds -> UserType]
        /\ queue \in Seq(Fds) /\ dropped \subseteq Fds
    BY <1>1
  <2>2. /\ wpc \in [Workers -> WorkerPcs] /\ wret \in [Workers -> 0 .. MaxConns]
        /\ wfd \in [Workers -> Fds \cup {NoFd}]
    BY DEF WorkerPcs, NoConn
  <2>3. /\ backlog \in Nat /\ conns \in Nat /\ accepted \in Nat
        /\ backlog + accepted <= conns /\ conns <= MaxConns
        /\ m_client_number \in Int
    OBVIOUS
  <2>4. interest \in [Fds -> {"off", "in", "out"}]
    OBVIOUS
  <2>5. mpc \in MainPcs /\ mfd \in Fds \cup {NoFd} /\ batch = {}
    BY DEF MainPcs
  <2>6. edge \in BOOLEAN
    OBVIOUS
  <2> QED
    BY <2>1, <2>2, <2>3, <2>4, <2>5, <2>6 DEF Typed
<1>3. Custody
  BY DEF Custody, HasFdPcs
<1> QED
  BY <1>2, <1>3 DEF MainInv

(* The parts of a step that concern a worker or the main thread only.      *)
LEMMA UserTyped ==
  ASSUME Typed, NEW fd \in Fds, NEW u \in UserType, SetUser(fd, u)
  PROVE  users' \in [Fds -> UserType]
BY DEF Typed, SetUser

LEMMA ModfdTyped ==
  ASSUME Typed, NEW fd \in Fds, NEW ev \in {"in", "out"}, Modfd(fd, ev)
  PROVE  /\ interest' \in [Fds -> {"off", "in", "out"}]
         /\ \A g \in Fds : interest'[g] # "off" =>
              interest[g] # "off" \/ (g = fd /\ IsOpen(fd))
BY DEF Typed, Modfd

LEMMA SockTyped ==
  ASSUME Typed, NEW fd \in Fds, NEW s \in SockType, s.conn = sock[fd].conn,
         sock' = [sock EXCEPT ![fd] = s]
  PROVE  /\ sock' \in [Fds -> SockType]
         /\ \A g \in Fds : sock'[g].conn = sock[g].conn
BY DEF Typed

(* What read() and write() do, whoever calls them and whatever follows.    *)
ReadStep(fd) == Read(fd, TRUE, TRUE)

WriteStep(fd) == Write(fd, TRUE, TRUE)

LEMMA InitUserTyped ==
  ASSUME NEW c \in 0 .. MaxConns PROVE InitUser(c) \in UserType
BY DispatchAssumption DEF InitUser, UserType, NoConn

LEMMA TakenFits ==
  ASSUME NEW fd \in Fds, users[fd] \in UserType, sock[fd] \in SockType
  PROVE  /\ Taken(fd) \in Nat
         /\ Taken(fd) <= sock[fd].inbox /\ Taken(fd) <= Pieces - users[fd].buf
BY Sizes DEF Taken, UserType, SockType

LEMMA ReadTyped ==
  ASSUME Typed, NEW fd \in Fds, ReadStep(fd)
  PROVE  /\ users' \in [Fds -> UserType] /\ sock' \in [Fds -> SockType]
         /\ \A g \in Fds : sock'[g].conn = sock[g].conn
<1>1. users[fd] \in UserType /\ sock[fd] \in SockType
  BY DEF Typed
<1>2. PICK n \in Nat : n = Taken(fd) /\ n <= sock[fd].inbox
                        /\ n <= Pieces - users[fd].buf
  BY <1>1, TakenFits
<1>3. [users[fd] EXCEPT !.buf = @ + n] \in UserType
  BY <1>1, <1>2, Sizes DEF UserType
<1>4. /\ [sock[fd] EXCEPT !.inbox = @ - n] \in SockType
      /\ [sock[fd] EXCEPT !.inbox = @ - n].conn = sock[fd].conn
  BY <1>1, <1>2 DEF SockType
<1>5. /\ sock' = [sock EXCEPT ![fd] = [sock[fd] EXCEPT !.inbox = @ - n]]
      /\ SetUser(fd, [users[fd] EXCEPT !.buf = @ + n])
  BY <1>2 DEF ReadStep, Read, Typed
<1> QED
  BY <1>3, <1>4, <1>5, UserTyped, SockTyped

LEMMA WriteTyped ==
  ASSUME Typed, NEW fd \in Fds, WriteStep(fd)
  PROVE  /\ users' \in [Fds -> UserType] /\ sock' \in [Fds -> SockType]
         /\ interest' \in [Fds -> {"off", "in", "out"}]
         /\ \A g \in Fds : sock'[g].conn = sock[g].conn
         /\ \A g \in Fds : interest'[g] # "off" =>
              interest[g] # "off" \/ (g = fd /\ IsOpen(fd))
<1> DEFINE u == users[fd]
           s == sock[fd]
<1>1. u \in UserType /\ s \in SockType
  BY DEF Typed
<1>2. InitUser(u.conn) \in UserType
  BY <1>1, InitUserTyped DEF UserType
<1>3. CASE u.left = 0
  BY <1>2, <1>3, UserTyped, ModfdTyped DEF WriteStep, Write, Typed
<1>4. CASE UNCHANGED <<interest, users, sock>>
  BY <1>4 DEF Typed
<1>5. CASE u.left # 0 /\ WriteAll(fd, TRUE, TRUE)
  <2> DEFINE t == [s EXCEPT !.sent = 0, !.kind = "none", !.last = ~u.linger]
  <2>1. t \in SockType /\ t.conn = s.conn
    <3>1. 0 \in 0 .. Pieces + 1 /\ u.linger \in BOOLEAN
      BY <1>1, DispatchAssumption DEF UserType
    <3> QED BY <1>1, <3>1 DEF SockType
  <2>2. [u EXCEPT !.left = 0] \in UserType
    BY <1>1, DispatchAssumption DEF UserType
  <2>3. sock' = [sock EXCEPT ![fd] = t]
    BY <1>5 DEF WriteAll
  <2>4. sock' \in [Fds -> SockType] /\ \A g \in Fds : sock'[g].conn = sock[g].conn
    BY <2>1, <2>3, SockTyped
  <2>5. users' \in [Fds -> UserType]
    BY <1>2, <1>5, <2>2, UserTyped DEF WriteAll
  <2> QED
    BY <1>5, <2>4, <2>5, ModfdTyped DEF WriteAll
<1>6. CASE u.left # 0 /\ WriteSome(fd, TRUE)
  <2>1. PICK k \in 1 .. u.left - 1 : SetUser(fd, [u EXCEPT !.left = @ - k])
    BY <1>6 DEF WriteSome
  <2>2. [u EXCEPT !.left = @ - k] \in UserType
    BY <1>1, DispatchAssumption DEF UserType
  <2>3. [s EXCEPT !.full = TRUE] \in SockType /\ [s EXCEPT !.full = TRUE].conn = s.conn
    BY <1>1 DEF SockType
  <2>4. sock' = [sock EXCEPT ![fd] = [s EXCEPT !.full = TRUE]]
    BY <1>6 DEF WriteSome, Typed
  <2>5. sock' \in [Fds -> SockType] /\ \A g \in Fds : sock'[g].conn = sock[g].conn
    BY <2>3, <2>4, SockTyped
  <2>6. users' \in [Fds -> UserType]
    BY <2>1, <2>2, UserTyped
  <2> QED
    BY <1>6, <2>5, <2>6, ModfdTyped DEF WriteSome
<1> QED
  BY <1>3, <1>4, <1>5, <1>6 DEF WriteStep, Write

(* A step that opens and closes nothing, takes no event and arms only what *)
(* is open keeps Custody.                                                  *)
LEMMA CustodyFrame ==
  ASSUME Typed, Custody,
         \A g \in Fds : sock'[g].conn = sock[g].conn,
         \A g \in Fds : interest'[g] # "off" => interest[g] # "off" \/ IsOpen(g),
         UNCHANGED <<mfd, batch>>,
         mpc' \in HasFdPcs => mpc \in HasFdPcs,
         mpc' = "wait" => mpc = "wait"
  PROVE  Custody'
<1>1. \A g \in Fds : IsOpen(g)' <=> IsOpen(g)
  BY DEF IsOpen
<1>2. \A g \in Fds : interest'[g] # "off" => IsOpen(g)'
  BY <1>1 DEF Custody
<1>3. \A e \in batch' : IF e.kind = "listen" THEN e.fd = NoFd
                        ELSE e.fd \in Fds /\ IsOpen(e.fd)'
  BY <1>1 DEF Custody
<1>4. \A e, f \in batch' : e.fd = f.fd => e = f
  BY DEF Custody
<1>5. mpc' \in HasFdPcs => mfd' \in Fds /\ IsOpen(mfd)' /\ ~InBatch(mfd)'
  BY <1>1 DEF Custody, InBatch, IsOpen
<1>6. mpc' = "wait" => batch' = {}
  BY DEF Custody
<1> QED
  BY <1>2, <1>3, <1>4, <1>5, <1>6 DEF Custody, IsOpen

LEMMA ClientConns ==
  ASSUME Typed, NEW fd \in Fds, Send(fd) \/ Hangup(fd) \/ Drain(fd)
  PROVE  /\ \A g \in Fds : sock'[g].conn = sock[g].conn
         /\ dropped' = dropped
<1> DEFINE s == sock[fd]
<1>0. dropped' = dropped
  BY DEF Send, Hangup, Drain, ClientOnly, queueVars
<1>1. s \in SockType
  BY DEF Typed
<1>2. ASSUME NEW t, t.conn = s.conn, ClientOnly(fd, t)
      PROVE  \A g \in Fds : sock'[g].conn = sock[g].conn
  BY <1>2 DEF ClientOnly, Typed
<1>3. /\ \A k : [s EXCEPT !.kind = k, !.sent = @ + 1, !.inbox = @ + 1].conn = s.conn
      /\ [s EXCEPT !.gone = TRUE].conn = s.conn
      /\ [s EXCEPT !.full = FALSE].conn = s.conn
  BY <1>1 DEF SockType
<1> QED BY <1>0, <1>2, <1>3 DEF Send, Hangup, Drain

LEMMA ClientKeepsMain ==
  ASSUME MainInv, NEW fd \in Fds, Send(fd) \/ Hangup(fd) \/ Drain(fd)
  PROVE  MainInv'
<1> USE DEF MainInv
<1> DEFINE s == sock[fd]
<1>0. s \in SockType
  BY DEF Typed
<1> DEFINE Only(t) == /\ t \in SockType /\ t.conn = s.conn
                      /\ ClientOnly(fd, t)
<1>2. ASSUME NEW t, Only(t) PROVE MainInv'
  <2>1. /\ sock' \in [Fds -> SockType]
        /\ \A g \in Fds : sock'[g].conn = sock[g].conn
    BY <1>2, SockTyped DEF ClientOnly
  <2>2. Typed'
    BY <1>2, <2>1 DEF ClientOnly, Typed, clientVars, workerVars, mainVars
  <2>3. Custody'
    BY <1>2, <2>1, CustodyFrame DEF ClientOnly, mainVars
  <2> QED BY <2>2, <2>3
<1>3. CASE Send(fd)
  <2>1. PICK k \in Requests \cup {"none"} :
          /\ s.sent < Length(k)
          /\ ClientOnly(fd, [s EXCEPT !.kind = k, !.sent = @ + 1, !.inbox = @ + 1])
    BY <1>0, <1>3 DEF Send, SockType
  <2>2. s.sent + 1 \in 0 .. Pieces + 1 /\ s.inbox + 1 \in Nat
    BY <1>0, <2>1, Sizes DEF Length, SockType
  <2>3. Only([s EXCEPT !.kind = k, !.sent = @ + 1, !.inbox = @ + 1])
    BY <1>0, <2>1, <2>2 DEF SockType
  <2> QED BY <1>2, <2>3
<1>4. CASE Hangup(fd)
  <2>1. Only([s EXCEPT !.gone = TRUE])
    BY <1>0, <1>4 DEF Hangup, SockType
  <2> QED BY <1>2, <2>1
<1>5. CASE Drain(fd)
  <2>1. Only([s EXCEPT !.full = FALSE])
    BY <1>0, <1>5 DEF Drain, SockType
  <2> QED BY <1>2, <2>1
<1> QED BY <1>3, <1>4, <1>5

LEMMA ReadyOpen ==
  ASSUME MainInv, NEW fd \in ReadyFds
  PROVE  fd \in Fds /\ IsOpen(fd) /\ ReadyKind(fd) \in {"hup", "in", "out"}
BY DEF ReadyFds, ReadyKind, MainInv, Custody

LEMMA EpollWaitKeepsMain == MainInv /\ EpollWait => MainInv'
<1> SUFFICES ASSUME MainInv, EpollWait PROVE MainInv'
  OBVIOUS
<1> USE DEF MainInv, EpollWait
<1>1. \A e \in batch' :
        \/ e = Event(NoFd, "listen")
        \/ \E fd \in ReadyFds : e = Event(fd, ReadyKind(fd))
  OBVIOUS
<1>2. \A e \in batch' : e \in [fd : Fds \cup {NoFd}, kind : Events]
  BY <1>1, ReadyOpen DEF Event, Events
<1>3. Typed'
  <2>1. interest' \in [Fds -> {"off", "in", "out"}]
    BY DEF Typed
  <2> QED BY <1>2, <2>1 DEF Typed, workerVars, MainPcs
<1>4. Custody'
  <2>1. \A fd \in Fds : interest'[fd] # "off" => IsOpen(fd)'
    BY DEF Typed, Custody, IsOpen
  <2>2. \A e \in batch' : IF e.kind = "listen" THEN e.fd = NoFd
                          ELSE e.fd \in Fds /\ IsOpen(e.fd)'
    BY <1>1, ReadyOpen DEF Event, IsOpen
  <2>3. \A e, f \in batch' : e.fd = f.fd => e = f
    BY <1>1, ReadyOpen, DispatchAssumption DEF Event
  <2> QED BY <2>1, <2>2, <2>3 DEF Custody, HasFdPcs, IsOpen
<1> QED BY <1>3, <1>4

LEMMA TakeEventKeepsMain == MainInv /\ TakeEvent => MainInv'
<1> SUFFICES ASSUME MainInv, TakeEvent PROVE MainInv'
  OBVIOUS
<1> USE DEF MainInv
<1>1. CASE batch = {}
  <2>1. Typed'
    BY <1>1 DEF TakeEvent, Typed, clientVars, workerVars, MainPcs
  <2>2. Custody'
    BY <1>1 DEF TakeEvent, Custody, HasFdPcs, IsOpen
  <2> QED BY <2>1, <2>2
<1>2. CASE batch # {}
  <2>1. PICK e \in batch :
          /\ batch' = batch \ {e} /\ mfd' = e.fd
          /\ mpc' = CASE e.kind = "listen" -> "accept"
                      [] e.kind = "hup" -> "close"
                      [] OTHER -> IF ActorModel = "reactor"
                                  THEN IF e.kind = "in" THEN "increase_read"
                                                        ELSE "increase_write"
                                  ELSE e.kind
    BY <1>2 DEF TakeEvent
  <2>2. /\ e.kind \in Events /\ e.fd \in Fds \cup {NoFd}
        /\ e.kind # "listen" => e.fd \in Fds /\ IsOpen(e.fd)
    BY DEF Typed, Custody
  <2>3. /\ mpc' \in MainPcs /\ mpc' # "wait"
        /\ mpc' \in HasFdPcs => e.kind # "listen"
    BY <2>1, <2>2 DEF MainPcs, HasFdPcs, Events
  <2>4. Typed'
    BY <2>1, <2>2, <2>3 DEF TakeEvent, Typed, clientVars, workerVars
  <2>5. \A g \in batch' : g.fd # e.fd
    BY <2>1 DEF Custody
  <2>6. Custody'
    BY <2>1, <2>2, <2>3, <2>5 DEF TakeEvent, Custody, IsOpen, InBatch
  <2> QED BY <2>4, <2>6
<1> QED BY <1>1, <1>2

LEMMA AcceptKeepsMain == MainInv /\ Accept => MainInv'
<1> SUFFICES ASSUME MainInv, Accept PROVE MainInv'
  OBVIOUS
<1> USE DEF MainInv, Accept
<1>1. CASE NoAccept
  <2>1. Typed'
    BY <1>1 DEF NoAccept, Typed, workerVars, MainPcs
  <2>2. Custody'
    BY <1>1, CustodyFrame DEF NoAccept, HasFdPcs
  <2> QED BY <2>1, <2>2
<1>2. CASE backlog > 0 /\ AcceptBusy
  <2>1. backlog' \in Nat /\ backlog' + accepted <= conns
    BY <1>2 DEF AcceptBusy, Typed
  <2>2. Typed'
    BY <1>2, <2>1 DEF AcceptBusy, Typed, workerVars, MainPcs
  <2>3. Custody'
    BY <1>2, CustodyFrame DEF AcceptBusy, HasFdPcs
  <2> QED BY <2>2, <2>3
<1>3. CASE backlog > 0 /\ AcceptClient
  <2>1. PICK fd \in FreeFds : ClientInit(fd)
    BY <1>3 DEF AcceptClient
  <2>2. fd \in Fds /\ ~IsOpen(fd) /\ ~InBatch(fd) /\ interest[fd] = "off"
    BY <2>1, DispatchAssumption DEF FreeFds, Custody, InBatch, Typed
  <2>3. /\ backlog' \in Nat /\ accepted' \in Nat
        /\ backlog' + accepted' <= conns /\ accepted + 1 \in 1 .. MaxConns
    BY <1>3, DispatchAssumption DEF AcceptClient, Typed
  <2>4. [Closed EXCEPT !.conn = accepted + 1] \in SockType
    <3>1. accepted + 1 \in 0 .. MaxConns /\ 0 \in 0 .. Pieces + 1
      BY <2>3, Sizes
    <3> QED BY <3>1 DEF Closed, SockType, NoConn
  <2>5. users' \in [Fds -> UserType]
    BY <2>1, <2>2, <2>3, UserTyped, InitUserTyped DEF ClientInit
  <2>6. sock' \in [Fds -> SockType] /\ interest' \in [Fds -> {"off", "in", "out"}]
    BY <2>1, <2>4 DEF ClientInit, Typed
  <2>7. m_client_number' \in Int /\ mpc' \in {"accept", "next"}
    BY <1>3, <2>1 DEF ClientInit, AcceptClient, Typed
  <2>8. Typed'
    BY <2>3, <2>5, <2>6, <2>7 DEF Typed, workerVars, MainPcs
  <2>9. \A g \in Fds : IsOpen(g)' <=> IsOpen(g) \/ g = fd
    BY <2>1, <2>2, <2>3 DEF ClientInit, IsOpen, Typed, Closed, NoConn
  <2>10. Custody'
    <3>1. \A g \in Fds : interest'[g] # "off" => IsOpen(g)'
      BY <2>1, <2>2, <2>9 DEF ClientInit, Custody, Typed
    <3>2. \A e \in batch' : IF e.kind = "listen" THEN e.fd = NoFd
                            ELSE e.fd \in Fds /\ IsOpen(e.fd)'
      BY <2>9 DEF Custody
    <3> QED BY <2>7, <3>1, <3>2 DEF Custody, HasFdPcs, IsOpen
  <2> QED BY <2>8, <2>10
<1> QED BY <1>1, <1>2, <1>3

(* Closing a descriptor that the main thread holds.                        *)
LEMMA CbFuncKeepsMain ==
  ASSUME MainInv, mpc \in HasFdPcs, CbFunc(mfd), mpc' = "next",
         users' \in [Fds -> UserType],
         UNCHANGED <<clientVars, accepted, queue, workerVars, mfd, batch>>
  PROVE  MainInv'
<1> USE DEF MainInv
<1>1. mfd \in Fds /\ ~InBatch(mfd)
  BY DEF Custody
<1>2. Closed \in SockType
  BY DispatchAssumption DEF Closed, SockType, NoConn
<1>3. sock' \in [Fds -> SockType] /\ interest' \in [Fds -> {"off", "in", "out"}]
  BY <1>1, <1>2 DEF CbFunc, Typed
<1>4. Typed'
  BY <1>3 DEF CbFunc, Typed, clientVars, workerVars, MainPcs
<1>5. \A g \in Fds : g # mfd => (IsOpen(g)' <=> IsOpen(g))
  BY DEF CbFunc, IsOpen, Typed
<1>6. Custody'
  <2>1. \A g \in Fds : interest'[g] # "off" => IsOpen(g)'
    BY <1>1, <1>5 DEF CbFunc, Custody, Typed
  <2>2. \A e \in batch' : IF e.kind = "listen" THEN e.fd = NoFd
                          ELSE e.fd \in Fds /\ IsOpen(e.fd)'
    BY <1>1, <1>5 DEF Custody, InBatch
  <2> QED BY <2>1, <2>2 DEF Custody, HasFdPcs, IsOpen
<1> QED BY <1>4, <1>6

LEMMA EnqueueTyped ==
  ASSUME Typed, NEW fd \in Fds, Enqueue(fd)
  PROVE  queue' \in Seq(Fds) /\ dropped' \subseteq Fds
<1>1. queue \in Seq(Fds) /\ dropped \subseteq Fds
  BY DEF Typed
<1>2. \/ UNCHANGED queue /\ dropped' = dropped \cup {fd}
      \/ UNCHANGED dropped /\ queue' = Append(queue, fd)
  BY DEF Enqueue
<1>3. Append(queue, fd) \in Seq(Fds)
  BY <1>1
<1>4. dropped \cup {fd} \subseteq Fds
  BY <1>1
<1> QED BY <1>1, <1>2, <1>3, <1>4

LEMMA MainThreadKeepsMain ==
  ASSUME MainInv,
         \/ Close \/ MainRead \/ MainWrite \/ Increase \/ IncreaseState
         \/ Spin \/ Settle
  PROVE  MainInv'
<1> USE DEF MainInv
<1>0. mpc \in HasFdPcs => mfd \in Fds /\ users[mfd] \in UserType
  BY DEF Custody, Typed
<1>1. CASE Close
  <2>1. mpc \in HasFdPcs /\ users' \in [Fds -> UserType]
    BY <1>1 DEF Close, HasFdPcs, Typed
  <2> QED BY <1>1, <2>1, CbFuncKeepsMain DEF Close
<1>2. CASE MainRead
  <2>1. mpc \in HasFdPcs /\ ReadStep(mfd) /\ mpc' \in {"increase", "close"}
    BY <1>2 DEF MainRead, Read, ReadStep, HasFdPcs
  <2>2. /\ users' \in [Fds -> UserType] /\ sock' \in [Fds -> SockType]
        /\ \A g \in Fds : sock'[g].conn = sock[g].conn
    BY <1>0, <2>1, ReadTyped
  <2>3. Typed'
    BY <1>2, <2>1, <2>2 DEF MainRead, Typed, clientVars, workerVars, MainPcs,
                            HasFdPcs
  <2>4. Custody'
    BY <1>2, <2>1, <2>2, CustodyFrame DEF MainRead
  <2> QED BY <2>3, <2>4
<1>3. CASE MainWrite
  <2>1. mpc \in HasFdPcs /\ WriteStep(mfd) /\ mpc' \in {"next", "close"}
    BY <1>3 DEF MainWrite, Write, WriteAll, WriteSome, WriteStep, HasFdPcs
  <2>2. /\ users' \in [Fds -> UserType] /\ sock' \in [Fds -> SockType]
        /\ interest' \in [Fds -> {"off", "in", "out"}]
        /\ \A g \in Fds : sock'[g].conn = sock[g].conn
        /\ \A g \in Fds : interest'[g] # "off" => interest[g] # "off" \/ IsOpen(g)
    BY <1>0, <2>1, WriteTyped
  <2>3. Typed'
    BY <1>3, <2>1, <2>2 DEF MainWrite, Typed, clientVars, workerVars, MainPcs,
                            HasFdPcs
  <2>4. Custody'
    BY <1>3, <2>1, <2>2, CustodyFrame DEF MainWrite
  <2> QED BY <2>3, <2>4
<1>4. CASE Increase
  <2>1. mpc \in HasFdPcs /\ mpc' = "next"
    BY <1>4 DEF Increase, HasFdPcs
  <2>2. queue' \in Seq(Fds) /\ dropped' \subseteq Fds
    BY <1>0, <1>4, <2>1, EnqueueTyped DEF Increase
  <2>3. Typed'
    BY <1>4, <2>1, <2>2 DEF Increase, Typed, clientVars, workerVars, MainPcs
  <2>4. Custody'
    BY <1>4, <2>1, CustodyFrame DEF Increase
  <2> QED BY <2>3, <2>4
<1>5. CASE IncreaseState
  <2>1. mpc \in HasFdPcs /\ mpc' = "spin"
    BY <1>5 DEF IncreaseState, HasFdPcs
  <2>2. queue' \in Seq(Fds) /\ dropped' \subseteq Fds
    BY <1>0, <1>5, <2>1, EnqueueTyped DEF IncreaseState
  <2>3. \A n \in {0, 1} : [users[mfd] EXCEPT !.m_state = n] \in UserType
    BY <1>0, <2>1 DEF UserType
  <2>4. users' \in [Fds -> UserType]
    BY <1>0, <1>5, <2>1, <2>3, UserTyped DEF IncreaseState, Typed
  <2>5. Typed'
    BY <1>5, <2>1, <2>2, <2>4
    DEF IncreaseState, Typed, clientVars, workerVars, MainPcs, HasFdPcs
  <2>6. Custody'
    BY <1>5, <2>1, CustodyFrame DEF IncreaseState
  <2> QED BY <2>5, <2>6
<1>6. CASE Spin
  <2>1. mpc \in HasFdPcs /\ mpc' = "settle"
    BY <1>6 DEF Spin, HasFdPcs
  <2>2. Typed'
    BY <1>6, <2>1 DEF Spin, Typed, clientVars, workerVars, MainPcs, HasFdPcs
  <2>3. Custody'
    BY <1>6, <2>1, CustodyFrame DEF Spin
  <2> QED BY <2>2, <2>3
<1>7. CASE Settle
  <2>1. mpc \in HasFdPcs /\ mpc' = "next"
    BY <1>7 DEF Settle, HasFdPcs
  <2>2. [users[mfd] EXCEPT !.improv = 0, !.timer_flag = 0] \in UserType
    BY <1>0, <2>1 DEF UserType
  <2>3. users' \in [Fds -> UserType]
    BY <1>0, <1>7, <2>1, <2>2, UserTyped DEF Settle
  <2>4. CASE CbFunc(mfd)
    BY <1>7, <2>1, <2>3, <2>4, CbFuncKeepsMain DEF Settle
  <2>5. CASE UNCHANGED <<sock, interest, m_client_number, dropped>>
    <3>1. Typed'
      BY <1>7, <2>1, <2>3, <2>5
      DEF Settle, Typed, clientVars, workerVars, MainPcs
    <3>2. Custody'
      BY <1>7, <2>1, <2>5, CustodyFrame DEF Settle
    <3> QED BY <3>1, <3>2
  <2> QED BY <1>7, <2>4, <2>5 DEF Settle
<1> QED
  BY <1>1, <1>2, <1>3, <1>4, <1>5, <1>6, <1>7

(* A worker opens and closes nothing, and leaves the main thread alone.    *)
LEMMA WorkerKeepsMain ==
  ASSUME MainInv, NEW w \in Workers, WorkerStep(w)
  PROVE  /\ MainInv'
         /\ UNCHANGED <<mainVars, m_client_number, dropped>>
         /\ \A g \in Fds : sock'[g].conn = sock[g].conn
<1> USE DEF MainInv
<1> DEFINE fd == wfd[w]
           Goto(label) == /\ wpc' = [wpc EXCEPT ![w] = label]
                          /\ label \in WorkerPcs /\ label # "idle"
                          /\ UNCHANGED wfd
           Idle == WIdle(w)
           Rest == UNCHANGED <<clientVars, accepted, m_client_number, dropped,
                               mainVars>>
           SameConns == \A g \in Fds : sock'[g].conn = sock[g].conn
           Arms == \A g \in Fds :
                     interest'[g] # "off" => interest[g] # "off" \/ IsOpen(g)
<1>0. wpc[w] # "idle" => fd \in Fds /\ users[fd] \in UserType
  BY DEF Typed
<1>1. ASSUME wpc[w] # "idle", Goto("parse") \/ Goto("flag") \/ Goto("respond")
                \/ Goto("improv_parse") \/ Goto("improv_flag")
                \/ Goto("improv_done") \/ Idle
      PROVE  /\ wpc' \in [Workers -> WorkerPcs]
             /\ wfd' \in [Workers -> Fds \cup {NoFd}]
             /\ \A v \in Workers : wpc'[v] = "idle" <=> wfd'[v] = NoFd
  BY <1>1 DEF Typed, WIdle, WGoto, WorkerPcs
<1>2. ASSUME Rest, Arms, SameConns,
             sock' \in [Fds -> SockType], users' \in [Fds -> UserType],
             interest' \in [Fds -> {"off", "in", "out"}],
             queue' \in Seq(Fds), wret' \in [Workers -> 0 .. MaxConns],
             wpc' \in [Workers -> WorkerPcs],
             wfd' \in [Workers -> Fds \cup {NoFd}],
             \A v \in Workers : wpc'[v] = "idle" <=> wfd'[v] = NoFd
      PROVE  MainInv'
  <2>1. Typed'
    BY <1>2 DEF Typed, clientVars, mainVars
  <2>2. Custody'
    BY <1>2, CustodyFrame DEF mainVars
  <2> QED BY <2>1, <2>2
<1>3. CASE Take(w)
  <2>1. Head(queue) \in Fds /\ Tail(queue) \in Seq(Fds)
    BY <1>3 DEF Take, Typed
  <2>2. /\ wpc' \in [Workers -> WorkerPcs]
        /\ wfd' \in [Workers -> Fds \cup {NoFd}]
        /\ \A v \in Workers : wpc'[v] = "idle" <=> wfd'[v] = NoFd
    BY <1>3, <2>1, DispatchAssumption DEF Take, WGoto, Typed, WorkerPcs
  <2> QED BY <1>2, <1>3, <2>1, <2>2 DEF Take, Typed, mainVars
<1>4. CASE WorkerReadOrWrite(w)
  <2>1. wpc[w] # "idle"
    BY <1>4 DEF WorkerReadOrWrite
  <2>2. Goto("improv_parse") \/ Goto("improv_flag") \/ Goto("improv_done")
    BY <1>4 DEF WorkerReadOrWrite, Read, Write, WriteAll, WriteSome, WGoto,
                WorkerPcs
  <2>3. (ReadStep(fd) /\ UNCHANGED interest) \/ WriteStep(fd)
    BY <1>4 DEF WorkerReadOrWrite, Read, Write, WriteAll, WriteSome,
                ReadStep, WriteStep
  <2>4. /\ sock' \in [Fds -> SockType] /\ users' \in [Fds -> UserType]
        /\ interest' \in [Fds -> {"off", "in", "out"}]
        /\ SameConns /\ Arms
    BY <1>0, <2>1, <2>3, ReadTyped, WriteTyped DEF Typed
  <2> QED
    BY <1>1, <1>2, <1>4, <2>1, <2>2, <2>4 DEF WorkerReadOrWrite, Typed, mainVars
<1>5. CASE SetImprov(w)
  <2>1. wpc[w] # "idle" /\ (Goto("parse") \/ Goto("flag") \/ Idle)
    BY <1>5 DEF SetImprov, WGoto, WorkerPcs
  <2>2. [users[fd] EXCEPT !.improv = 1] \in UserType
    BY <1>0, <2>1 DEF UserType
  <2>3. users' \in [Fds -> UserType]
    BY <1>0, <1>5, <2>1, <2>2, UserTyped DEF SetImprov
  <2> QED BY <1>1, <1>2, <1>5, <2>1, <2>3 DEF SetImprov, Typed, mainVars
<1>6. CASE SetTimerFlag(w)
  <2>1. wpc[w] # "idle" /\ Idle
    BY <1>6 DEF SetTimerFlag
  <2>2. [users[fd] EXCEPT !.timer_flag = 1] \in UserType
    BY <1>0, <2>1 DEF UserType
  <2>3. users' \in [Fds -> UserType]
    BY <1>0, <1>6, <2>1, <2>2, UserTyped DEF SetTimerFlag
  <2> QED BY <1>1, <1>2, <1>6, <2>1, <2>3 DEF SetTimerFlag, Typed, mainVars
<1>7. CASE Parse(w)
  <2>1. wpc[w] # "idle" /\ Goto("respond")
    BY <1>7 DEF Parse, WGoto, WorkerPcs
  <2>2. \A l \in BOOLEAN : /\ [users[fd] EXCEPT !.linger = l] \in UserType
                           /\ [users[fd] EXCEPT !.bad = l] \in UserType
                           /\ [users[fd] EXCEPT !.cut = l] \in UserType
    BY <1>0, <2>1 DEF UserType
  <2>3. \E u \in UserType : SetUser(fd, u)
    <3>1. CASE Incomplete(w, users[fd], sock[fd].kind)
      <4>1. PICK l \in BOOLEAN : SetUser(fd, [users[fd] EXCEPT !.cut = l])
        <5>1. users[fd].cut \in BOOLEAN
          BY <1>0, <2>1 DEF UserType
        <5> QED BY <3>1, <5>1 DEF Incomplete
      <4> QED BY <2>2, <4>1
    <3>2. CASE Reject(w, users[fd], sock[fd].kind)
      BY <2>2, <3>2 DEF Reject
    <3>3. CASE Found(w, users[fd], sock[fd].kind)
      BY <2>2, <3>3 DEF Found
    <3> QED BY <1>7, <3>1, <3>2, <3>3 DEF Parse
  <2>5. users' \in [Fds -> UserType]
    BY <1>0, <2>1, <2>3, UserTyped
  <2>4. wret' \in [Workers -> 0 .. MaxConns]
    <3>1. NoConn \in 0 .. MaxConns /\ users[fd].conn \in 0 .. MaxConns
      BY <1>0, <2>1, Sizes DEF UserType, NoConn
    <3> QED BY <1>7, <3>1 DEF Parse, Incomplete, Reject, Found, Typed
  <2> QED
    BY <1>1, <1>2, <1>7, <2>1, <2>4, <2>5 DEF Parse, Typed, mainVars, queueVars
<1>8. CASE Respond(w)
  <2>1. wpc[w] # "idle" /\ Idle
    BY <1>8 DEF Respond
  <2>2. wret' \in [Workers -> 0 .. MaxConns]
    <3>1. NoConn \in 0 .. MaxConns
      BY Sizes DEF NoConn
    <3> QED BY <1>8, <3>1 DEF Respond, Typed
  <2>3. [users[fd] EXCEPT !.out = wret[w], !.left = Parts] \in UserType
    <3>1. Parts \in 0 .. Parts /\ wret[w] \in 0 .. MaxConns
      BY Sizes DEF Typed
    <3> QED BY <1>0, <2>1, <3>1 DEF UserType
  <2>4. users' \in [Fds -> UserType]
    BY <1>0, <1>8, <2>1, <2>3, UserTyped DEF Respond, Typed
  <2>5. interest' \in [Fds -> {"off", "in", "out"}] /\ Arms
    BY <1>0, <1>8, <2>1, ModfdTyped DEF Respond
  <2> QED
    BY <1>1, <1>2, <1>8, <2>1, <2>2, <2>4, <2>5 DEF Respond, Typed, mainVars
<1> QED
  <2>1. /\ UNCHANGED <<mainVars, m_client_number, dropped>> /\ SameConns
    BY <1>3, <1>4, <1>5, <1>6, <1>7, <1>8, <1>0, ReadTyped, WriteTyped
    DEF WorkerStep, Take, WorkerReadOrWrite, SetImprov, SetTimerFlag, Parse,
        Respond, queueVars
  <2> QED
    BY <2>1, <1>3, <1>4, <1>5, <1>6, <1>7, <1>8 DEF WorkerStep

LEMMA MainStepKeeps == MainInv /\ [Next]_vars => MainInv'
<1> SUFFICES ASSUME MainInv, [Next]_vars PROVE MainInv'
  OBVIOUS
<1>1. ASSUME NEW fd \in Fds, Send(fd) \/ Hangup(fd) \/ Drain(fd)
      PROVE  MainInv'
  BY <1>1, ClientKeepsMain
<1>2. CASE Connect
  <2>1. /\ backlog' \in Nat /\ conns' \in Nat
        /\ backlog' + accepted <= conns' /\ conns' <= MaxConns
    BY <1>2, DispatchAssumption DEF Connect, Typed, MainInv
  <2>2. edge' \in BOOLEAN
    BY <1>2 DEF Connect
  <2>3. Typed'
    BY <1>2, <2>1, <2>2 DEF Connect, Typed, workerVars, mainVars, MainInv
  <2>4. Custody'
    BY <1>2, CustodyFrame DEF Connect, mainVars, MainInv
  <2> QED BY <2>3, <2>4 DEF MainInv
<1>3. CASE UNCHANGED vars
  <2>1. Typed'
    BY <1>3 DEF vars, clientVars, workerVars, mainVars, Typed, MainInv
  <2>2. Custody'
    BY <1>3, CustodyFrame DEF vars, mainVars, MainInv
  <2> QED BY <2>1, <2>2 DEF MainInv
<1> QED
  BY <1>1, <1>2, <1>3, EpollWaitKeepsMain, TakeEventKeepsMain,
     AcceptKeepsMain, MainThreadKeepsMain, WorkerKeepsMain
  DEF Next, Client, MainStep

-----------------------------------------------------------------------------
(* Counting the clients.                                                   *)
OpenFds == {fd \in Fds : IsOpen(fd)}

LEMMA OpenFinite == IsFiniteSet(OpenFds) /\ Cardinality(OpenFds) \in Nat
BY FS_Subset, FS_CardinalityType, DispatchAssumption DEF OpenFds

(* A step opens one descriptor, or closes one, or neither; an open         *)
(* descriptor is closed by the main thread, which holds it.                *)
LEMMA OpenSteps ==
  ASSUME MainInv, [Next]_vars
  PROVE  \/ /\ OpenFds' = OpenFds /\ UNCHANGED m_client_number
            /\ \A fd \in Fds : sock'[fd].conn = sock[fd].conn
         \/ /\ AcceptClient /\ backlog > 0
            /\ \E fd \in Fds \ OpenFds :
                 OpenFds' = OpenFds \cup {fd} /\ ClientInit(fd)
         \/ /\ mfd \in OpenFds /\ CbFunc(mfd) /\ OpenFds' = OpenFds \ {mfd}
            /\ Close \/ (Settle /\ users[mfd].timer_flag = 1)
<1> USE DEF MainInv
<1> DEFINE Same == /\ OpenFds' = OpenFds /\ UNCHANGED m_client_number
                   /\ \A fd \in Fds : sock'[fd].conn = sock[fd].conn
           Closes == mfd \in OpenFds /\ CbFunc(mfd) /\ OpenFds' = OpenFds \ {mfd}
<1>0. /\ \A fd \in Fds : sock'[fd].conn = sock[fd].conn
      /\ UNCHANGED m_client_number
      => Same
  BY DEF OpenFds, IsOpen
<1>1. ASSUME NEW fd \in Fds, Send(fd) \/ Hangup(fd) \/ Drain(fd) PROVE Same
  <2>1. \A g \in Fds : sock'[g].conn = sock[g].conn
    BY <1>1, ClientConns
  <2> QED BY <1>0, <1>1, <2>1 DEF Send, Hangup, Drain, ClientOnly
<1>2. CASE EpollWait \/ TakeEvent \/ Increase \/ IncreaseState \/ Spin \/ Connect
  BY <1>0, <1>2 DEF EpollWait, TakeEvent, Increase, IncreaseState, Spin, Connect
<1>3. CASE MainRead \/ MainWrite
  <2>1. mfd \in Fds
    BY <1>3 DEF MainRead, MainWrite, Custody, HasFdPcs
  <2>2. ReadStep(mfd) \/ WriteStep(mfd)
    BY <1>3 DEF MainRead, MainWrite, Read, Write, WriteAll, WriteSome,
                ReadStep, WriteStep
  <2>3. \A g \in Fds : sock'[g].conn = sock[g].conn
    BY <2>1, <2>2, ReadTyped, WriteTyped
  <2> QED BY <1>0, <1>3, <2>3 DEF MainRead, MainWrite
<1>4. ASSUME NEW w \in Workers, WorkerStep(w) PROVE Same
  BY <1>0, <1>4, WorkerKeepsMain
<1>5. CASE UNCHANGED vars
  BY <1>0, <1>5 DEF vars
<1>6. ASSUME mpc \in HasFdPcs, CbFunc(mfd) PROVE Closes
  <2>1. mfd \in Fds /\ IsOpen(mfd)
    BY <1>6 DEF Custody
  <2>2. \A g \in Fds : IsOpen(g)' <=> IsOpen(g) /\ g # mfd
    BY <1>6, <2>1 DEF CbFunc, IsOpen, Closed, NoConn, Typed
  <2> QED BY <1>6, <2>1, <2>2 DEF OpenFds
<1>7. CASE Close
  BY <1>6, <1>7 DEF Close, HasFdPcs
<1>8. CASE Settle
  BY <1>0, <1>6, <1>8 DEF Settle, HasFdPcs
<1>9. CASE Accept
  <2>1. CASE NoAccept \/ AcceptBusy
    BY <1>0, <2>1 DEF NoAccept, AcceptBusy
  <2>2. CASE backlog > 0 /\ AcceptClient
    <3>1. PICK fd \in FreeFds : ClientInit(fd)
      BY <2>2 DEF AcceptClient
    <3>2. fd \in Fds \ OpenFds
      BY <3>1 DEF FreeFds, OpenFds
    <3>3. \A g \in Fds : IsOpen(g)' <=> IsOpen(g) \/ g = fd
      BY <3>1, <3>2 DEF ClientInit, IsOpen, Typed, Closed, NoConn
    <3> QED BY <2>2, <3>1, <3>2, <3>3 DEF OpenFds
  <2> QED BY <1>9, <2>1, <2>2 DEF Accept
<1> QED
  BY <1>1, <1>2, <1>3, <1>4, <1>5, <1>7, <1>8, <1>9 DEF Next, Client, MainStep

LEMMA CountedStep ==
  MainInv /\ ClientsCounted /\ [Next]_vars => ClientsCounted'
<1> SUFFICES ASSUME MainInv, ClientsCounted, [Next]_vars PROVE ClientsCounted'
  OBVIOUS
<1>0. /\ ClientsCounted <=> /\ m_client_number = Cardinality(OpenFds)
                            /\ m_client_number <= MAX_FD
      /\ ClientsCounted' <=> /\ m_client_number' = Cardinality(OpenFds')
                             /\ m_client_number' <= MAX_FD
  BY DEF ClientsCounted, OpenFds
<1>1. ASSUME NEW fd \in Fds \ OpenFds, OpenFds' = OpenFds \cup {fd},
             ~Busy, m_client_number' = m_client_number + 1
      PROVE  ClientsCounted'
  BY <1>0, <1>1, OpenFinite, FS_AddElement, Sizes DEF Busy
<1>2. ASSUME NEW fd \in OpenFds, OpenFds' = OpenFds \ {fd},
             m_client_number' = m_client_number - 1
      PROVE  ClientsCounted'
  BY <1>0, <1>2, OpenFinite, FS_RemoveElement, Sizes
<1>3. CASE OpenFds' = OpenFds /\ UNCHANGED m_client_number
  BY <1>0, <1>3
<1> QED
  BY <1>1, <1>2, <1>3, OpenSteps DEF AcceptClient, ClientInit, CbFunc

(* m_client_number is the number of open connections and at most MAX_FD in *)
(* both actor models, whichever way a connection ends: an error event, a   *)
(* failed read or write of the main thread, or of a worker that reports it *)
(* through timer_flag (http_conn.cpp:168, my_web.cpp:415, min_heap.cpp).   *)
THEOREM ClientsAreCounted == Spec => []ClientsCounted
<1>1. Init => ClientsCounted
  <2> SUFFICES ASSUME Init PROVE ClientsCounted
    OBVIOUS
  <2>1. OpenFds = {}
    BY DEF OpenFds, Init, IsOpen, Closed, NoConn
  <2>2. m_client_number = 0 /\ Cardinality(OpenFds) = 0
    BY <2>1, FS_EmptySet DEF Init
  <2> QED BY <2>2, Sizes DEF ClientsCounted, OpenFds
<1> QED
  BY <1>1, MainInit, MainStepKeeps, CountedStep, PTL DEF Spec

-----------------------------------------------------------------------------
(* The reactor model.                                                      *)

(* read() and write() leave improv alone, unless write() resets the object. *)
LEMMA IoKeepsImprov ==
  ASSUME Typed, NEW fd \in Fds, ReadStep(fd) \/ WriteStep(fd)
  PROVE  \A g \in Fds : Answered(g)' => Answered(g)
<1>1. users[fd] \in UserType /\ users \in [Fds -> UserType]
  BY DEF Typed
<1>2. CASE UNCHANGED users
  BY <1>2 DEF Answered
<1>3. ASSUME NEW u, SetUser(fd, u), u.improv = users[fd].improv \/ u.improv = 0
      PROVE  \A g \in Fds : Answered(g)' => Answered(g)
  BY <1>1, <1>3 DEF Answered, SetUser
<1>4. CASE ReadStep(fd)
  <2>1. [users[fd] EXCEPT !.buf = @ + Taken(fd)].improv = users[fd].improv
    BY <1>1 DEF UserType
  <2> QED BY <1>3, <1>4, <2>1 DEF ReadStep, Read
<1>5. CASE WriteStep(fd)
  <2>1. \A c : InitUser(c).improv = 0
    BY DEF InitUser
  <2>2. [users[fd] EXCEPT !.left = 0].improv = users[fd].improv
    BY <1>1 DEF UserType
  <2>3. \A k : [users[fd] EXCEPT !.left = users[fd].left - k].improv = users[fd].improv
    BY <1>1 DEF UserType
  <2>4. CASE WriteSome(fd, TRUE)
    BY <1>3, <2>3, <2>4 DEF WriteSome
  <2>5. CASE WriteAll(fd, TRUE, TRUE)
    BY <1>3, <2>1, <2>2, <2>5 DEF WriteAll
  <2> QED BY <1>2, <1>3, <1>5, <2>1, <2>4, <2>5 DEF WriteStep, Write
<1> QED BY <1>4, <1>5

LEMMA HandshakeInit == Init => Handshake
BY DispatchAssumption
DEF Init, Handshake, Unanswered, Answered, InitUser

(* While the main thread is past the wait nothing is queued or unanswered. *)
LEMMA HandshakeMain ==
  ASSUME ActorModel = "reactor", MainInv, Handshake, MainStep
  PROVE  Handshake'
<1> USE DEF MainInv
<1>0. mpc # "spin" => queue = <<>> /\ Unanswered = {}
  BY DEF Handshake
<1>1. mpc \notin {"spin", "settle"} => \A fd \in Fds : ~Answered(fd)
  BY DEF Handshake
<1>2. ASSUME mpc \notin {"spin", "settle"},
             mpc' \notin {"in", "out", "increase"},
             UNCHANGED <<queue, workerVars>>,
             \A fd \in Fds : Answered(fd)' => Answered(fd)
      PROVE  Handshake'
  BY <1>0, <1>1, <1>2 DEF Handshake, Unanswered, Answered, workerVars
<1>3. CASE EpollWait \/ Close
  BY <1>2, <1>3 DEF EpollWait, Close, Answered
<1>4. CASE TakeEvent
  <2>1. mpc' \notin {"in", "out", "increase"}
    BY <1>4 DEF TakeEvent, Typed, Events
  <2> QED BY <1>2, <1>4, <2>1 DEF TakeEvent, Answered
<1>5. CASE Accept
  <2>1. \A fd \in Fds : Answered(fd)' => Answered(fd)
    <3>1. CASE UNCHANGED users
      BY <3>1 DEF Answered
    <3>2. ASSUME NEW g \in Fds, ClientInit(g)
          PROVE  \A fd \in Fds : Answered(fd)' => Answered(fd)
      <4>1. InitUser(accepted + 1).improv = 0
        BY DEF InitUser
      <4> QED BY <3>2, <4>1 DEF ClientInit, SetUser, Answered, Typed
    <3> QED BY <1>5, <3>1, <3>2 DEF Accept, NoAccept, AcceptBusy, AcceptClient,
                                    FreeFds
  <2> QED
    BY <1>2, <1>5, <2>1 DEF Accept, NoAccept, AcceptBusy, AcceptClient
<1>6. CASE MainRead \/ MainWrite \/ Increase
  BY <1>6 DEF MainRead, MainWrite, Increase, Handshake
<1>7. CASE IncreaseState
  <2>1. mfd \in Fds /\ mpc \notin {"spin", "settle"} /\ mpc' = "spin"
    BY <1>7 DEF IncreaseState, Custody, HasFdPcs
  <2>2. queue' = <<mfd>>
    <3>1. queue = <<>> /\ ~(Len(queue) >= MaxQueue)
      BY <1>0, <2>1, Sizes
    <3> QED BY <1>7, <3>1 DEF IncreaseState, Enqueue
  <2>3. \A fd \in Fds : ~Answered(fd)'
    <3> DEFINE u == [users[mfd] EXCEPT !.m_state =
                       IF mpc = "increase_read" THEN 0 ELSE 1]
    <3>1. u.improv = users[mfd].improv
      BY <2>1 DEF Typed, UserType
    <3>2. UNCHANGED users \/ SetUser(mfd, u)
      BY <1>7 DEF IncreaseState
    <3> QED BY <1>1, <2>1, <3>1, <3>2 DEF SetUser, Answered, Typed
  <2>4. Unanswered' = {} /\ mfd' = mfd
    BY <1>0, <1>7, <2>1 DEF IncreaseState, Unanswered, workerVars
  <2> QED BY <2>1, <2>2, <2>3, <2>4 DEF Handshake
<1>8. CASE Spin
  <2>1. queue = <<>> /\ Unanswered = {} /\ mpc' = "settle"
    BY <1>8 DEF Spin, Handshake, Answered, Custody, HasFdPcs
  <2>2. Unanswered' = {}
    BY <1>8, <2>1 DEF Spin, Unanswered, workerVars
  <2> QED BY <1>8, <2>1, <2>2 DEF Spin, Handshake, Answered
<1>9. CASE Settle
  <2>1. mfd \in Fds /\ queue = <<>> /\ Unanswered = {} /\ mpc' = "next"
    BY <1>0, <1>9 DEF Settle, Custody, HasFdPcs
  <2>2. \A fd \in Fds : ~Answered(fd)'
    <3>1. [users[mfd] EXCEPT !.improv = 0, !.timer_flag = 0].improv = 0
      BY <2>1 DEF Typed, UserType
    <3>2. \A fd \in Fds : fd # mfd => ~Answered(fd)
      BY DEF Handshake
    <3> QED BY <1>9, <2>1, <3>1, <3>2 DEF Settle, SetUser, Answered, Typed
  <2>3. Unanswered' = {} /\ queue' = <<>>
    BY <1>9, <2>1 DEF Settle, Unanswered, workerVars
  <2> QED BY <2>1, <2>2, <2>3 DEF Handshake
<1> QED
  BY <1>3, <1>4, <1>5, <1>6, <1>7, <1>8, <1>9 DEF MainStep

LEMMA HandshakeWorker ==
  ASSUME ActorModel = "reactor", MainInv, Handshake,
         NEW w \in Workers, WorkerStep(w)
  PROVE  Handshake'
<1> USE DEF MainInv
<1> DEFINE fd == wfd[w]
<1>0. wpc[w] # "idle" => fd \in Fds /\ users[fd] \in UserType
  BY DEF Typed
<1>1. UNCHANGED <<mpc, mfd>>
  BY WorkerKeepsMain DEF mainVars
<1>2. ASSUME Unanswered' = Unanswered, queue' = queue,
             \A v \in Unanswered : wfd'[v] = wfd[v],
             \A g \in Fds : Answered(g)' => Answered(g)
      PROVE  Handshake'
  BY <1>1, <1>2 DEF Handshake, Unanswered
<1>3. CASE Take(w)
  <2>1. /\ mpc = "spin" /\ Head(queue) = mfd /\ Tail(queue) = <<>>
        /\ Unanswered = {}
    BY <1>3 DEF Take, Handshake, Typed
  <2>2. Unanswered' = {w} /\ wfd'[w] = mfd /\ queue' = <<>>
    BY <1>3, <2>1 DEF Take, WGoto, Unanswered, Typed
  <2>3. \A g \in Fds : ~Answered(g)'
    BY <1>3 DEF Take, Handshake, Answered
  <2> QED BY <1>1, <2>1, <2>2, <2>3 DEF Handshake
<1>4. CASE WorkerReadOrWrite(w)
  <2>1. wpc[w] = "state" /\ UNCHANGED <<queue, wfd>>
    BY <1>4 DEF WorkerReadOrWrite
  <2>2. wpc' \in {[wpc EXCEPT ![w] = l] :
                    l \in {"improv_parse", "improv_flag", "improv_done"}}
    BY <1>4 DEF WorkerReadOrWrite, Read, Write, WriteAll, WriteSome, WGoto
  <2>3. Unanswered' = Unanswered
    BY <2>1, <2>2 DEF Unanswered, Typed
  <2>4. ReadStep(fd) \/ WriteStep(fd)
    BY <1>4 DEF WorkerReadOrWrite, Read, Write, WriteAll, WriteSome,
                ReadStep, WriteStep
  <2>5. \A g \in Fds : Answered(g)' => Answered(g)
    BY <1>0, <2>1, <2>4, IoKeepsImprov
  <2> QED BY <1>2, <2>1, <2>3, <2>5
<1>5. CASE SetImprov(w)
  <2>1. w \in Unanswered /\ queue' = queue
    BY <1>5 DEF SetImprov, Unanswered
  <2>2. mpc = "spin" /\ fd = mfd /\ Unanswered = {w} /\ queue = <<>>
    BY <2>1 DEF Handshake
  <2>3. wpc'[w] \in {"parse", "flag", "idle"} /\ \A v \in Workers \ {w} : wpc'[v] = wpc[v]
    BY <1>5 DEF SetImprov, WGoto, WIdle, Typed
  <2>4. Unanswered' = {}
    BY <2>2, <2>3 DEF Unanswered
  <2>5. \A g \in Fds : Answered(g)' => g = mfd
    BY <1>5, <2>1, <2>2 DEF SetImprov, SetUser, Answered, Handshake, Typed
  <2> QED BY <1>1, <2>1, <2>2, <2>4, <2>5 DEF Handshake
<1>6. CASE SetTimerFlag(w) \/ Parse(w) \/ Respond(w)
  <2>1. wpc[w] \in {"flag", "parse", "respond"} /\ queue' = queue
    BY <1>6 DEF SetTimerFlag, Parse, Respond
  <2>2. /\ wpc'[w] \in {"idle", "respond"}
        /\ \A v \in Workers \ {w} : wpc'[v] = wpc[v] /\ wfd'[v] = wfd[v]
    BY <1>6 DEF SetTimerFlag, Parse, Respond, WGoto, WIdle, Typed
  <2>3. Unanswered' = Unanswered /\ w \notin Unanswered
    BY <2>1, <2>2 DEF Unanswered
  <2>4. ASSUME NEW u, SetUser(fd, u), u.improv = users[fd].improv
        PROVE  \A g \in Fds : Answered(g)' => Answered(g)
    BY <1>0, <2>1, <2>4 DEF SetUser, Answered, Typed
  <2>5. \A n, l, o, p :
          /\ [users[fd] EXCEPT !.timer_flag = n].improv = users[fd].improv
          /\ [users[fd] EXCEPT !.linger = l].improv = users[fd].improv
          /\ [users[fd] EXCEPT !.bad = l].improv = users[fd].improv
          /\ [users[fd] EXCEPT !.cut = l].improv = users[fd].improv
          /\ [users[fd] EXCEPT !.out = o, !.left = p].improv = users[fd].improv
    BY <1>0, <2>1 DEF UserType
  <2>6. \A g \in Fds : Answered(g)' => Answered(g)
    <3>1. CASE UNCHANGED users
      BY <3>1 DEF Answered
    <3>2. CASE SetTimerFlag(w)
      BY <2>4, <2>5, <3>2 DEF SetTimerFlag
    <3>3. CASE Parse(w)
      BY <2>4, <2>5, <3>3 DEF Parse, Incomplete, Reject, Found
    <3>4. CASE Respond(w)
      BY <2>4, <2>5, <3>1, <3>4 DEF Respond
    <3> QED BY <1>6, <3>2, <3>3, <3>4
  <2>7. \A v \in Unanswered : wfd'[v] = wfd[v]
    BY <2>2, <2>3 DEF Unanswered
  <2> QED BY <1>2, <2>1, <2>3, <2>6, <2>7
<1> QED
  BY <1>3, <1>4, <1>5, <1>6 DEF WorkerStep

LEMMA HandshakeStep ==
  ASSUME ActorModel = "reactor"
  PROVE  MainInv /\ Handshake /\ [Next]_vars => Handshake'
<1> SUFFICES ASSUME MainInv, Handshake, [Next]_vars PROVE Handshake'
  OBVIOUS
<1>1. CASE Client \/ UNCHANGED vars
  <2>1. UNCHANGED <<users, queue, workerVars, mpc, mfd>>
    BY <1>1 DEF Client, Connect, Send, Hangup, Drain, ClientOnly, vars, mainVars
  <2>2. /\ Unanswered' = Unanswered
        /\ \A fd \in Fds : Answered(fd)' <=> Answered(fd)
    BY <2>1 DEF Unanswered, Answered, workerVars
  <2> QED BY <2>1, <2>2 DEF Handshake, workerVars
<1> QED BY <1>1, HandshakeMain, HandshakeWorker DEF Next

(* In the reactor model the request queue never holds more than one        *)
(* request, for any number of clients and workers: the main thread does    *)
(* not give out a second one before improv is set for the first, and a     *)
(* request is never dropped for lack of room (my_web.cpp:514-532,          *)
(* threadpool.h:201-231).                                                  *)
THEOREM ReactorQueuesOneAtATime == Spec => []AtMostOneQueued
<1>1. CASE ActorModel = "reactor"
  <2>1. MainInv /\ Handshake /\ [Next]_vars => Handshake'
    BY <1>1, HandshakeStep
  <2>2. Handshake => AtMostOneQueued
    BY DEF Handshake, AtMostOneQueued
  <2> QED
    BY <2>1, <2>2, HandshakeInit, MainInit, MainStepKeeps, PTL DEF Spec
<1>2. CASE ActorModel # "reactor"
  <2>1. AtMostOneQueued
    BY <1>2 DEF AtMostOneQueued
  <2> QED BY <2>1, PTL
<1> QED BY <1>1, <1>2

-----------------------------------------------------------------------------
(* The proactor model: nobody shares a connection.                         *)
LEMMA ExclusiveInit == Init => Exclusive
<1> SUFFICES ASSUME Init PROVE Exclusive
  OBVIOUS
<1>1. \A fd \in Fds : /\ ~Armed(fd) /\ ~InBatch(fd) /\ ~MainHolds(fd)
                      /\ ~Queued(fd) /\ ~WithWorker(fd)
  BY DispatchAssumption
  DEF Init, Armed, InBatch, MainHolds, Queued, WithWorker
<1> QED BY <1>1 DEF Init, Exclusive

(* A step that leaves every place as it is.                                *)
LEMMA ExclusiveFrame ==
  ASSUME Exclusive, UNCHANGED <<interest, batch, mpc, mfd, queue, wfd>>,
         \A w \in Workers : wpc'[w] \in {"idle", "parse", "respond"},
         \A g \in Fds : sock'[g].conn = sock[g].conn
  PROVE  Exclusive'
BY DEF Exclusive, Armed, InBatch, MainHolds, Queued, WithWorker, IsOpen

LEMMA ExclusiveEpollWait ==
  MainInv /\ Exclusive /\ EpollWait => Exclusive'
<1> SUFFICES ASSUME MainInv, Exclusive, EpollWait PROVE Exclusive'
  OBVIOUS
<1>1. \A fd \in Fds : ~MainHolds(fd) /\ ~MainHolds(fd)'
  BY DEF EpollWait, MainHolds
<1>2. \A fd \in Fds : InBatch(fd)' => fd \in ReadyFds
  BY DispatchAssumption DEF EpollWait, InBatch, Event
<1>3. \A fd \in ReadyFds : fd \in Fds /\ Armed(fd)
  BY <1>1 DEF ReadyFds, ReadyKind, Armed
<1>4. \A fd \in Fds : Armed(fd)' => Armed(fd) /\ fd \notin ReadyFds
  BY <1>1 DEF EpollWait, Armed
<1>5. \A fd \in Fds : /\ Queued(fd)' <=> Queued(fd)
                      /\ WithWorker(fd)' <=> WithWorker(fd)
                      /\ IsOpen(fd)' <=> IsOpen(fd)
  BY DEF EpollWait, Queued, WithWorker, IsOpen, workerVars
<1> QED
  BY <1>1, <1>2, <1>3, <1>4, <1>5 DEF Exclusive, EpollWait, workerVars

LEMMA ExclusiveTakeEvent ==
  ASSUME ActorModel = "proactor", MainInv, Exclusive, TakeEvent
  PROVE  Exclusive'
<1>1. \A fd \in Fds : ~MainHolds(fd)
  BY DEF TakeEvent, MainHolds
<1>2. \A fd \in Fds : /\ Queued(fd)' <=> Queued(fd)
                      /\ WithWorker(fd)' <=> WithWorker(fd)
                      /\ IsOpen(fd)' <=> IsOpen(fd)
  BY DEF TakeEvent, Queued, WithWorker, IsOpen, workerVars
<1>3. \A fd \in Fds : Armed(fd)' => Armed(fd)
  BY <1>1 DEF TakeEvent, Armed
<1>4. CASE batch = {}
  <2>1. \A fd \in Fds : ~MainHolds(fd)' /\ ~InBatch(fd)'
    BY <1>4 DEF TakeEvent, MainHolds, InBatch
  <2> QED
    BY <1>2, <1>3, <1>4, <2>1 DEF Exclusive, TakeEvent, workerVars
<1>5. CASE batch # {}
  <2>1. PICK e \in batch :
          /\ batch' = batch \ {e} /\ mfd' = e.fd
          /\ mpc' = CASE e.kind = "listen" -> "accept"
                      [] e.kind = "hup" -> "close"
                      [] OTHER -> IF ActorModel = "reactor"
                                  THEN IF e.kind = "in" THEN "increase_read"
                                                        ELSE "increase_write"
                                  ELSE e.kind
    BY <1>5 DEF TakeEvent
  <2>2. /\ e.kind \in Events
        /\ e.kind # "listen" => e.fd \in Fds
    BY DEF MainInv, Typed, Custody
  <2>3. mpc' \in {"accept", "close", "in", "out"}
        /\ (mpc' = "accept" <=> e.kind = "listen")
    BY <2>1, <2>2 DEF Events
  <2>4. \A fd \in Fds : InBatch(fd)' => InBatch(fd) /\ fd # e.fd
    BY <2>1 DEF InBatch, MainInv, Custody
  <2>5. \A fd \in Fds : MainHolds(fd)' => fd = e.fd /\ InBatch(fd)
    BY <2>1 DEF MainHolds, InBatch
  <2>6. mpc' \in {"in", "out", "increase"} => interest'[mfd'] = "off"
    <3>1. ASSUME e.kind # "listen" PROVE interest[e.fd] = "off"
      <4>1. InBatch(e.fd)
        BY DEF InBatch
      <4> QED BY <1>1, <2>2, <3>1, <4>1 DEF Exclusive, Armed
    <3> QED BY <2>1, <2>3, <3>1 DEF TakeEvent
  <2> QED
    BY <1>2, <1>3, <2>3, <2>4, <2>5, <2>6 DEF Exclusive, TakeEvent, workerVars
<1> QED BY <1>4, <1>5

LEMMA ExclusiveAccept == MainInv /\ Exclusive /\ Accept => Exclusive'
<1> SUFFICES ASSUME MainInv, Exclusive, Accept PROVE Exclusive'
  OBVIOUS
<1>1. /\ mpc = "accept" /\ mpc' \in {"accept", "next"}
      /\ UNCHANGED <<queue, workerVars, mfd, batch>>
  BY DEF Accept, NoAccept, AcceptBusy, AcceptClient
<1>2. \A fd \in Fds : /\ ~MainHolds(fd) /\ ~MainHolds(fd)'
                      /\ InBatch(fd)' <=> InBatch(fd)
                      /\ Queued(fd)' <=> Queued(fd)
                      /\ WithWorker(fd)' <=> WithWorker(fd)
  BY <1>1 DEF MainHolds, InBatch, Queued, WithWorker, workerVars
<1>3. CASE UNCHANGED <<sock, interest>>
  <2>1. \A fd \in Fds : /\ Armed(fd)' <=> Armed(fd)
                        /\ IsOpen(fd)' <=> IsOpen(fd)
    BY <1>2, <1>3 DEF Armed, IsOpen
  <2> QED BY <1>1, <1>2, <2>1 DEF Exclusive, workerVars
<1>4. ASSUME NEW fd \in FreeFds, ClientInit(fd) PROVE Exclusive'
  <2>1. /\ fd \in Fds /\ ~Queued(fd) /\ ~WithWorker(fd) /\ ~InBatch(fd)
    BY DispatchAssumption DEF FreeFds, Exclusive, MainInv, Custody, InBatch
  <2>2. \A g \in Fds : Armed(g)' => Armed(g) \/ g = fd
    BY <1>2, <1>4 DEF ClientInit, Armed, MainInv, Typed
  <2>3. \A g \in Fds : IsOpen(g) => IsOpen(g)'
    BY <1>4, <2>1 DEF ClientInit, IsOpen, MainInv, Typed, FreeFds
  <2> QED BY <1>1, <1>2, <2>1, <2>2, <2>3 DEF Exclusive, workerVars
<1> QED
  BY <1>3, <1>4 DEF Accept, NoAccept, AcceptBusy, AcceptClient

LEMMA ExclusiveMainThread ==
  ASSUME ActorModel = "proactor", MainInv, Exclusive,
         \/ Close \/ MainRead \/ MainWrite \/ Increase \/ IncreaseState
         \/ Spin \/ Settle
  PROVE  Exclusive'
<1>0. mpc \in HasFdPcs => mfd \in Fds /\ IsOpen(mfd) /\ ~InBatch(mfd)
  BY DEF MainInv, Custody
<1>1. CASE IncreaseState \/ Spin \/ Settle
  BY <1>1 DEF IncreaseState, Spin, Settle, Exclusive
<1>2. CASE Close
  <2>1. mfd \in Fds /\ MainHolds(mfd) /\ ~InBatch(mfd)
    BY <1>0, <1>2 DEF Close, MainHolds, HasFdPcs
  <2>2. \A fd \in Fds : /\ ~MainHolds(fd)'
                        /\ InBatch(fd)' <=> InBatch(fd)
                        /\ Queued(fd)' <=> Queued(fd)
                        /\ WithWorker(fd)' <=> WithWorker(fd)
    BY <1>2 DEF Close, MainHolds, InBatch, Queued, WithWorker, workerVars
  <2>3. \A fd \in Fds : Armed(fd)' => Armed(fd)
    BY <1>2, <2>1 DEF Close, CbFunc, Armed, MainHolds, MainInv, Typed
  <2>4. \A fd \in Fds : fd # mfd => (IsOpen(fd)' <=> IsOpen(fd))
    BY <1>2 DEF Close, CbFunc, IsOpen, MainInv, Typed
  <2> QED
    BY <1>2, <2>1, <2>2, <2>3, <2>4 DEF Close, Exclusive, workerVars
<1>3. CASE MainRead
  <2>1. mpc = "in" /\ mpc' \in {"increase", "close"} /\ mfd \in Fds /\ ReadStep(mfd)
    BY <1>0, <1>3 DEF MainRead, Read, ReadStep, HasFdPcs
  <2>2. \A g \in Fds : sock'[g].conn = sock[g].conn
    BY <2>1, ReadTyped DEF MainInv
  <2>3. \A fd \in Fds : /\ MainHolds(fd)' <=> MainHolds(fd)
                        /\ Armed(fd)' <=> Armed(fd)
                        /\ InBatch(fd)' <=> InBatch(fd)
                        /\ Queued(fd)' <=> Queued(fd)
                        /\ WithWorker(fd)' <=> WithWorker(fd)
                        /\ IsOpen(fd)' <=> IsOpen(fd)
    BY <1>3, <2>1, <2>2
    DEF MainRead, MainHolds, Armed, InBatch, Queued, WithWorker, IsOpen,
        workerVars
  <2> QED BY <1>3, <2>1, <2>3 DEF MainRead, Exclusive, workerVars
<1>4. CASE MainWrite
  <2>1. mpc = "out" /\ mpc' \in {"next", "close"} /\ mfd \in Fds /\ WriteStep(mfd)
    BY <1>0, <1>4 DEF MainWrite, Write, WriteAll, WriteSome, WriteStep, HasFdPcs
  <2>2. MainHolds(mfd) /\ ~InBatch(mfd)
    BY <1>0, <2>1 DEF MainHolds, HasFdPcs
  <2>3. /\ \A g \in Fds : sock'[g].conn = sock[g].conn
        /\ \A g \in Fds : interest'[g] # "off" => interest[g] # "off" \/ g = mfd
    BY <2>1, WriteTyped DEF MainInv
  <2>4. \A fd \in Fds : /\ MainHolds(fd)' => fd = mfd
                        /\ MainHolds(fd)' => ~Armed(fd)'
                        /\ Armed(fd)' => Armed(fd) \/ fd = mfd
                        /\ InBatch(fd)' <=> InBatch(fd)
                        /\ Queued(fd)' <=> Queued(fd)
                        /\ WithWorker(fd)' <=> WithWorker(fd)
                        /\ IsOpen(fd)' <=> IsOpen(fd)
    BY <1>4, <2>1, <2>3
    DEF MainWrite, MainHolds, Armed, InBatch, Queued, WithWorker, IsOpen,
        workerVars
  <2> QED BY <1>4, <2>1, <2>2, <2>4 DEF MainWrite, Exclusive, workerVars
<1>5. CASE Increase
  <2>1. /\ mpc = "increase" /\ mpc' = "next" /\ mfd \in Fds /\ MainHolds(mfd)
        /\ ~InBatch(mfd) /\ IsOpen(mfd) /\ interest[mfd] = "off"
    BY <1>0, <1>5 DEF Increase, MainHolds, HasFdPcs, Exclusive
  <2>2. ~Queued(mfd) /\ ~WithWorker(mfd)
    BY <2>1 DEF Exclusive
  <2>3. \A fd \in Fds : /\ ~MainHolds(fd)'
                        /\ Armed(fd)' => Armed(fd) /\ fd # mfd
                        /\ InBatch(fd)' <=> InBatch(fd)
                        /\ WithWorker(fd)' <=> WithWorker(fd)
                        /\ IsOpen(fd)' <=> IsOpen(fd)
    BY <1>5, <2>1
    DEF Increase, MainHolds, Armed, InBatch, WithWorker, IsOpen, workerVars
  <2>4. /\ \A fd \in Fds : Queued(fd)' => Queued(fd) \/ fd = mfd
        /\ \A i, j \in 1 .. Len(queue') : queue'[i] = queue'[j] => i = j
    <3>1. CASE queue' = queue
      BY <3>1 DEF Queued, Exclusive
    <3>2. CASE queue' = Append(queue, mfd)
      <4>1. /\ queue \in Seq(Fds) /\ Len(queue') = Len(queue) + 1
            /\ \A i \in 1 .. Len(queue) : queue'[i] = queue[i]
            /\ queue'[Len(queue) + 1] = mfd
        BY <2>1, <3>2 DEF MainInv, Typed
      <4>2. \A i \in 1 .. Len(queue') :
              i \in 1 .. Len(queue) \/ i = Len(queue) + 1
        BY <4>1
      <4> QED BY <2>2, <4>1, <4>2 DEF Queued, Exclusive
    <3> QED BY <1>5, <3>1, <3>2 DEF Increase, Enqueue
  <2> QED
    BY <1>5, <2>1, <2>2, <2>3, <2>4 DEF Increase, Exclusive, workerVars
<1> QED BY <1>1, <1>2, <1>3, <1>4, <1>5

LEMMA ExclusiveWorker ==
  ASSUME ActorModel = "proactor", MainInv, Exclusive,
         NEW w \in Workers, WorkerStep(w)
  PROVE  Exclusive'
<1> DEFINE fd == wfd[w]
<1>0. wpc[w] = "idle" <=> fd = NoFd
  BY DEF MainInv, Typed
<1>1. /\ UNCHANGED <<mpc, mfd, batch>>
      /\ \A g \in Fds : sock'[g].conn = sock[g].conn
  BY WorkerKeepsMain DEF mainVars
<1>2. \A g \in Fds : /\ MainHolds(g)' <=> MainHolds(g)
                     /\ InBatch(g)' <=> InBatch(g)
                     /\ IsOpen(g)' <=> IsOpen(g)
  BY <1>1 DEF MainHolds, InBatch, IsOpen
<1>3. CASE WorkerReadOrWrite(w) \/ SetImprov(w) \/ SetTimerFlag(w)
  BY <1>3 DEF WorkerReadOrWrite, SetImprov, SetTimerFlag, Exclusive
<1>4. CASE Take(w)
  <2> DEFINE h == Head(queue)
  <2>1. /\ queue \in Seq(Fds) /\ queue # <<>> /\ h = queue[1] /\ h \in Fds
        /\ Len(queue') = Len(queue) - 1
        /\ \A i \in 1 .. Len(queue') : i + 1 \in 1 .. Len(queue)
                                       /\ queue'[i] = queue[i + 1]
    BY <1>4 DEF Take, MainInv, Typed
  <2>2. Queued(h) /\ 1 \in 1 .. Len(queue)
    BY <2>1 DEF Queued
  <2>3. \A g \in Fds : Queued(g)' => Queued(g) /\ g # h
    BY <2>1, <2>2 DEF Queued, Exclusive
  <2>4. \A i, j \in 1 .. Len(queue') : queue'[i] = queue'[j] => i = j
    <3> SUFFICES ASSUME NEW i \in 1 .. Len(queue'), NEW j \in 1 .. Len(queue'),
                        queue'[i] = queue'[j]
                 PROVE  i = j
      OBVIOUS
    <3>1. i + 1 = j + 1
      BY <2>1 DEF Exclusive
    <3> QED BY <3>1
  <2>5. fd = NoFd /\ wfd' = [wfd EXCEPT ![w] = h]
    BY <1>0, <1>4 DEF Take
  <2>6. \A g \in Fds : WithWorker(g)' => WithWorker(g) \/ g = h
    BY <2>5 DEF WithWorker, MainInv, Typed
  <2>7. \A u, v \in Workers : wfd'[u] = wfd'[v] /\ wfd'[u] # NoFd => u = v
    BY <2>2, <2>1, <2>5, DispatchAssumption DEF Exclusive, WithWorker, MainInv, Typed
  <2>8. \A g \in Fds : Armed(g)' <=> Armed(g)
    BY <1>2, <1>4 DEF Take, Armed
  <2>9. \A v \in Workers : wpc'[v] \in {"idle", "parse", "respond"}
    BY <1>4 DEF Take, WGoto, Exclusive, MainInv, Typed
  <2> QED
    BY <1>1, <1>2, <1>4, <2>2, <2>3, <2>4, <2>6, <2>7, <2>8, <2>9
    DEF Take, Exclusive
<1>5. CASE Parse(w)
  <2>1. \A v \in Workers : wpc'[v] \in {"idle", "parse", "respond"}
    BY <1>5 DEF Parse, WGoto, Exclusive, MainInv, Typed
  <2> QED BY <1>1, <1>5, <2>1, ExclusiveFrame DEF Parse
<1>6. CASE Respond(w)
  <2>1. fd \in Fds /\ WithWorker(fd)
    BY <1>0, <1>6 DEF Respond, WithWorker, MainInv, Typed
  <2>2. wfd' = [wfd EXCEPT ![w] = NoFd] /\ UNCHANGED queue
    BY <1>6 DEF Respond, WIdle
  <2>3. \A g \in Fds : WithWorker(g)' => WithWorker(g) /\ g # fd
    BY <2>1, <2>2, DispatchAssumption DEF WithWorker, Exclusive, MainInv, Typed
  <2>4. \A u, v \in Workers : wfd'[u] = wfd'[v] /\ wfd'[u] # NoFd => u = v
    BY <2>2 DEF Exclusive, MainInv, Typed
  <2>5. \A g \in Fds : Armed(g)' => Armed(g) \/ g = fd
    BY <1>2, <1>6, <2>1, ModfdTyped DEF Respond, Armed, MainInv
  <2>6. \A v \in Workers : wpc'[v] \in {"idle", "parse", "respond"}
    BY <1>6 DEF Respond, WIdle, WGoto, Exclusive, MainInv, Typed
  <2>7. \A g \in Fds : Queued(g)' <=> Queued(g)
    BY <2>2 DEF Queued
  <2>8. mpc \in {"in", "out", "increase"} => interest'[mfd] = "off"
    <3> SUFFICES ASSUME mpc \in {"in", "out", "increase"}
                 PROVE  interest'[mfd] = "off"
      OBVIOUS
    <3>1. mfd \in Fds /\ MainHolds(mfd)
      BY DEF MainHolds, MainInv, Custody, HasFdPcs
    <3>2. mfd # fd /\ interest[mfd] = "off"
      BY <2>1, <3>1 DEF Exclusive
    <3> QED BY <1>6, <2>1, <3>1, <3>2, ModfdTyped DEF Respond, MainInv
  <2> QED
    BY <1>1, <1>2, <2>1, <2>2, <2>3, <2>4, <2>5, <2>6, <2>7, <2>8 DEF Exclusive
<1> QED BY <1>3, <1>4, <1>5, <1>6 DEF WorkerStep

LEMMA ExclusiveStep ==
  ASSUME ActorModel = "proactor"
  PROVE  MainInv /\ Exclusive /\ [Next]_vars => Exclusive'
<1> SUFFICES ASSUME MainInv, Exclusive, [Next]_vars PROVE Exclusive'
  OBVIOUS
<1>1. CASE Client \/ UNCHANGED vars
  <2>1. UNCHANGED <<interest, batch, mpc, mfd, queue, wpc, wfd>>
    BY <1>1 DEF Client, Connect, Send, Hangup, Drain, ClientOnly, vars,
                mainVars, workerVars
  <2>2. \A g \in Fds : sock'[g].conn = sock[g].conn
    BY <1>1, ClientConns DEF Client, Connect, vars, MainInv
  <2> QED BY <2>1, <2>2, ExclusiveFrame DEF Exclusive
<1> QED
  BY <1>1, ExclusiveEpollWait, ExclusiveTakeEvent, ExclusiveAccept,
     ExclusiveMainThread, ExclusiveWorker
  DEF Next, MainStep

-----------------------------------------------------------------------------
(* What is known of a connection stays true until somebody else has it.    *)
LEMMA FlowInit == Init => Flow
<1> SUFFICES ASSUME Init PROVE Flow
  OBVIOUS
<1>1. \A fd \in Fds : ~IsOpen(fd)
  BY DEF Init, IsOpen, Closed, NoConn
<1> QED BY <1>1 DEF Init, Flow, MadeFor

(* A descriptor that a step leaves alone.                                  *)
LEMMA ConsistentFrame ==
  ASSUME NEW g, Consistent(g), sock'[g] = sock[g], users'[g] = users[g],
         interest'[g] = "out" => interest[g] = "out",
         sock[g].last => mpc' = mpc /\ mfd' = mfd
  PROVE  Consistent(g)'
BY DEF Consistent, ReadWhole

LEMMA MadeForFrame ==
  ASSUME NEW v, MadeFor(v), wfd'[v] = wfd[v], wpc'[v] = wpc[v], wret'[v] = wret[v],
         sock'[wfd[v]] = sock[wfd[v]], users'[wfd[v]] = users[wfd[v]]
  PROVE  MadeFor(v)'
BY DEF MadeFor, ReadWhole

(* Where everybody is, in the form in which the steps below need it.       *)
LEMMA Whereabouts ==
  ASSUME MainInv
  PROVE  /\ sock \in [Fds -> SockType] /\ users \in [Fds -> UserType]
         /\ mpc \in HasFdPcs => mfd \in Fds /\ IsOpen(mfd)
         /\ mpc \in HasFdPcs => \A e \in batch : e.fd # mfd
         /\ \A e \in batch : e.kind # "listen" =>
              e.fd \in Fds /\ IsOpen(e.fd) /\ e.kind \in {"hup", "in", "out"}
         /\ \A w \in Workers : wpc[w] # "idle" => wfd[w] \in Fds
BY DEF MainInv, Typed, Custody, InBatch, Events

LEMMA HoldersApart ==
  ASSUME MainInv, Exclusive, NEW w \in Workers, wpc[w] # "idle"
  PROVE  /\ IsOpen(wfd[w])
         /\ mpc \in {"close", "in", "out", "increase"} => mfd # wfd[w]
         /\ \A e \in batch : e.fd # wfd[w]
         /\ \A v \in Workers : v # w => wfd[v] # wfd[w]
<1>1. wfd[w] \in Fds /\ wfd[w] # NoFd /\ WithWorker(wfd[w])
  BY DispatchAssumption DEF MainInv, Typed, WithWorker
<1> QED BY <1>1 DEF Exclusive, MainHolds, InBatch

LEMMA FlowClient ==
  ASSUME MainInv, Exclusive, Flow, NEW fd \in Fds,
         Send(fd) \/ Hangup(fd) \/ Drain(fd)
  PROVE  Flow'
<1> DEFINE s == sock[fd]
<1>0. /\ s \in SockType /\ users[fd] \in UserType
      /\ \A g \in Fds : sock'[g].conn = sock[g].conn
      /\ UNCHANGED <<users, interest, batch, mpc, mfd, wpc, wfd, wret>>
  BY ClientConns
  DEF MainInv, Typed, Send, Hangup, Drain, ClientOnly, mainVars, workerVars
<1>1. \A g \in Fds : IsOpen(g)' <=> IsOpen(g)
  BY <1>0 DEF IsOpen
<1> DEFINE t == sock'[fd]
<1>2. /\ \A g \in Fds : g # fd => sock'[g] = sock[g]
      /\ t.inbox >= s.inbox /\ (s.gone => t.gone) /\ t.last = s.last
      /\ t.kind = s.kind \/ (s.kind = "none" /\ ~s.last /\ t.kind # "none")
      /\ \/ t.inbox = s.inbox /\ t.sent = s.sent /\ t.kind = s.kind
         \/ /\ ~s.last /\ t.kind # "none" /\ s.sent < Length(t.kind)
            /\ t.sent = s.sent + 1 /\ t.inbox = s.inbox + 1
  <2>0. sock \in [Fds -> SockType]
    BY DEF MainInv, Typed
  <2>1. CASE Send(fd)
    <3>1. PICK k \in Requests : 
            /\ ~s.last /\ s.sent < Length(k) /\ (s.kind = "none" \/ k = s.kind)
            /\ sock' = [sock EXCEPT ![fd] = [s EXCEPT !.kind = k, !.sent = @ + 1,
                                                     !.inbox = @ + 1]]
      BY <1>0, <2>1 DEF Send, ClientOnly, SockType
    <3>2. k # "none"
      BY DispatchAssumption
    <3>3. /\ t = [s EXCEPT !.kind = k, !.sent = @ + 1, !.inbox = @ + 1]
          /\ \A g \in Fds : g # fd => sock'[g] = sock[g]
      BY <2>0, <3>1
    <3>4. /\ t.kind = k /\ t.sent = s.sent + 1 /\ t.inbox = s.inbox + 1
          /\ t.last = s.last /\ t.gone = s.gone /\ s.inbox \in Nat
      BY <1>0, <3>3 DEF SockType
    <3> QED BY <3>1, <3>2, <3>3, <3>4
  <2>2. CASE Hangup(fd) \/ Drain(fd)
    BY <1>0, <2>0, <2>2 DEF Hangup, Drain, ClientOnly, SockType
  <2> QED BY <2>1, <2>2
<1>3. /\ ReadWhole(fd) /\ t.kind = s.kind => ReadWhole(fd)'
      /\ t.conn = s.conn /\ t.sent \in Nat /\ t.inbox \in Nat
  BY <1>0, <1>2 DEF ReadWhole, SockType
<1>4. ASSUME IsOpen(fd)'
      PROVE  Consistent(fd)'
  <2>1. Consistent(fd)
    BY <1>1, <1>4 DEF Flow
  <2>2. s.kind = "none" /\ ~s.last => users[fd].left = 0 /\ ~users[fd].bad
    BY <1>0, <2>1, Sizes DEF Consistent, ReadWhole, UserType, SockType
  <2>3. /\ t.sent <= Length(t.kind) /\ (t.kind = "none" => t.sent = 0)
        /\ ~t.last => users[fd].buf + t.inbox = t.sent
        /\ t.last => t.inbox = 0
    <3>1. /\ s.sent \in Nat /\ s.inbox \in Nat /\ users[fd].buf \in Nat
          /\ Length(t.kind) \in Nat
      BY <1>0, Sizes DEF SockType, UserType, Length
    <3> QED BY <1>2, <2>1, <3>1 DEF Consistent
  <2>4. t.last => mpc = "close" /\ mfd = fd
    BY <1>2, <2>1 DEF Consistent
  <2>5. users[fd].bad => t.kind = "bad"
    BY <1>0, <1>2, <2>1 DEF Consistent
  <2>6. users[fd].left > 0 => users[fd].bad \/ ReadWhole(fd)'
    <3>1. users[fd].left > 0 /\ ~users[fd].bad => ReadWhole(fd) /\ t.kind = s.kind
      BY <1>0, <1>2, <2>1 DEF Consistent, ReadWhole
    <3> QED BY <1>3, <3>1
  <2> QED
    BY <1>0, <1>3, <2>1, <2>3, <2>4, <2>5, <2>6 DEF Consistent
<1>5. ASSUME NEW g \in Fds, IsOpen(g)' PROVE Consistent(g)'
  <2>1. CASE g # fd
    BY <1>0, <1>1, <1>2, <1>5, <2>1, ConsistentFrame DEF Flow
  <2> QED BY <1>4, <1>5, <2>1
<1>6. ASSUME NEW g \in Fds, NEW kind, EventTrue(g, kind) PROVE EventTrue(g, kind)'
  BY <1>0, <1>2, <1>3, <1>6, Whereabouts DEF EventTrue, SockType
<1>7. mpc' = "close" => Excused(sock'[mfd])
  <2> SUFFICES ASSUME mpc = "close" PROVE Excused(sock'[mfd])
    BY <1>0
  <2>1. mfd \in Fds /\ Excused(sock[mfd])
    BY Whereabouts DEF Flow, HasFdPcs
  <2>2. CASE mfd # fd
    BY <1>2, <2>1, <2>2
  <2>3. CASE mfd = fd
    <3>1. s.sent \in Nat /\ Pieces \in Nat /\ t.sent \in Nat /\ t.sent >= s.sent
      BY <1>0, <1>2, <1>3, Sizes DEF SockType
    <3>2. Refused(s) => Refused(t)
      BY <1>2, <3>1 DEF Refused
    <3> QED BY <1>2, <2>1, <2>3, <3>2 DEF Excused
  <2> QED BY <2>2, <2>3
<1>8. ASSUME NEW w \in Workers PROVE MadeFor(w)'
  <2> SUFFICES ASSUME wpc[w] = "respond", wret[w] # NoConn
               PROVE  /\ wret[w] = sock'[wfd[w]].conn
                      /\ users[wfd[w]].bad \/ ReadWhole(wfd[w])'
    BY <1>0 DEF MadeFor
  <2>1. /\ wfd[w] \in Fds /\ wret[w] = sock[wfd[w]].conn
        /\ users[wfd[w]].bad \/ ReadWhole(wfd[w])
    BY Whereabouts DEF Flow, MadeFor
  <2>2. ReadWhole(wfd[w]) => ReadWhole(wfd[w])'
    BY <1>0, <1>2, <1>3, <2>1 DEF ReadWhole
  <2> QED BY <1>0, <2>1, <2>2
<1> QED
  BY <1>0, <1>5, <1>6, <1>7, <1>8, Whereabouts DEF Flow, HasFdPcs

LEMMA FlowEpollWait ==
  MainInv /\ Exclusive /\ Flow /\ EpollWait => Flow'
<1> SUFFICES ASSUME MainInv, Exclusive, Flow, EpollWait PROVE Flow'
  OBVIOUS
<1>1. /\ UNCHANGED <<sock, users, workerVars>> /\ mpc = "wait" /\ mpc' = "next"
      /\ \A g \in Fds : interest'[g] = "out" => interest[g] = "out"
  BY DEF EpollWait
<1>2. ASSUME NEW g \in Fds, IsOpen(g)' PROVE Consistent(g)'
  <2>1. Consistent(g)
    BY <1>1, <1>2 DEF Flow, IsOpen
  <2> QED BY <1>1, <2>1, ConsistentFrame DEF Consistent
<1>3. ASSUME NEW e \in batch', e.kind # "listen" PROVE EventTrue(e.fd, e.kind)'
  <2>1. PICK fd \in ReadyFds : e = Event(fd, ReadyKind(fd))
    BY <1>3 DEF EpollWait, Event
  <2>2. fd \in Fds /\ IsOpen(fd) /\ ReadyKind(fd) \in {"hup", "in", "out"}
    BY ReadyOpen
  <2>3. Consistent(fd)
    BY <2>2 DEF Flow
  <2> QED
    BY <1>1, <2>1, <2>2, <2>3 DEF Event, EventTrue, ReadyKind, Consistent
<1>4. \A w \in Workers : MadeFor(w)'
  BY <1>1, MadeForFrame DEF Flow, workerVars
<1> QED BY <1>1, <1>2, <1>3, <1>4 DEF Flow

LEMMA FlowTakeEvent ==
  ASSUME ActorModel = "proactor", MainInv, Exclusive, Flow, TakeEvent
  PROVE  Flow'
<1>1. UNCHANGED <<sock, users, interest, workerVars>> /\ mpc = "next"
  BY DEF TakeEvent
<1>2. ASSUME NEW g \in Fds, IsOpen(g)' PROVE Consistent(g)'
  <2>1. Consistent(g)
    BY <1>1, <1>2 DEF Flow, IsOpen
  <2> QED BY <1>1, <2>1, ConsistentFrame DEF Consistent
<1>3. \A w \in Workers : MadeFor(w)'
  BY <1>1, MadeForFrame DEF Flow, workerVars
<1>4. \A e \in batch' : e.kind # "listen" => EventTrue(e.fd, e.kind)'
  BY <1>1 DEF TakeEvent, Flow, EventTrue
<1>5. CASE batch = {}
  BY <1>2, <1>3, <1>4, <1>5 DEF TakeEvent, Flow
<1>6. CASE batch # {}
  <2>1. PICK e \in batch :
          /\ mfd' = e.fd
          /\ mpc' = CASE e.kind = "listen" -> "accept"
                      [] e.kind = "hup" -> "close"
                      [] OTHER -> IF ActorModel = "reactor"
                                  THEN IF e.kind = "in" THEN "increase_read"
                                                        ELSE "increase_write"
                                  ELSE e.kind
    BY <1>6 DEF TakeEvent
  <2>2. e.kind \in Events
    BY DEF MainInv, Typed
  <2>3. e.kind # "listen" => EventTrue(e.fd, e.kind)'
    BY <1>1 DEF Flow, EventTrue
  <2>4. mpc' \in {"in", "out"} => mpc' = e.kind
    BY <2>1, <2>2 DEF Events
  <2>5. mpc' = "close" => e.kind = "hup"
    BY <2>1, <2>2 DEF Events
  <2> QED
    BY <1>2, <1>3, <1>4, <2>1, <2>3, <2>4, <2>5 DEF Flow, EventTrue, Excused
<1> QED BY <1>5, <1>6

LEMMA FlowAccept == MainInv /\ Exclusive /\ Flow /\ Accept => Flow'
<1> SUFFICES ASSUME MainInv, Exclusive, Flow, Accept PROVE Flow'
  OBVIOUS
<1>1. /\ mpc = "accept" /\ mpc' \in {"accept", "next"}
      /\ UNCHANGED <<workerVars, mfd, batch>>
  BY DEF Accept, NoAccept, AcceptBusy, AcceptClient
<1>2. CASE UNCHANGED <<sock, users, interest>>
  <2>1. ASSUME NEW g \in Fds, IsOpen(g)' PROVE Consistent(g)'
    BY <1>1, <1>2, <2>1, ConsistentFrame DEF Flow, IsOpen, Consistent
  <2>2. /\ \A w \in Workers : MadeFor(w)'
        /\ \A e \in batch : e.kind # "listen" => EventTrue(e.fd, e.kind)'
    BY <1>1, <1>2, MadeForFrame DEF Flow, EventTrue, workerVars
  <2> QED BY <1>1, <2>1, <2>2 DEF Flow
<1>3. ASSUME NEW fd \in FreeFds, ClientInit(fd) PROVE Flow'
  <2>1. fd \in Fds /\ ~IsOpen(fd)
    BY DEF FreeFds
  <2>2. \A g \in Fds : g # fd => /\ sock'[g] = sock[g] /\ users'[g] = users[g]
                                 /\ interest'[g] = interest[g]
    BY <1>3, <2>1 DEF ClientInit, SetUser, MainInv, Typed
  <2>3. /\ sock'[fd] = [Closed EXCEPT !.conn = accepted + 1]
        /\ users'[fd] = InitUser(accepted + 1) /\ interest'[fd] = "in"
    BY <1>3, <2>1 DEF ClientInit, SetUser, MainInv, Typed
  <2>4. ASSUME NEW g \in Fds, IsOpen(g)' PROVE Consistent(g)'
    <3>1. CASE g = fd
      BY <2>3, <3>1, Sizes DEF Consistent, Closed, InitUser, Length
    <3>2. CASE g # fd
      BY <1>1, <2>2, <2>4, <3>2, ConsistentFrame DEF Flow, IsOpen, Consistent
    <3> QED BY <3>1, <3>2
  <2>5. ASSUME NEW e \in batch, e.kind # "listen"
        PROVE  EventTrue(e.fd, e.kind)'
    <3>1. e.fd \in Fds /\ e.fd # fd /\ EventTrue(e.fd, e.kind)
      BY <2>1, <2>5, Whereabouts DEF Flow
    <3> QED BY <2>2, <3>1 DEF EventTrue
  <2>6. ASSUME NEW w \in Workers PROVE MadeFor(w)'
    <3>1. CASE wpc[w] = "idle"
      BY <1>1, <3>1 DEF MadeFor, workerVars
    <3>2. CASE wpc[w] # "idle"
      BY <1>1, <2>1, <2>2, <3>2, HoldersApart, Whereabouts, MadeForFrame
      DEF Flow, workerVars
    <3> QED BY <3>1, <3>2
  <2> QED BY <1>1, <2>4, <2>5, <2>6 DEF Flow
<1> QED
  BY <1>2, <1>3 DEF Accept, NoAccept, AcceptBusy, AcceptClient

(* A step of the main thread that touches the descriptor it holds only.    *)
LEMMA FlowHeld ==
  ASSUME MainInv, Exclusive, Flow,
         mpc \in {"close", "in", "out", "increase"},
         UNCHANGED <<workerVars, mfd, batch>>,
         \A g \in Fds : g # mfd => /\ sock'[g] = sock[g] /\ users'[g] = users[g]
                                   /\ interest'[g] = interest[g],
         IsOpen(mfd)' => Consistent(mfd)',
         mpc' \in {"next", "close", "increase"},
         mpc' = "close" => Excused(sock'[mfd])
  PROVE  Flow'
<1>1. mfd \in Fds
  BY Whereabouts DEF HasFdPcs
<1>2. ASSUME NEW g \in Fds, IsOpen(g)' PROVE Consistent(g)'
  <2>1. CASE g = mfd
    BY <1>2, <2>1
  <2>2. CASE g # mfd
    <3>1. Consistent(g)
      BY <1>2, <2>2 DEF Flow, IsOpen
    <3> QED BY <2>2, <3>1, ConsistentFrame DEF Consistent
  <2> QED BY <2>1, <2>2
<1>3. ASSUME NEW e \in batch, e.kind # "listen" PROVE EventTrue(e.fd, e.kind)'
  <2>1. e.fd \in Fds /\ e.fd # mfd /\ EventTrue(e.fd, e.kind)
    BY <1>3, Whereabouts DEF Flow, HasFdPcs
  <2> QED BY <2>1 DEF EventTrue
<1>4. ASSUME NEW w \in Workers PROVE MadeFor(w)'
  <2>1. CASE wpc[w] = "idle"
    BY <2>1 DEF MadeFor, workerVars
  <2>2. CASE wpc[w] # "idle"
    <3>1. mfd # wfd[w] /\ wfd[w] \in Fds
      BY <2>2, HoldersApart, Whereabouts
    <3> QED BY <3>1, MadeForFrame DEF Flow, workerVars
  <2> QED BY <2>1, <2>2
<1> QED BY <1>2, <1>3, <1>4 DEF Flow

LEMMA FlowMainThread ==
  ASSUME ActorModel = "proactor", MainInv, Exclusive, Flow,
         \/ Close \/ MainRead \/ MainWrite \/ Increase \/ IncreaseState
         \/ Spin \/ Settle
  PROVE  Flow'
<1> DEFINE s == sock[mfd]
           u == users[mfd]
<1>0. mpc \in HasFdPcs => /\ mfd \in Fds /\ IsOpen(mfd) /\ Consistent(mfd)
                          /\ s \in SockType /\ u \in UserType
  BY Whereabouts DEF Flow
<1>1. CASE IncreaseState \/ Spin \/ Settle
  BY <1>1 DEF IncreaseState, Spin, Settle, Exclusive
<1>2. CASE Close
  <2>1. mfd \in Fds /\ mpc = "close" /\ mpc' = "next"
    BY <1>0, <1>2 DEF Close, HasFdPcs
  <2>2. /\ ~IsOpen(mfd)'
        /\ \A g \in Fds : g # mfd => /\ sock'[g] = sock[g] /\ users'[g] = users[g]
                                     /\ interest'[g] = interest[g]
    BY <1>2, <2>1 DEF Close, CbFunc, IsOpen, Closed, NoConn, MainInv, Typed
  <2> QED BY <1>2, <2>1, <2>2, FlowHeld DEF Close
<1>3. CASE Increase
  <2>1. mpc = "increase" /\ mpc' = "next" /\ UNCHANGED <<sock, users, interest>>
    BY <1>3 DEF Increase
  <2>2. Consistent(mfd)'
    <3>1. Consistent(mfd) /\ mfd' = mfd
      BY <1>0, <1>3, <2>1 DEF Increase, HasFdPcs
    <3>2. ~s.last
      BY <2>1, <3>1 DEF Consistent
    <3> QED BY <2>1, <3>1, <3>2 DEF Consistent, ReadWhole
  <2> QED BY <1>3, <2>1, <2>2, FlowHeld DEF Increase
<1>4. CASE MainRead
  <2>1. /\ mpc = "in" /\ mpc' \in {"increase", "close"}
        /\ mfd \in Fds /\ IsOpen(mfd) /\ Consistent(mfd)
        /\ s \in SockType /\ u \in UserType /\ s.inbox > 0
    BY <1>0, <1>4 DEF MainRead, Read, HasFdPcs, Flow, EventTrue
  <2>2. PICK n \in Nat : /\ n = Taken(mfd) /\ n <= s.inbox
                         /\ n <= Pieces - u.buf
    BY <2>1, TakenFits
  <2> DEFINE t == sock'[mfd]
             v == users'[mfd]
  <2>3. /\ t = [s EXCEPT !.inbox = @ - n] /\ v = [u EXCEPT !.buf = @ + n]
        /\ \A g \in Fds : g # mfd => sock'[g] = sock[g] /\ users'[g] = users[g]
        /\ interest' = interest /\ mfd' = mfd
    BY <1>4, <2>1, <2>2 DEF MainRead, Read, SetUser, MainInv, Typed
  <2>4. /\ t.inbox = s.inbox - n /\ v.buf = u.buf + n
        /\ t.conn = s.conn /\ t.kind = s.kind /\ t.sent = s.sent
        /\ t.last = s.last /\ t.gone = s.gone
        /\ v.conn = u.conn /\ v.bad = u.bad /\ v.left = u.left /\ v.out = u.out
        /\ s.inbox \in Nat /\ s.sent \in Nat /\ u.buf \in Nat /\ u.buf <= Pieces
    BY <2>1, <2>3, Sizes DEF SockType, UserType
  <2>5. ~s.last /\ u.buf + s.inbox = s.sent /\ s.sent <= Length(s.kind)
    BY <2>1 DEF Consistent
  <2>6. ReadWhole(mfd) => n = 0
    BY <2>2, <2>4, Sizes DEF ReadWhole
  <2>7. u.left > 0 => u.bad \/ ReadWhole(mfd)'
    <3>1. u.left > 0 => u.bad \/ ReadWhole(mfd)
      BY <2>1 DEF Consistent
    <3>2. ReadWhole(mfd) => ReadWhole(mfd)'
      <4>1. u.buf = Pieces /\ n = 0 => v.buf = Pieces
        BY <2>4, Sizes
      <4> QED BY <2>3, <2>4, <2>6, <4>1 DEF ReadWhole
    <3> QED BY <3>1, <3>2
  <2>8. Consistent(mfd)'
    <3>1. v.buf + t.inbox = t.sent
      BY <2>2, <2>4, <2>5
    <3>2. interest[mfd] = "out" => u.left > 0
      BY <2>1 DEF Consistent
    <3>3. /\ u.conn = s.conn /\ (s.kind = "none" => s.sent = 0)
          /\ (u.bad => s.kind = "bad") /\ (u.left > 0 => u.out = s.conn)
      BY <2>1 DEF Consistent
    <3> QED
      BY <2>3, <2>4, <2>5, <2>7, <3>1, <3>2, <3>3 DEF Consistent
  <2>9. ASSUME mpc' = "close" PROVE Excused(t)
    <3>1. ReadFails(mfd) /\ IsOpen(mfd)
      BY <1>4, <2>1, <2>9 DEF MainRead, Read
    <3>2. CASE s.gone
      BY <2>4, <3>2 DEF Excused
    <3>3. CASE s.kind = "long" /\ s.sent >= Pieces
      BY <2>4, <3>3 DEF Excused, Refused
    <3>4. CASE Taken(mfd) = 0
      <4>1. u.buf = Pieces
        BY <2>1, <2>4, <3>4, Sizes DEF Taken
      <4>2. s.sent > Pieces /\ s.kind = "long"
        BY <2>1, <2>4, <2>5, <4>1, Sizes DEF Length
      <4> QED BY <2>4, <3>3, <4>2, Sizes
    <3>5. CASE Fills(mfd)
      <4>1. s.kind = "long" /\ u.buf + n = Pieces
        BY <2>2, <3>5 DEF Fills
      <4>2. s.sent >= Pieces
        BY <2>2, <2>4, <2>5, <4>1, Sizes
      <4> QED BY <3>3, <4>1, <4>2
    <3> QED BY <3>1, <3>2, <3>4, <3>5 DEF ReadFails
  <2> QED BY <1>4, <2>1, <2>3, <2>8, <2>9, FlowHeld DEF MainRead
<1>5. CASE MainWrite
  <2>1. /\ mpc = "out" /\ mpc' \in {"next", "close"}
        /\ mfd \in Fds /\ IsOpen(mfd) /\ Consistent(mfd)
        /\ s \in SockType /\ u \in UserType /\ u.left > 0 /\ u.left \in Nat
        /\ UNCHANGED <<workerVars, mfd, batch>>
    BY <1>0, <1>5, Sizes DEF MainWrite, Write, WriteAll, WriteSome, HasFdPcs,
                             Flow, EventTrue, UserType
  <2>2. ~s.last /\ u.conn = s.conn /\ u.out = s.conn
    BY <2>1 DEF Consistent
  <2>3. ~u.bad => s.inbox = 0 /\ ReadWhole(mfd)
    <3> SUFFICES ASSUME ~u.bad PROVE s.inbox = 0
      BY <2>1 DEF Consistent
    <3>1. u.buf = Pieces /\ s.kind # "long" /\ u.buf + s.inbox = s.sent
          /\ s.sent <= Length(s.kind)
      BY <2>1, <2>2 DEF Consistent, ReadWhole
    <3>2. s.inbox \in Nat /\ s.sent \in Nat
      BY <2>1 DEF SockType
    <3> QED BY <3>1, <3>2, Sizes DEF Length
  <2>10. \/ /\ sock[mfd].gone \/ u.bad
            /\ mpc' = "close" /\ UNCHANGED <<interest, users, sock>>
         \/ ~u.bad /\ WriteAll(mfd, mpc' = "next", mpc' = "close")
         \/ ~u.bad /\ WriteSome(mfd, mpc' = "next")
    BY <1>5, <2>1 DEF MainWrite, Write
  <2>4. CASE /\ sock[mfd].gone \/ u.bad
             /\ mpc' = "close" /\ UNCHANGED <<interest, users, sock>>
    <3>1. Consistent(mfd)'
      BY <2>1, <2>2, <2>4 DEF Consistent, ReadWhole
    <3>2. Excused(sock'[mfd])
      BY <2>1, <2>4 DEF Consistent, Excused, Refused
    <3> QED BY <2>1, <2>4, <3>1, <3>2, FlowHeld
  <2>5. CASE ~u.bad /\ WriteAll(mfd, mpc' = "next", mpc' = "close")
    <3>1. /\ sock'[mfd] = [s EXCEPT !.sent = 0, !.kind = "none",
                                     !.last = ~u.linger]
          /\ users'[mfd] = IF u.linger THEN InitUser(u.conn)
                                       ELSE [u EXCEPT !.left = 0]
          /\ interest'[mfd] = "in"
          /\ \A g \in Fds : g # mfd => /\ sock'[g] = sock[g] /\ users'[g] = users[g]
                                       /\ interest'[g] = interest[g]
      BY <2>1, <2>5 DEF WriteAll, SetUser, Modfd, MainInv, Typed
    <3>2. CASE u.linger
      <4>1. mpc' = "next"
        BY <2>5, <3>2 DEF WriteAll
      <4>2. Consistent(mfd)'
        BY <2>1, <2>2, <2>3, <2>5, <3>1, <3>2, Sizes
        DEF Consistent, SockType, UserType, InitUser, Length
      <4> QED BY <2>1, <3>1, <4>1, <4>2, FlowHeld
    <3>3. CASE ~u.linger
      <4>a. mpc' = "close"
        BY <2>5, <3>3 DEF WriteAll
      <4>b. sock'[mfd].last = ~u.linger
        BY <2>1, <3>1 DEF SockType
      <4>1. mpc' = "close" /\ sock'[mfd].last
        BY <3>3, <4>a, <4>b
      <4>2. Consistent(mfd)'
        BY <2>1, <2>2, <2>3, <2>5, <3>1, <3>3, <4>1, Sizes
        DEF Consistent, SockType, UserType, Length
      <4>3. Excused(sock'[mfd])
        BY <4>1 DEF Excused
      <4> QED BY <2>1, <3>1, <4>1, <4>2, <4>3, FlowHeld
    <3> QED BY <3>2, <3>3
  <2>6. CASE ~u.bad /\ WriteSome(mfd, mpc' = "next")
    <3>1. PICK k \in 1 .. u.left - 1 : SetUser(mfd, [u EXCEPT !.left = @ - k])
      BY <2>6 DEF WriteSome
    <3>2. sock' = [sock EXCEPT ![mfd] = [s EXCEPT !.full = TRUE]]
      BY <2>6 DEF WriteSome, MainInv, Typed
    <3>3. /\ sock'[mfd] = [s EXCEPT !.full = TRUE]
          /\ users'[mfd] = [u EXCEPT !.left = @ - k]
          /\ \A g \in Fds : g # mfd => /\ sock'[g] = sock[g] /\ users'[g] = users[g]
                                       /\ interest'[g] = interest[g]
      BY <2>1, <2>6, <3>1, <3>2 DEF WriteSome, SetUser, Modfd, MainInv, Typed
    <3>4. mpc' = "next"
      BY <2>6 DEF WriteSome
    <3>5. u.left - k > 0
      BY <2>1, <3>1
    <3>6. Consistent(mfd)'
      BY <2>1, <2>2, <2>3, <2>6, <3>3, <3>5, Sizes
      DEF Consistent, ReadWhole, SockType, UserType
    <3> QED BY <2>1, <3>3, <3>4, <3>6, FlowHeld
  <2> QED BY <2>10, <2>4, <2>5, <2>6
<1> QED BY <1>1, <1>2, <1>3, <1>4, <1>5

(* A step of a worker that touches the connection it has only.             *)
LEMMA FlowHeldByWorker ==
  ASSUME MainInv, Exclusive, Flow,
         NEW w \in Workers, wpc[w] # "idle", NEW fd \in Fds, wfd[w] = fd,
         UNCHANGED <<mainVars, sock>>,
         \A g \in Fds : g # fd => /\ users'[g] = users[g]
                                  /\ interest'[g] = interest[g],
         \A v \in Workers : v # w => /\ wpc'[v] = wpc[v] /\ wfd'[v] = wfd[v]
                                     /\ wret'[v] = wret[v],
         Consistent(fd)', MadeFor(w)'
  PROVE  Flow'
<1>0. /\ IsOpen(fd)
      /\ mpc \in {"close", "in", "out", "increase"} => mfd # fd
      /\ \A e \in batch : e.fd # fd
      /\ \A v \in Workers : v # w => wfd[v] # fd
  BY HoldersApart, Whereabouts
<1>1. ASSUME NEW g \in Fds, IsOpen(g)' PROVE Consistent(g)'
  <2>1. CASE g = fd
    BY <2>1
  <2>2. CASE g # fd
    BY <1>1, <2>2, ConsistentFrame DEF Flow, IsOpen, mainVars
  <2> QED BY <2>1, <2>2
<1>2. ASSUME NEW e \in batch, e.kind # "listen" PROVE EventTrue(e.fd, e.kind)'
  BY <1>0, <1>2, Whereabouts DEF Flow, EventTrue
<1>3. mpc \in {"in", "out"} => EventTrue(mfd, mpc)'
  <2> SUFFICES ASSUME mpc \in {"in", "out"} PROVE EventTrue(mfd, mpc)'
    OBVIOUS
  <2>1. mfd \in Fds /\ mfd # fd
    BY <1>0, Whereabouts DEF HasFdPcs
  <2> QED BY <2>1 DEF Flow, EventTrue, mainVars
<1>4. ASSUME NEW v \in Workers PROVE MadeFor(v)'
  <2>1. CASE v = w
    BY <2>1
  <2>2. CASE v # w /\ wpc[v] = "idle"
    BY <2>2 DEF MadeFor
  <2>3. CASE v # w /\ wpc[v] # "idle"
    BY <1>0, <2>3, MadeForFrame, Whereabouts DEF Flow
  <2> QED BY <2>1, <2>2, <2>3
<1> QED BY <1>1, <1>2, <1>3, <1>4 DEF Flow, mainVars

LEMMA FlowWorker ==
  ASSUME ActorModel = "proactor", MainInv, Exclusive, Flow,
         NEW w \in Workers, WorkerStep(w)
  PROVE  Flow'
<1> PICK fd \in Fds \cup {NoFd} : wfd[w] = fd
  BY DEF MainInv, Typed
<1> DEFINE u == users[fd]
<1>0. wpc[w] # "idle" => /\ fd \in Fds /\ IsOpen(fd) /\ Consistent(fd)
                         /\ u \in UserType /\ sock[fd] \in SockType
  BY HoldersApart, Whereabouts DEF Flow
<1>1. CASE WorkerReadOrWrite(w) \/ SetImprov(w) \/ SetTimerFlag(w)
  BY <1>1 DEF WorkerReadOrWrite, SetImprov, SetTimerFlag, Exclusive
<1>2. CASE Take(w)
  <2>1. /\ UNCHANGED <<sock, users, interest, mainVars, wret>>
        /\ wpc'[w] # "respond"
        /\ \A v \in Workers : v # w => wpc'[v] = wpc[v] /\ wfd'[v] = wfd[v]
    BY <1>2 DEF Take, WGoto, MainInv, Typed
  <2>2. ASSUME NEW v \in Workers PROVE MadeFor(v)'
    <3>1. CASE v = w
      BY <2>1, <3>1 DEF MadeFor
    <3>2. CASE v # w
      BY <2>1, <3>2, MadeForFrame DEF Flow
    <3> QED BY <3>1, <3>2
  <2>3. ASSUME NEW g \in Fds, IsOpen(g)' PROVE Consistent(g)'
    BY <2>1, <2>3, ConsistentFrame DEF Flow, IsOpen, mainVars
  <2> QED BY <2>1, <2>2, <2>3 DEF Flow, EventTrue, mainVars
<1>3. CASE Parse(w)
  <2>1. /\ wpc[w] # "idle" /\ UNCHANGED <<sock, interest, mainVars>>
        /\ fd \in Fds /\ IsOpen(fd) /\ Consistent(fd) /\ u \in UserType
    BY <1>0, <1>3 DEF Parse
  <2> DEFINE kind == sock[fd].kind
             t == users'[fd]
  <2>2. ASSUME NEW v, SetUser(fd, v)
        PROVE  t = v /\ \A g \in Fds : g # fd => users'[g] = users[g]
    BY <2>1, <2>2 DEF SetUser, MainInv, Typed
  <2>3. PICK b \in BOOLEAN :
          /\ t.conn = u.conn /\ t.buf = u.buf /\ t.left = u.left /\ t.out = u.out
          /\ t.bad = b /\ (b => u.bad \/ kind = "bad") /\ (u.bad => b)
          /\ \A g \in Fds : g # fd => users'[g] = users[g]
          /\ wret'[w] # NoConn => /\ wret'[w] = u.conn
                                  /\ b \/ (u.buf = Pieces /\ kind # "long")
    <3>1. CASE Incomplete(w, u, kind)
      <4>1. PICK l \in BOOLEAN : SetUser(fd, [u EXCEPT !.cut = l])
        <5>1. u.cut \in BOOLEAN
          BY <2>1 DEF UserType
        <5> QED BY <3>1, <5>1 DEF Incomplete
      <4>2. wret'[w] = NoConn
        BY <3>1 DEF Incomplete, MainInv, Typed
      <4> QED BY <2>1, <2>2, <4>1, <4>2 DEF UserType
    <3>2. CASE Reject(w, u, kind)
      <4>1. SetUser(fd, [u EXCEPT !.bad = TRUE]) /\ kind = "bad"
            /\ wret'[w] = u.conn
        BY <3>2 DEF Reject, MainInv, Typed
      <4>2. t = [u EXCEPT !.bad = TRUE] /\ \A g \in Fds : g # fd => users'[g] = users[g]
        BY <2>2, <4>1
      <4> QED BY <2>1, <4>1, <4>2 DEF UserType
    <3>3. CASE Found(w, u, kind)
      <4>1. PICK l \in BOOLEAN : SetUser(fd, [u EXCEPT !.linger = l])
        BY <3>3 DEF Found
      <4>2. /\ u.buf = Pieces /\ kind # "long"
            /\ wret'[w] \in {u.conn, NoConn}
        BY <3>3 DEF Found, MainInv, Typed
      <4>3. t = [u EXCEPT !.linger = l] /\ \A g \in Fds : g # fd => users'[g] = users[g]
        BY <2>2, <4>1
      <4> QED BY <2>1, <4>2, <4>3 DEF UserType
    <3> QED BY <1>3, <3>1, <3>2, <3>3 DEF Parse
  <2>4. Consistent(fd)'
    BY <2>1, <2>3 DEF Consistent, ReadWhole, mainVars
  <2>5. MadeFor(w)'
    <3>1. ~sock[fd].last
      BY <2>1, HoldersApart DEF Consistent
    <3>2. u.buf = Pieces => kind # "none"
      BY <2>1, <3>1, Sizes, Whereabouts DEF Consistent, SockType
    <3> QED BY <1>3, <2>1, <2>3, <3>2 DEF Parse, MadeFor, Consistent, ReadWhole
  <2>6. \A v \in Workers : v # w => /\ wpc'[v] = wpc[v] /\ wfd'[v] = wfd[v]
                                    /\ wret'[v] = wret[v]
    <3>1. /\ wpc' = [wpc EXCEPT ![w] = "respond"] /\ wfd' = wfd
          /\ \E c : wret' = [wret EXCEPT ![w] = c]
      BY <1>3 DEF Parse, Incomplete, Reject, Found, WGoto
    <3> QED BY <3>1 DEF MainInv, Typed
  <2> QED BY <2>1, <2>3, <2>4, <2>5, <2>6, FlowHeldByWorker
<1>4. CASE Respond(w)
  <2>1. /\ wpc[w] = "respond" /\ UNCHANGED <<sock, mainVars>>
        /\ fd \in Fds /\ IsOpen(fd) /\ Consistent(fd) /\ u \in UserType
        /\ MadeFor(w)
    BY <1>0, <1>4 DEF Respond, Flow
  <2>2. /\ \A v \in Workers : v # w => /\ wpc'[v] = wpc[v] /\ wfd'[v] = wfd[v]
                                       /\ wret'[v] = wret[v]
        /\ wpc'[w] = "idle"
    BY <1>4 DEF Respond, WIdle, WGoto, MainInv, Typed
  <2>3. MadeFor(w)'
    BY <2>2 DEF MadeFor
  <2>4. CASE wret[w] = NoConn
    <3>1. users' = users /\ interest' = [interest EXCEPT ![fd] = "in"]
      BY <1>4, <2>1, <2>4 DEF Respond, Modfd
    <3>2. interest'[fd] = "in" /\ \A g \in Fds : g # fd => interest'[g] = interest[g]
      BY <2>1, <3>1 DEF MainInv, Typed
    <3>3. Consistent(fd)'
      BY <2>1, <3>1, <3>2 DEF Consistent, ReadWhole, mainVars
    <3> QED BY <2>1, <2>2, <2>3, <3>1, <3>2, <3>3, FlowHeldByWorker
  <2>5. CASE wret[w] # NoConn
    <3>1. /\ SetUser(fd, [u EXCEPT !.out = wret[w], !.left = Parts])
          /\ interest' = [interest EXCEPT ![fd] = "out"]
          /\ u.bad \/ ReadWhole(fd)
          /\ wret[w] = sock[fd].conn
      BY <1>4, <2>1, <2>5 DEF Respond, Modfd, MadeFor
    <3>2. /\ interest'[fd] = "out"
          /\ users'[fd] = [u EXCEPT !.out = wret[w], !.left = Parts]
          /\ \A g \in Fds : g # fd => /\ interest'[g] = interest[g]
                                      /\ users'[g] = users[g]
      BY <2>1, <3>1 DEF SetUser, MainInv, Typed
    <3>3. Consistent(fd)'
      BY <2>1, <3>1, <3>2, Sizes DEF Consistent, ReadWhole, UserType, mainVars
    <3> QED BY <2>1, <2>2, <2>3, <3>2, <3>3, FlowHeldByWorker
  <2> QED BY <2>4, <2>5
<1> QED BY <1>1, <1>2, <1>3, <1>4 DEF WorkerStep

LEMMA FlowStep ==
  ASSUME ActorModel = "proactor"
  PROVE  MainInv /\ Exclusive /\ Flow /\ [Next]_vars => Flow'
<1> SUFFICES ASSUME MainInv, Exclusive, Flow, [Next]_vars PROVE Flow'
  OBVIOUS
<1>1. CASE Connect \/ UNCHANGED vars
  BY <1>1 DEF Connect, vars, mainVars, workerVars, Flow, Consistent, MadeFor,
              ReadWhole, EventTrue, IsOpen
<1> QED
  BY <1>1, FlowClient, FlowEpollWait, FlowTakeEvent, FlowAccept,
     FlowMainThread, FlowWorker
  DEF Next, Client, MainStep

LEMMA ClosedEmptyStep ==
  ASSUME ActorModel = "proactor"
  PROVE  MainInv /\ Exclusive /\ ClosedEmpty /\ [Next]_vars => ClosedEmpty'
<1> SUFFICES ASSUME MainInv, Exclusive, ClosedEmpty, [Next]_vars,
                    NEW g \in Fds, ~IsOpen(g)'
             PROVE  sock'[g].inbox = 0
  BY DEF ClosedEmpty
<1>0. sock \in [Fds -> SockType] /\ (mpc \in HasFdPcs => mfd \in Fds /\ IsOpen(mfd))
  BY Whereabouts
<1>1. ASSUME sock'[g] = sock[g] PROVE sock'[g].inbox = 0
  BY <1>1 DEF ClosedEmpty, IsOpen
<1>2. ASSUME NEW fd \in Fds, Send(fd) \/ Hangup(fd) \/ Drain(fd)
      PROVE  sock'[g].inbox = 0
  <2>1. IsOpen(fd) /\ sock'[fd].conn = sock[fd].conn
    BY <1>2, ClientConns DEF Send, Hangup, Drain, ClientOnly, MainInv
  <2>2. g # fd
    BY <2>1 DEF IsOpen
  <2> QED BY <1>0, <1>1, <1>2, <2>2 DEF Send, Hangup, Drain, ClientOnly
<1>3. CASE Accept
  <2>1. CASE UNCHANGED sock
    BY <1>1, <2>1
  <2>2. ASSUME NEW fd \in FreeFds, ClientInit(fd) PROVE sock'[g].inbox = 0
    <3>1. CASE g = fd
      BY <1>0, <2>2, <3>1 DEF ClientInit, Closed
    <3>2. CASE g # fd
      BY <1>0, <1>1, <2>2, <3>2 DEF ClientInit
    <3> QED BY <3>1, <3>2
  <2> QED BY <1>3, <2>1, <2>2 DEF Accept, NoAccept, AcceptBusy, AcceptClient
<1>4. CASE Close
  <2>1. CASE g = mfd
    BY <1>0, <1>4, <2>1 DEF Close, CbFunc, Closed
  <2>2. CASE g # mfd
    BY <1>0, <1>1, <1>4, <2>2 DEF Close, CbFunc
  <2> QED BY <2>1, <2>2
<1>5. CASE MainRead \/ MainWrite
  <2>1. mfd \in Fds /\ IsOpen(mfd) /\ (ReadStep(mfd) \/ WriteStep(mfd))
    BY <1>0, <1>5 DEF MainRead, MainWrite, HasFdPcs, Read, Write, WriteAll,
                      WriteSome, ReadStep, WriteStep
  <2>2. g # mfd
    BY <2>1, ReadTyped, WriteTyped DEF IsOpen, MainInv
  <2>3. sock'[g] = sock[g]
    BY <1>0, <2>1, <2>2 DEF ReadStep, Read, WriteStep, Write, WriteAll, WriteSome
  <2> QED BY <1>1, <2>3
<1>6. ASSUME NEW w \in Workers, WorkerStep(w) PROVE sock' = sock
  BY <1>6 DEF WorkerStep, Take, WorkerReadOrWrite, SetImprov, SetTimerFlag,
              Parse, Respond, Exclusive
<1>7. CASE IncreaseState \/ Spin \/ Settle
  BY <1>7 DEF IncreaseState, Spin, Settle, Exclusive
<1>8. CASE Connect \/ EpollWait \/ TakeEvent \/ Increase \/ UNCHANGED vars
  BY <1>1, <1>8 DEF Connect, EpollWait, TakeEvent, Increase, vars
<1> QED
  BY <1>1, <1>2, <1>3, <1>4, <1>5, <1>6, <1>7, <1>8 DEF Next, Client, MainStep

LEMMA ProactorInit == Init => ProactorInv
<1>1. Init => ClosedEmpty
  BY DEF Init, ClosedEmpty, Closed
<1> QED BY <1>1, MainInit, ExclusiveInit, FlowInit DEF ProactorInv

LEMMA ProactorStep ==
  ASSUME ActorModel = "proactor"
  PROVE  ProactorInv /\ [Next]_vars => ProactorInv'
BY MainStepKeeps, ExclusiveStep, FlowStep, ClosedEmptyStep DEF ProactorInv

(* In the proactor model the response in a connection's buffers was made   *)
(* from the request of the client that holds the connection now, although  *)
(* descriptor and object are used again for later clients                  *)
(* (my_web.cpp:325, http_conn.cpp:217-236).                                *)
THEOREM ResponsesMatch ==
  ASSUME ActorModel = "proactor" PROVE Spec => []OutMatches
<1>1. ProactorInv => OutMatches
  BY DEF ProactorInv, Flow, Consistent, OutMatches, MainInv, Typed, UserType
<1>2. ProactorInv /\ [Next]_vars => ProactorInv'
  BY ProactorStep
<1> QED BY <1>1, <1>2, ProactorInit, PTL DEF Spec

(* In the proactor model the server closes a connection only when its      *)
(* client has hung up, was told in its last response that it would be, has *)
(* sent more than the read buffer holds or a malformed request: a client   *)
(* whose requests are well formed and fit is never cut off (http_conn.cpp: *)
(* 241-286, 831-834, my_web.cpp:547, 615).                                 *)
THEOREM ClosesOnlyWithReason ==
  ASSUME ActorModel = "proactor" PROVE Spec => NoAbruptClose
<1>1. ASSUME ProactorInv, Next,
             NEW fd \in Fds, IsOpen(fd), ~IsOpen(fd)'
      PROVE  Excused(sock[fd])
  <2>1. MainInv /\ [Next]_vars /\ ~Settle
    BY <1>1 DEF ProactorInv, Exclusive, Settle
  <2>2. ~(\A g \in Fds : sock'[g].conn = sock[g].conn) /\ fd \in OpenFds /\ fd \notin OpenFds'
    BY <1>1 DEF IsOpen, OpenFds
  <2>3. Close /\ OpenFds' = OpenFds \ {mfd}
    BY <2>1, <2>2, OpenSteps
  <2>4. fd = mfd /\ mpc = "close"
    BY <2>2, <2>3 DEF Close
  <2> QED BY <1>1, <2>4 DEF ProactorInv, Flow
<1>2. ProactorInv /\ [Next]_vars =>
        [\A fd \in Fds : IsOpen(fd) /\ ~IsOpen(fd)' =>
           sock[fd].gone \/ sock[fd].last \/ Refused(sock[fd])]_vars
  BY <1>1 DEF Excused
<1>3. ProactorInv /\ [Next]_vars => ProactorInv'
  BY ProactorStep
<1> QED BY <1>2, <1>3, ProactorInit, PTL DEF Spec, NoAbruptClose

(* What the proactor model knows implies the full types.                   *)
LEMMA ProactorTypeOK == ProactorInv /\ ClientsCounted => TypeOK
<1> SUFFICES ASSUME ProactorInv, ClientsCounted PROVE TypeOK
  OBVIOUS
<1> USE DEF ProactorInv, MainInv
<1>1. /\ backlog \in 0 .. MaxConns /\ conns \in 0 .. MaxConns
      /\ accepted \in 0 .. MaxConns
  BY Sizes DEF Typed
<1>2. edge \in BOOLEAN
  BY DEF Typed
<1>3. sock \in [Fds -> [conn : 0 .. MaxConns, inbox : 0 .. Pieces + 1,
                        sent : 0 .. Pieces + 1, kind : Requests \cup {"none"},
                        gone : BOOLEAN, full : BOOLEAN, last : BOOLEAN]]
  <2>1. ASSUME NEW fd \in Fds PROVE sock[fd].inbox \in 0 .. Pieces + 1
    <3>0. sock[fd] \in SockType /\ users[fd] \in UserType
      BY DEF Typed
    <3>1. /\ sock[fd].inbox \in Nat /\ sock[fd].sent \in 0 .. Pieces + 1
          /\ users[fd].buf \in Nat
      BY <3>0, Sizes DEF SockType, UserType
    <3>2. CASE ~IsOpen(fd) \/ sock[fd].last
      <4>1. sock[fd].inbox = 0
        BY <3>2 DEF Flow, Consistent, ClosedEmpty
      <4> QED BY <4>1, Sizes
    <3>3. CASE IsOpen(fd) /\ ~sock[fd].last
      <4>1. users[fd].buf + sock[fd].inbox = sock[fd].sent
        BY <3>3 DEF Flow, Consistent
      <4> QED BY <3>1, <4>1, Sizes
    <3> QED BY <3>2, <3>3
  <2>2. sock \in [Fds -> SockType]
    BY DEF Typed
  <2> QED BY <2>1, <2>2 DEF SockType
<1>4. m_client_number \in Nat
  BY OpenFinite DEF ClientsCounted, OpenFds
<1>5. \A fd \in Fds : users[fd] \in UserType
  BY DEF Typed
<1> QED BY <1>1, <1>2, <1>3, <1>4, <1>5 DEF TypeOK, Typed, UserType

-----------------------------------------------------------------------------
(* From the places of a descriptor to the set of its holders.              *)
LEMMA HoldersOfPlace ==
  ASSUME MainInv, Exclusive, NEW fd \in Fds
  PROVE  /\ ~Armed(fd) /\ ~InBatch(fd) /\ ~MainHolds(fd) /\ ~Queued(fd)
              /\ ~WithWorker(fd)
            => Holders(fd) = {}
         /\ Armed(fd) \/ InBatch(fd) \/ MainHolds(fd) \/ Queued(fd)
              \/ WithWorker(fd)
            => \E h : Holders(fd) = {h}
<1> DEFINE E == {<<"epoll", ev>> :
                   ev \in IF MainHolds(fd) THEN {} ELSE {interest[fd]} \ {"off"}}
           V == {<<"event", e>> : e \in {e \in batch : e.fd = fd}}
           M == {<<"main", pc>> : pc \in IF MainHolds(fd) THEN {mpc} ELSE {}}
           Q == {<<"queue", i>> : i \in {i \in 1 .. Len(queue) : queue[i] = fd}}
           W == {<<"worker", w>> : w \in {w \in Workers : wfd[w] = fd}}
<1>0. Holders(fd) = E \cup V \cup M \cup Q \cup W
  BY DEF Holders
<1>1. ~Armed(fd) => E = {}
  BY DEF Armed
<1>2. ~InBatch(fd) => V = {}
  BY DEF InBatch
<1>3. ~MainHolds(fd) => M = {}
  OBVIOUS
<1>4. ~Queued(fd) => Q = {}
  BY DEF Queued
<1>5. ~WithWorker(fd) => W = {}
  BY DEF WithWorker
<1>6. CASE Armed(fd)
  <2>1. E = {<<"epoll", interest[fd]>>}
    BY <1>6 DEF Armed
  <2>2. V = {} /\ M = {} /\ Q = {} /\ W = {}
    BY <1>2, <1>3, <1>4, <1>5, <1>6 DEF Exclusive, Armed
  <2>3. Holders(fd) = {<<"epoll", interest[fd]>>}
    BY <1>0, <2>1, <2>2
  <2> QED BY <1>6, <2>3
<1>7. CASE InBatch(fd)
  <2>1. PICK e \in batch : e.fd = fd
    BY <1>7 DEF InBatch
  <2>2. {d \in batch : d.fd = fd} = {e}
    BY <2>1 DEF MainInv, Custody
  <2>3. V = {<<"event", e>>}
    BY <2>2
  <2>4. E = {} /\ M = {} /\ Q = {} /\ W = {}
    BY <1>1, <1>3, <1>4, <1>5, <1>7 DEF Exclusive
  <2>5. Holders(fd) = {<<"event", e>>}
    BY <1>0, <2>3, <2>4
  <2> QED BY <1>7, <2>5
<1>8. CASE MainHolds(fd)
  <2>1. M = {<<"main", mpc>>}
    BY <1>8
  <2>2. E = {} /\ V = {} /\ Q = {} /\ W = {}
    BY <1>1, <1>2, <1>4, <1>5, <1>8 DEF Exclusive, Armed
  <2>3. Holders(fd) = {<<"main", mpc>>}
    BY <1>0, <2>1, <2>2
  <2> QED BY <1>8, <2>3
<1>9. CASE Queued(fd)
  <2>1. PICK i \in 1 .. Len(queue) : queue[i] = fd
    BY <1>9 DEF Queued
  <2>2. {j \in 1 .. Len(queue) : queue[j] = fd} = {i}
    BY <2>1 DEF Exclusive
  <2>3. Q = {<<"queue", i>>}
    BY <2>2
  <2>4. E = {} /\ V = {} /\ M = {} /\ W = {}
    BY <1>1, <1>2, <1>3, <1>5, <1>9 DEF Exclusive
  <2>5. Holders(fd) = {<<"queue", i>>}
    BY <1>0, <2>3, <2>4
  <2> QED BY <1>9, <2>5
<1>10. CASE WithWorker(fd)
  <2>1. PICK w \in Workers : wfd[w] = fd
    BY <1>10 DEF WithWorker
  <2>2. {v \in Workers : wfd[v] = fd} = {w}
    BY <2>1, DispatchAssumption DEF Exclusive
  <2>3. W = {<<"worker", w>>}
    BY <2>2
  <2>4. E = {} /\ V = {} /\ M = {} /\ Q = {}
    BY <1>1, <1>2, <1>3, <1>4, <1>10 DEF Exclusive
  <2>5. Holders(fd) = {<<"worker", w>>}
    BY <1>0, <2>3, <2>4
  <2> QED BY <1>10, <2>5
<1>11. CASE /\ ~Armed(fd) /\ ~InBatch(fd) /\ ~MainHolds(fd) /\ ~Queued(fd)
            /\ ~WithWorker(fd)
  BY <1>0, <1>1, <1>2, <1>3, <1>4, <1>5, <1>11
<1> QED BY <1>6, <1>7, <1>8, <1>9, <1>10, <1>11

(* A descriptor that is closed is in no place.                             *)
LEMMA ClosedNowhere ==
  ASSUME MainInv, Exclusive, NEW fd \in Fds, ~IsOpen(fd)
  PROVE  /\ ~Armed(fd) /\ ~InBatch(fd) /\ ~MainHolds(fd) /\ ~Queued(fd)
         /\ ~WithWorker(fd)
<1>1. \A e \in batch : e.fd # fd
  BY DispatchAssumption DEF MainInv, Custody
<1>2. ~MainHolds(fd)
  BY Whereabouts DEF MainHolds, HasFdPcs
<1> QED BY <1>1, <1>2 DEF MainInv, Custody, Exclusive, Armed, InBatch

-----------------------------------------------------------------------------
(* What leaves a place goes to another, or into dropped.                   *)
LEMMA OpenSomewhere ==
  ASSUME ActorModel = "proactor", MainInv, Exclusive, Placed, [Next]_vars,
         NEW g \in Fds, IsOpen(g)', g \notin dropped'
  PROVE  Somewhere(g)'
<1> DEFINE Goal == \/ Armed(g)' \/ InBatch(g)' \/ MainHolds(g)'
                   \/ Queued(g)' \/ WithWorker(g)'
<1> SUFFICES Goal
  BY DEF Somewhere
<1>a. g \notin dropped
  <2>1. CASE Client \/ UNCHANGED vars
    BY <2>1 DEF Client, Connect, Send, Hangup, Drain, ClientOnly, vars
  <2>2. CASE MainStep /\ ~Close /\ ~Increase
    BY <2>2 DEF MainStep, EpollWait, TakeEvent, Accept, MainRead, MainWrite,
                IncreaseState, Spin, Settle, Exclusive
  <2>3. CASE Increase
    BY <2>3 DEF Increase, Enqueue
  <2>4. CASE Close
    <3>1. mfd \in Fds /\ sock'[mfd].conn = NoConn
      BY <2>4, Whereabouts
      DEF Close, CbFunc, Closed, NoConn, HasFdPcs, MainInv, Typed
    <3>2. g # mfd
      BY <3>1 DEF IsOpen
    <3> QED BY <2>4, <3>2 DEF Close, CbFunc
  <2>5. ASSUME NEW w \in Workers, WorkerStep(w) PROVE g \notin dropped
    BY <2>5 DEF WorkerStep, Take, WorkerReadOrWrite, SetImprov, SetTimerFlag,
                Parse, Respond
  <2> QED BY <2>1, <2>2, <2>3, <2>4, <2>5 DEF Next
<1>0. IsOpen(g) => \/ Armed(g) \/ InBatch(g) \/ MainHolds(g)
                   \/ Queued(g) \/ WithWorker(g)
  BY <1>a DEF Placed, Somewhere
<1>1. ASSUME IsOpen(g),
             UNCHANGED <<interest, batch, mpc, mfd, queue, wfd>>
      PROVE  Goal
  BY <1>0, <1>1 DEF Armed, InBatch, MainHolds, Queued, WithWorker
<1>2. CASE Client \/ UNCHANGED vars
  <2>1. UNCHANGED <<interest, batch, mpc, mfd, queue, dropped, wfd>>
    BY <1>2 DEF Client, Connect, Send, Hangup, Drain, ClientOnly, vars,
                mainVars, workerVars
  <2>2. sock'[g].conn = sock[g].conn
    BY <1>2, ClientConns DEF Client, Connect, vars, MainInv
  <2> QED BY <1>1, <2>1, <2>2 DEF IsOpen
<1>3. CASE EpollWait
  <2>1. IsOpen(g) /\ batch = {} /\ ~MainHolds(g)
    BY <1>3 DEF EpollWait, IsOpen, MainHolds, MainInv, Custody
  <2>2. CASE g \in ReadyFds
    <3>1. Event(g, ReadyKind(g)) \in batch' /\ Event(g, ReadyKind(g)).fd = g
      BY <1>3, <2>2 DEF EpollWait, Event
    <3> QED BY <3>1 DEF InBatch
  <2>3. CASE g \notin ReadyFds /\ Armed(g)
    BY <1>3, <2>3 DEF EpollWait, Armed, MainHolds
  <2>4. CASE Queued(g) \/ WithWorker(g)
    BY <1>3, <2>4 DEF EpollWait, Queued, WithWorker, workerVars
  <2> QED BY <1>0, <2>1, <2>2, <2>3, <2>4 DEF InBatch
<1>4. CASE TakeEvent
  <2>1. IsOpen(g) /\ ~MainHolds(g) /\ UNCHANGED <<interest, queue, wfd>>
    BY <1>4 DEF TakeEvent, IsOpen, MainHolds, workerVars
  <2>2. CASE Queued(g) \/ WithWorker(g)
    BY <2>1, <2>2 DEF Queued, WithWorker
  <2>3. CASE Armed(g)
    BY <2>1, <2>3 DEF Armed
  <2>4. CASE InBatch(g)
    <3>1. PICK e \in batch :
            /\ batch' = batch \ {e} /\ mfd' = e.fd
            /\ mpc' = CASE e.kind = "listen" -> "accept"
                        [] e.kind = "hup" -> "close"
                        [] OTHER -> IF ActorModel = "reactor"
                                    THEN IF e.kind = "in" THEN "increase_read"
                                                          ELSE "increase_write"
                                    ELSE e.kind
      BY <1>4, <2>4 DEF TakeEvent, InBatch
    <3>2. CASE e.fd = g
      <4>1. e.kind \in {"hup", "in", "out"}
        BY <3>2, DispatchAssumption, Whereabouts DEF MainInv, Custody
      <4> QED BY <3>1, <3>2, <4>1 DEF MainHolds
    <3>3. CASE e.fd # g
      BY <2>4, <3>1, <3>3 DEF InBatch
    <3> QED BY <3>2, <3>3
  <2> QED BY <1>0, <2>1, <2>2, <2>3, <2>4
<1>5. CASE Accept
  <2>1. /\ UNCHANGED <<queue, wfd, mfd, batch>> /\ ~MainHolds(g) /\ ~MainHolds(g)'
    BY <1>5 DEF Accept, NoAccept, AcceptBusy, AcceptClient, MainHolds, workerVars
  <2>2. CASE UNCHANGED <<sock, interest>>
    BY <1>0, <2>1, <2>2 DEF IsOpen, Armed, InBatch, Queued, WithWorker
  <2>3. ASSUME NEW fd \in FreeFds, ClientInit(fd) PROVE Goal
    <3>1. CASE g = fd
      BY <2>1, <2>3, <3>1 DEF ClientInit, Armed, MainInv, Typed
    <3>2. CASE g # fd
      <4>1. sock'[g] = sock[g] /\ interest'[g] = interest[g]
        BY <2>3, <3>2 DEF ClientInit, MainInv, Typed
      <4> QED BY <1>0, <2>1, <4>1 DEF IsOpen, Armed, InBatch, Queued, WithWorker
    <3> QED BY <3>1, <3>2
  <2> QED BY <1>5, <2>2, <2>3 DEF Accept, NoAccept, AcceptBusy, AcceptClient
<1>6. CASE Close
  <2>1. mfd \in Fds
    BY <1>6, Whereabouts DEF Close, HasFdPcs
  <2>2. g # mfd
    BY <1>6, <2>1 DEF Close, CbFunc, IsOpen, Closed, NoConn, MainInv, Typed
  <2>3. /\ sock'[g] = sock[g] /\ interest'[g] = interest[g] /\ ~MainHolds(g)
        /\ ~MainHolds(g)' /\ UNCHANGED <<queue, wfd, batch>>
    BY <1>6, <2>1, <2>2 DEF Close, CbFunc, MainHolds, MainInv, Typed, workerVars
  <2> QED BY <1>0, <2>3 DEF IsOpen, Armed, InBatch, Queued, WithWorker
<1>7. CASE MainRead
  <2>1. /\ mfd \in Fds /\ ReadStep(mfd) /\ mpc = "in" /\ mpc' \in {"increase", "close"}
        /\ UNCHANGED <<interest, queue, wfd, batch, mfd>>
    BY <1>7, Whereabouts DEF MainRead, Read, ReadStep, HasFdPcs, workerVars
  <2>2. sock'[g].conn = sock[g].conn
    BY <2>1, ReadTyped DEF MainInv
  <2> QED
    BY <1>0, <2>1, <2>2 DEF IsOpen, Armed, MainHolds, InBatch, Queued, WithWorker
<1>8. CASE MainWrite
  <2>1. /\ mfd \in Fds /\ IsOpen(mfd) /\ WriteStep(mfd) /\ mpc = "out"
        /\ mpc' \in {"next", "close"} /\ UNCHANGED <<queue, wfd, batch, mfd>>
    BY <1>8, Whereabouts DEF MainWrite, Write, WriteAll, WriteSome, WriteStep,
                             HasFdPcs, workerVars
  <2>2. sock'[g].conn = sock[g].conn
    BY <2>1, WriteTyped DEF MainInv
  <2>3. CASE g # mfd
    <3>1. interest'[g] = interest[g]
      BY <1>8, <2>1, <2>3
      DEF MainWrite, Write, WriteAll, WriteSome, Modfd, MainInv, Typed
    <3> QED BY <1>0, <2>1, <2>2, <2>3, <3>1
            DEF IsOpen, Armed, MainHolds, InBatch, Queued, WithWorker
  <2>4. CASE g = mfd /\ mpc' = "close"
    BY <2>1, <2>4 DEF MainHolds
  <2>5. CASE g = mfd /\ mpc' = "next"
    <3>1. interest'[g] \in {"in", "out"}
      BY <1>8, <2>1, <2>5
      DEF MainWrite, Write, WriteAll, WriteSome, Modfd, MainInv, Typed
    <3> QED BY <2>5, <3>1 DEF Armed, MainHolds
  <2> QED BY <2>1, <2>3, <2>4, <2>5
<1>9. CASE Increase
  <2>1. /\ mfd \in Fds /\ mpc = "increase" /\ mpc' = "next"
        /\ UNCHANGED <<sock, interest, wfd, batch, mfd>>
    BY <1>9, Whereabouts DEF Increase, HasFdPcs, workerVars
  <2>a. CASE Len(queue) >= MaxQueue
    <3>1. g # mfd /\ g \notin dropped /\ queue' = queue
      BY <1>9, <2>a DEF Increase, Enqueue
    <3> QED
      BY <1>0, <2>1, <3>1
      DEF IsOpen, Armed, MainHolds, InBatch, Queued, WithWorker
  <2> SUFFICES ASSUME ~(Len(queue) >= MaxQueue) PROVE Goal
    BY <2>a
  <2>2. /\ queue' = Append(queue, mfd) /\ queue \in Seq(Fds)
        /\ dropped' = dropped
    BY <1>9, <2>1 DEF Increase, Enqueue, MainInv, Typed
  <2>3. /\ Len(queue') = Len(queue) + 1
        /\ \A i \in 1 .. Len(queue) : queue'[i] = queue[i]
        /\ queue'[Len(queue) + 1] = mfd
    BY <2>1, <2>2
  <2>4. Queued(mfd)' /\ (Queued(g) => Queued(g)')
    BY <2>1, <2>2, <2>3 DEF Queued
  <2> QED
    BY <1>0, <2>1, <2>2, <2>4 DEF IsOpen, Armed, MainHolds, InBatch, WithWorker
<1>10. CASE IncreaseState \/ Spin \/ Settle
  BY <1>10 DEF IncreaseState, Spin, Settle, Exclusive
<1>11. ASSUME NEW w \in Workers, WorkerStep(w) PROVE Goal
  <2>0. IsOpen(g) /\ UNCHANGED <<mpc, mfd, batch>>
    BY <1>11, WorkerKeepsMain DEF IsOpen, mainVars
  <2>1. CASE WorkerReadOrWrite(w) \/ SetImprov(w) \/ SetTimerFlag(w)
    BY <2>1 DEF WorkerReadOrWrite, SetImprov, SetTimerFlag, Exclusive
  <2>2. CASE Parse(w)
    BY <1>1, <2>0, <2>2 DEF Parse
  <2>3. CASE Take(w)
    <3>1. /\ queue \in Seq(Fds) /\ queue # <<>> /\ queue' = Tail(queue)
          /\ wfd' = [wfd EXCEPT ![w] = Head(queue)] /\ wfd[w] = NoFd
          /\ UNCHANGED interest
      BY <2>3 DEF Take, MainInv, Typed
    <3>2. CASE Queued(g)
      <4>1. PICK i \in 1 .. Len(queue) : queue[i] = g
        BY <3>2 DEF Queued
      <4>2. CASE i = 1
        BY <3>1, <4>1, <4>2 DEF WithWorker, MainInv, Typed
      <4>3. CASE i # 1
        <5>1. i - 1 \in 1 .. Len(queue') /\ queue'[i - 1] = g
          BY <3>1, <4>1, <4>3
        <5> QED BY <5>1 DEF Queued
      <4> QED BY <4>2, <4>3
    <3>3. CASE WithWorker(g)
      BY <3>1, <3>3, DispatchAssumption DEF WithWorker, MainInv, Typed
    <3>4. CASE Armed(g) \/ InBatch(g) \/ MainHolds(g)
      BY <2>0, <3>1, <3>4 DEF Armed, InBatch, MainHolds
    <3> QED BY <1>0, <2>0, <3>2, <3>3, <3>4
  <2>4. CASE Respond(w)
    <3>1. wfd[w] \in Fds /\ wpc[w] # "idle" /\ queue' = queue
          /\ wfd' = [wfd EXCEPT ![w] = NoFd]
      BY <2>4, Whereabouts DEF Respond, WIdle
    <3>2. CASE g = wfd[w]
      <4>1. ~MainHolds(g)
        BY <3>1, <3>2, HoldersApart DEF MainHolds
      <4>2. interest'[g] \in {"in", "out"}
        BY <2>0, <2>4, <3>1, <3>2 DEF Respond, Modfd, MainInv, Typed
      <4> QED BY <2>0, <4>1, <4>2 DEF Armed, MainHolds
    <3>3. CASE g # wfd[w]
      <4>1. interest'[g] = interest[g]
        BY <2>4, <3>1, <3>3 DEF Respond, Modfd, MainInv, Typed
      <4>2. WithWorker(g) => WithWorker(g)'
        BY <3>1, <3>3 DEF WithWorker, MainInv, Typed
      <4> QED BY <1>0, <2>0, <3>1, <4>1, <4>2 DEF Armed, InBatch, MainHolds, Queued
    <3> QED BY <3>2, <3>3
  <2> QED BY <1>11, <2>1, <2>2, <2>3, <2>4 DEF WorkerStep
<1> QED
  BY <1>2, <1>3, <1>4, <1>5, <1>6, <1>7, <1>8, <1>9, <1>10, <1>11
  DEF Next, MainStep

(* A connection whose request was dropped stays nowhere.                   *)
LEMMA DroppedNowhere ==
  ASSUME ActorModel = "proactor", MainInv, Exclusive, Placed, [Next]_vars,
         NEW g \in dropped'
  PROVE  IsOpen(g)' /\ ~Somewhere(g)'
<1> DEFINE Goal == IsOpen(g)' /\ ~Somewhere(g)'
<1>0. g \in dropped =>
        /\ g \in Fds /\ IsOpen(g) /\ interest[g] = "off" /\ ~InBatch(g)
        /\ ~MainHolds(g) /\ ~Queued(g) /\ ~WithWorker(g)
  BY DEF Placed, Somewhere, Armed, MainInv, Typed
<1>1. ASSUME g \in dropped, sock'[g].conn = sock[g].conn,
             interest'[g] = interest[g],
             InBatch(g)' => InBatch(g), Queued(g)' => Queued(g),
             MainHolds(g)' => MainHolds(g) \/ InBatch(g),
             WithWorker(g)' => WithWorker(g) \/ Queued(g)
      PROVE  Goal
  BY <1>0, <1>1 DEF IsOpen, Somewhere, Armed
<1>2. CASE Client \/ UNCHANGED vars
  <2>1. UNCHANGED <<interest, batch, mpc, mfd, queue, dropped, wfd>>
    BY <1>2 DEF Client, Connect, Send, Hangup, Drain, ClientOnly, vars,
                mainVars, workerVars
  <2>2. g \in dropped /\ sock'[g].conn = sock[g].conn
    BY <1>0, <1>2, <2>1, ClientConns DEF Client, Connect, vars, MainInv
  <2> QED BY <1>1, <2>1, <2>2 DEF InBatch, Queued, MainHolds, WithWorker
<1>3. CASE EpollWait
  <2>1. g \in dropped /\ UNCHANGED <<sock, queue, wfd>> /\ mpc' = "next"
    BY <1>3 DEF EpollWait, workerVars
  <2>2. g \notin ReadyFds /\ g \in Fds
    BY <1>0, <2>1 DEF ReadyFds, ReadyKind
  <2>3. interest'[g] = interest[g]
    BY <1>3, <2>2 DEF EpollWait
  <2>4. ~InBatch(g)'
    <3>1. \A e \in batch' : e.fd = NoFd \/ e.fd \in ReadyFds
      BY <1>3 DEF EpollWait, Event
    <3> QED BY <2>2, <3>1, DispatchAssumption DEF InBatch
  <2> QED BY <1>1, <2>1, <2>3, <2>4 DEF MainHolds, Queued, WithWorker
<1>4. CASE TakeEvent
  <2>1. g \in dropped /\ UNCHANGED <<sock, interest, queue, wfd>>
    BY <1>4 DEF TakeEvent, workerVars
  <2>2. batch' \subseteq batch /\ (mfd' = NoFd \/ \E e \in batch : mfd' = e.fd)
    BY <1>4 DEF TakeEvent
  <2>3. MainHolds(g)' => InBatch(g)
    BY <1>0, <2>1, <2>2, DispatchAssumption DEF MainHolds, InBatch
  <2> QED BY <1>1, <2>1, <2>2, <2>3 DEF InBatch, Queued, WithWorker
<1>5. CASE Accept
  <2>1. /\ g \in dropped /\ UNCHANGED <<queue, wfd, mfd, batch>> /\ ~MainHolds(g)'
    BY <1>5 DEF Accept, NoAccept, AcceptBusy, AcceptClient, MainHolds, workerVars
  <2>2. CASE UNCHANGED <<sock, interest>>
    BY <1>1, <2>1, <2>2 DEF InBatch, Queued, WithWorker
  <2>3. ASSUME NEW fd \in FreeFds, ClientInit(fd) PROVE Goal
    <3>1. g # fd /\ fd \in Fds
      BY <1>0, <2>1 DEF FreeFds
    <3>2. sock'[g] = sock[g] /\ interest'[g] = interest[g]
      BY <1>0, <2>1, <2>3, <3>1 DEF ClientInit, MainInv, Typed
    <3> QED BY <1>1, <2>1, <3>2 DEF InBatch, Queued, WithWorker
  <2> QED BY <1>5, <2>2, <2>3 DEF Accept, NoAccept, AcceptBusy, AcceptClient
<1>6. CASE Close
  <2>1. g \in dropped /\ g # mfd /\ ~MainHolds(g)' /\ UNCHANGED <<queue, wfd, batch>>
    BY <1>6 DEF Close, CbFunc, MainHolds, workerVars
  <2>2. sock'[g] = sock[g] /\ interest'[g] = interest[g]
    BY <1>0, <1>6, <2>1 DEF Close, CbFunc, MainInv, Typed
  <2> QED BY <1>1, <2>1, <2>2 DEF InBatch, Queued, WithWorker
<1>7. CASE MainRead
  <2>1. /\ mfd \in Fds /\ ReadStep(mfd) /\ mpc = "in" /\ g \in dropped
        /\ UNCHANGED <<interest, queue, wfd, batch, mfd>>
    BY <1>7, Whereabouts DEF MainRead, Read, ReadStep, HasFdPcs, workerVars
  <2>2. sock'[g].conn = sock[g].conn
    BY <1>0, <2>1, ReadTyped DEF MainInv
  <2> QED BY <1>1, <2>1, <2>2 DEF MainHolds, InBatch, Queued, WithWorker
<1>8. CASE MainWrite
  <2>1. /\ mfd \in Fds /\ WriteStep(mfd) /\ mpc = "out" /\ g \in dropped
        /\ UNCHANGED <<queue, wfd, batch, mfd>>
    BY <1>8, Whereabouts DEF MainWrite, Write, WriteAll, WriteSome, WriteStep,
                             HasFdPcs, workerVars
  <2>2. sock'[g].conn = sock[g].conn
    BY <1>0, <2>1, WriteTyped DEF MainInv
  <2>3. g # mfd
    BY <1>0, <2>1 DEF MainHolds
  <2>4. interest'[g] = interest[g]
    BY <1>0, <1>8, <2>1, <2>3
    DEF MainWrite, Write, WriteAll, WriteSome, Modfd, MainInv, Typed
  <2> QED BY <1>1, <2>1, <2>2, <2>3, <2>4 DEF MainHolds, InBatch, Queued, WithWorker
<1>9. CASE Increase
  <2>1. /\ mfd \in Fds /\ mpc = "increase" /\ mpc' = "next" /\ IsOpen(mfd)
        /\ UNCHANGED <<sock, interest, wfd, batch, mfd>>
    BY <1>9, Whereabouts DEF Increase, HasFdPcs, workerVars
  <2>2. CASE g = mfd /\ dropped' # dropped
    <3>1. queue' = queue /\ interest[g] = "off" /\ MainHolds(g)
      BY <1>9, <2>1, <2>2 DEF Increase, Enqueue, Exclusive, MainHolds
    <3>2. ~InBatch(g) /\ ~Queued(g) /\ ~WithWorker(g)
      BY <2>1, <2>2, <3>1 DEF Exclusive
    <3> QED
      BY <2>1, <2>2, <3>1, <3>2
      DEF IsOpen, Somewhere, Armed, MainHolds, InBatch, Queued, WithWorker
  <2>3. CASE g # mfd \/ dropped' = dropped
    <3>1. g \in dropped
      BY <1>9, <2>3 DEF Increase, Enqueue
    <3>2. g # mfd
      BY <1>0, <2>1, <3>1 DEF MainHolds
    <3>3. Queued(g)' => Queued(g)
      <4>1. queue' = queue \/ queue' = Append(queue, mfd)
        BY <1>9 DEF Increase, Enqueue
      <4>2. queue \in Seq(Fds)
        BY DEF MainInv, Typed
      <4>3. \A i \in 1 .. Len(Append(queue, mfd)) :
              Append(queue, mfd)[i] = g => i \in 1 .. Len(queue) /\ queue[i] = g
        BY <2>1, <3>2, <4>2
      <4> QED BY <4>1, <4>3 DEF Queued
    <3> QED BY <1>1, <2>1, <3>1, <3>2, <3>3 DEF MainHolds, InBatch, WithWorker
  <2> QED BY <2>2, <2>3
<1>10. CASE IncreaseState \/ Spin \/ Settle
  BY <1>10 DEF IncreaseState, Spin, Settle, Exclusive
<1>11. ASSUME NEW w \in Workers, WorkerStep(w) PROVE Goal
  <2>0. sock'[g].conn = sock[g].conn /\ UNCHANGED <<dropped, mpc, mfd, batch>>
    <3>1. CASE WorkerReadOrWrite(w) \/ SetImprov(w) \/ SetTimerFlag(w)
      BY <3>1 DEF WorkerReadOrWrite, SetImprov, SetTimerFlag, Exclusive
    <3>2. CASE Take(w) \/ Parse(w) \/ Respond(w)
      BY <3>2 DEF Take, Parse, Respond, mainVars
    <3> QED BY <1>11, <3>1, <3>2 DEF WorkerStep
  <2>1. CASE WorkerReadOrWrite(w) \/ SetImprov(w) \/ SetTimerFlag(w)
    BY <2>1 DEF WorkerReadOrWrite, SetImprov, SetTimerFlag, Exclusive
  <2>2. CASE Parse(w)
    <3>1. UNCHANGED <<interest, queue, wfd>>
      BY <2>2 DEF Parse
    <3> QED BY <1>1, <2>0, <3>1 DEF MainHolds, InBatch, Queued, WithWorker
  <2>3. CASE Take(w)
    <3>1. /\ queue \in Seq(Fds) /\ queue # <<>> /\ queue' = Tail(queue)
          /\ wfd' = [wfd EXCEPT ![w] = Head(queue)]
          /\ UNCHANGED interest
      BY <2>3 DEF Take, MainInv, Typed
    <3>2. \A i \in 1 .. Len(Tail(queue)) :
            i + 1 \in 1 .. Len(queue) /\ Tail(queue)[i] = queue[i + 1]
      BY <3>1
    <3>3. Queued(g)' => Queued(g)
      BY <3>1, <3>2 DEF Queued
    <3>4. 1 \in 1 .. Len(queue) /\ Head(queue) = queue[1]
      BY <3>1
    <3>5. WithWorker(g)' => WithWorker(g) \/ Queued(g)
      BY <3>1, <3>4 DEF WithWorker, Queued, MainInv, Typed
    <3> QED BY <1>1, <2>0, <3>1, <3>3, <3>5 DEF MainHolds, InBatch
  <2>4. CASE Respond(w)
    <3>1. /\ wfd[w] \in Fds /\ queue' = queue
          /\ wfd' = [wfd EXCEPT ![w] = NoFd]
      BY <2>4, Whereabouts DEF Respond, WIdle
    <3>2. g \in dropped /\ g \in Fds /\ g # wfd[w]
      BY <1>0, <2>0 DEF WithWorker
    <3>3. interest'[g] = interest[g]
      BY <2>4, <3>1, <3>2 DEF Respond, Modfd, MainInv, Typed
    <3>4. WithWorker(g)' => WithWorker(g)
      BY <3>1, <3>2, DispatchAssumption DEF WithWorker, MainInv, Typed
    <3> QED BY <1>1, <2>0, <3>1, <3>2, <3>3, <3>4 DEF InBatch, MainHolds, Queued
  <2> QED BY <1>11, <2>1, <2>2, <2>3, <2>4 DEF WorkerStep
<1> QED
  BY <1>2, <1>3, <1>4, <1>5, <1>6, <1>7, <1>8, <1>9, <1>10, <1>11
  DEF Next, MainStep

LEMMA PlacedStep ==
  ASSUME ActorModel = "proactor"
  PROVE  MainInv /\ Exclusive /\ Placed /\ [Next]_vars => Placed'
BY OpenSomewhere, DroppedNowhere DEF Placed

(* In the proactor model an open connection is in exactly one place, a     *)
(* closed one in none: no connection is worked on by two threads, and none *)
(* is forgotten with its one-shot event spent, except in one way: its      *)
(* request found the queue full, for increase() is not asked whether it    *)
(* took the request (http_conn.cpp:125-140, my_web.cpp:536-548,            *)
(* threadpool.h:149-162, 232-239).                                         *)
THEOREM ConnectionsHaveOneHolder ==
  ASSUME ActorModel = "proactor"
  PROVE  Spec => []OneHolder
<1> DEFINE Inv == ProactorInv /\ ClientsCounted /\ Placed
<1>1. Init => Placed
  BY DEF Init, Placed, IsOpen, Closed, NoConn
<1>2. ProactorInv /\ Placed /\ [Next]_vars => Placed'
  BY PlacedStep DEF ProactorInv
<1>3. Inv => OneHolder
  <2> SUFFICES ASSUME Inv, NEW fd \in Fds
               PROVE  Cardinality(Holders(fd)) =
                        IF IsOpen(fd) /\ fd \notin dropped THEN 1 ELSE 0
    BY ProactorTypeOK DEF OneHolder
  <2>1. CASE IsOpen(fd) /\ fd \notin dropped
    <3>1. PICK h : Holders(fd) = {h}
      BY <2>1, HoldersOfPlace DEF Placed, Somewhere, ProactorInv
    <3>2. Cardinality({h}) = 1
      BY FS_Singleton
    <3> QED BY <2>1, <3>1, <3>2
  <2>2. CASE ~IsOpen(fd) \/ fd \in dropped
    <3>1. ~Somewhere(fd)
      BY <2>2, ClosedNowhere DEF Placed, Somewhere, ProactorInv
    <3>2. Holders(fd) = {}
      BY <3>1, HoldersOfPlace DEF Somewhere, ProactorInv
    <3> QED BY <2>2, <3>2, FS_EmptySet
  <2> QED BY <2>1, <2>2
<1>4. ProactorInv /\ [Next]_vars => ProactorInv'
  BY ProactorStep
<1> QED BY <1>1, <1>2, <1>3, <1>4, ProactorInit, ClientsAreCounted, PTL DEF Spec

-----------------------------------------------------------------------------
(* The listening socket.  In ET mode the accept loop must run until the    *)
(* backlog is empty; it stops early only at a limit.                       *)
RoomToAccept == TrigModel = "ET" /\ backlog > 0 => ~Busy /\ FreeFds # {}

LEMMA BacklogStep ==
  MainInv /\ RoomToAccept /\ BacklogSeen /\ [Next]_vars => BacklogSeen'
<1> SUFFICES ASSUME MainInv, RoomToAccept, BacklogSeen, [Next]_vars
             PROVE  BacklogSeen'
  OBVIOUS
<1> DEFINE listen == Event(NoFd, "listen")
<1>0. backlog \in Nat
  BY DEF MainInv, Typed
<1>1. CASE TrigModel # "ET"
  BY <1>1 DEF BacklogSeen, ListenReady
<1>2. CASE TrigModel = "ET" /\ Connect
  BY <1>2 DEF Connect, BacklogSeen, ListenReady
<1>3. ASSUME TrigModel = "ET", UNCHANGED <<backlog, edge, batch>>,
             mpc # "accept" \/ mpc' = "accept"
      PROVE  BacklogSeen'
  BY <1>3 DEF BacklogSeen, ListenReady
<1>4. CASE TrigModel = "ET" /\ EpollWait
  <2>1. batch = {} /\ mpc = "wait" /\ backlog' = backlog
    BY <1>4 DEF EpollWait, MainInv, Custody
  <2>2. edge => listen \in batch'
    BY <1>4 DEF EpollWait, ListenReady
  <2> QED BY <1>4, <2>1, <2>2 DEF BacklogSeen, ListenReady
<1>5. CASE TrigModel = "ET" /\ TakeEvent
  <2>1. mpc = "next" /\ UNCHANGED <<backlog, edge>>
    BY <1>5 DEF TakeEvent, clientVars
  <2>2. listen \in batch => listen \in batch' \/ mpc' = "accept"
    <3> SUFFICES ASSUME listen \in batch PROVE listen \in batch' \/ mpc' = "accept"
      OBVIOUS
    <3>1. PICK e \in batch :
            /\ batch' = batch \ {e}
            /\ e.kind = "listen" => mpc' = "accept"
      BY <1>5 DEF TakeEvent
    <3>2. e # listen \/ e.kind = "listen"
      BY DEF Event
    <3> QED BY <3>1, <3>2
  <2> QED BY <1>5, <2>1, <2>2 DEF BacklogSeen, ListenReady
<1>6. CASE TrigModel = "ET" /\ Accept
  <2>1. CASE NoAccept
    <3>1. backlog = 0 /\ backlog' = 0
      BY <1>0, <1>6, <2>1 DEF NoAccept, RoomToAccept
    <3> QED BY <3>1 DEF BacklogSeen
  <2>2. CASE backlog > 0 /\ AcceptBusy
    BY <1>6, <2>2 DEF AcceptBusy, RoomToAccept
  <2>3. CASE backlog > 0 /\ AcceptClient
    BY <1>6, <2>3 DEF AcceptClient, BacklogSeen
  <2> QED BY <1>6, <2>1, <2>2, <2>3 DEF Accept
<1>7. ASSUME TrigModel = "ET", NEW fd \in Fds, Send(fd) \/ Hangup(fd) \/ Drain(fd)
      PROVE  BacklogSeen'
  BY <1>3, <1>7 DEF Send, Hangup, Drain, ClientOnly, clientVars, mainVars
<1>8. CASE /\ TrigModel = "ET"
           /\ \/ Close \/ MainRead \/ MainWrite \/ Increase \/ IncreaseState
              \/ Spin \/ Settle
  <2>1. mpc # "accept" /\ UNCHANGED <<backlog, edge, batch>>
    BY <1>8 DEF Close, MainRead, MainWrite, Increase, IncreaseState, Spin,
                Settle, clientVars
  <2> QED BY <1>3, <1>8, <2>1
<1>9. ASSUME TrigModel = "ET", NEW w \in Workers, WorkerStep(w)
      PROVE  BacklogSeen'
  <2>1. UNCHANGED <<backlog, edge, batch, mpc>>
    BY <1>9 DEF WorkerStep, Take, WorkerReadOrWrite, SetImprov, SetTimerFlag,
                Parse, Respond, clientVars, mainVars
  <2> QED BY <1>3, <1>9, <2>1
<1>10. CASE TrigModel = "ET" /\ UNCHANGED vars
  BY <1>3, <1>10 DEF vars, clientVars, mainVars
<1> QED
  BY <1>1, <1>2, <1>4, <1>5, <1>6, <1>7, <1>8, <1>9, <1>10
  DEF Next, Client, MainStep

LEMMA BacklogInit == Init => BacklogSeen
BY DEF Init, BacklogSeen

(* "In ET mode, loop" (my_web.cpp:399): as long as the server is not at a  *)
(* limit while clients wait to be accepted, the main thread is going to    *)
(* look at the listening socket whenever one waits.  At the limit it may   *)
(* not, as MCDispatchBusyET.cfg shows.                                     *)
THEOREM BacklogSeenWithRoom == Spec /\ []RoomToAccept => []BacklogSeen
BY BacklogInit, BacklogStep, MainInit, MainStepKeeps, PTL DEF Spec
=============================================================================
