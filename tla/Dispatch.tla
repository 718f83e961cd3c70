------------------------------ MODULE Dispatch ------------------------------
(***************************************************************************)
(* The event loop of my_web.cpp and its worker threads: how a connection   *)
(* travels between epoll, the main thread, the request queue and a worker. *)
(* Sockets are registered with EPOLLONESHOT, so an event disarms them      *)
(* until somebody calls epoll_modfd.  In the proactor model the main       *)
(* thread reads and writes and a worker runs process(); in the reactor     *)
(* model a worker does all three and the main thread spins on improv.      *)
(*                                                                         *)
(* A request is Pieces pieces of data, a response Parts of them.  What a   *)
(* request contains is one of a few kinds, told apart by what the server   *)
(* does with it.  The pool is the FIFO that ThreadPool implements.  The    *)
(* idle timers are not here.                                               *)
(***************************************************************************)
EXTENDS Naturals, Sequences, FiniteSets

CONSTANTS
  Fds,         \* descriptor numbers of the clients served; a client that is
               \* refused is given another number, for a moment
  Workers,     \* threads of the pool
  ActorModel,  \* m_actor_model: "reactor" (0) or "proactor" (1)
  TrigModel,   \* m_trig_model: "LT" (0) or "ET" (1)
  MAX_FD,      \* most clients served at a time
  MaxQueue,    \* capacity of the request queue
  MaxConns,    \* bound of the model: clients that connect in a behaviour
  Pieces,      \* arrivals a request is split into
  Parts,       \* writev calls a response may need
  Requests,    \* kinds of request the clients send, see Length below
  NoFd         \* no descriptor

ASSUME DispatchAssumption ==
  /\ IsFiniteSet(Fds) /\ IsFiniteSet(Workers)
  /\ NoFd \notin Fds
  /\ ActorModel \in {"reactor", "proactor"}
  /\ TrigModel \in {"LT", "ET"}
  /\ {MAX_FD, MaxQueue, Pieces, Parts} \subseteq Nat \ {0}
  /\ MaxConns \in Nat
  /\ Requests \subseteq {"plain", "missing", "body", "bad", "long"}
  /\ Requests # {}

VARIABLES
  backlog,         \* connections that wait for accept()
  edge,            \* the listening socket has an event not yet delivered
  conns,           \* clients that have connected so far
  accepted,        \* connections accepted so far, the last one's stamp
  sock,            \* per descriptor, the socket and the client behind it
  interest,        \* per descriptor, what epoll is armed for
  users,           \* per descriptor, the my_http_conn object
  m_client_number, \* counter of clients
  queue,           \* the request queue of the pool
  dropped,         \* history: connections whose request found the queue full
  wpc, wfd, wret,  \* per worker: where it is, its connection, its result
  mpc, mfd,        \* the main thread: where it is, its connection
  batch            \* events returned by epoll_wait and not handled yet

clientVars == <<backlog, edge, conns>>
workerVars == <<wpc, wfd, wret>>
mainVars == <<mpc, mfd, batch>>
queueVars == <<queue, dropped>>
vars == <<clientVars, accepted, sock, interest, users, m_client_number,
          queueVars, workerVars, mainVars>>

NoConn == 0

(* The kinds of request.  "plain" is well formed, shorter than the read    *)
(* buffer and asks for a file there is, wherever it is cut into pieces;    *)
(* "missing" asks for one there is not; "body" is cut inside its body, by  *)
(* its last cut; "bad" is malformed; "long" has filled the read buffer     *)
(* after Pieces pieces and goes on for one more.                           *)
Length(kind) == IF kind = "long" THEN Pieces + 1 ELSE Pieces

Closed == [conn |-> NoConn, inbox |-> 0, sent |-> 0, kind |-> "none",
           gone |-> FALSE, full |-> FALSE, last |-> FALSE]

(* my_http_conn::init(), the fields that matter between threads.  cut is   *)
(* set when m_check_idx has moved into a body that is not whole, and bad   *)
(* when the response is one whose length does not fit m_write_idx.         *)
InitUser(stamp) ==
  [conn |-> stamp, buf |-> 0, cut |-> FALSE, out |-> NoConn, left |-> 0,
   bad |-> FALSE, linger |-> FALSE, improv |-> 0, timer_flag |-> 0,
   m_state |-> 0]

IsOpen(fd) == sock[fd].conn # NoConn

Init ==
  /\ backlog = 0 /\ edge = FALSE /\ conns = 0 /\ accepted = 0
  /\ sock = [fd \in Fds |-> Closed]
  /\ interest = [fd \in Fds |-> "off"]
  /\ users = [fd \in Fds |-> InitUser(NoConn)]
  /\ m_client_number = 0
  /\ queue = <<>> /\ dropped = {}
  /\ wpc = [w \in Workers |-> "idle"]
  /\ wfd = [w \in Workers |-> NoFd]
  /\ wret = [w \in Workers |-> NoConn]
  /\ mpc = "wait" /\ mfd = NoFd /\ batch = {}

-----------------------------------------------------------------------------
(* The clients.  A client sends a request piece by piece, reads the answer *)
(* and may send another, unless the answer closes the connection; it may   *)
(* hang up at any time.                                                    *)
Connect ==
  /\ conns < MaxConns
  /\ conns' = conns + 1
  /\ backlog' = backlog + 1
  /\ edge' = (TrigModel = "ET")
  /\ UNCHANGED <<accepted, sock, interest, users, m_client_number, queueVars,
                 workerVars, mainVars>>

ClientOnly(fd, s) ==
  /\ IsOpen(fd)
  /\ sock' = [sock EXCEPT ![fd] = s]
  /\ UNCHANGED <<clientVars, accepted, interest, users, m_client_number,
                 queueVars, workerVars, mainVars>>

Send(fd) ==
  LET s == sock[fd] IN
  /\ ~s.gone /\ ~s.last
  /\ \E k \in IF s.kind = "none" THEN Requests ELSE {s.kind} :
       /\ s.sent < Length(k)
       /\ ClientOnly(fd, [s EXCEPT !.kind = k, !.sent = @ + 1,
                                  !.inbox = @ + 1])

Hangup(fd) == ~sock[fd].gone /\ ClientOnly(fd, [sock[fd] EXCEPT !.gone = TRUE])

Drain(fd) == sock[fd].full /\ ClientOnly(fd, [sock[fd] EXCEPT !.full = FALSE])

-----------------------------------------------------------------------------
(* epoll_modfd: arm the descriptor again, for one event.  It has no effect *)
(* on a descriptor that is closed.                                         *)
Modfd(fd, ev) ==
  interest' = IF IsOpen(fd) THEN [interest EXCEPT ![fd] = ev] ELSE interest

SetUser(fd, u) == users' = [users EXCEPT ![fd] = u]

(* read(): what has arrived and fits.  It fails when the buffer is full    *)
(* already, or when there is nothing to read.  In ET mode the loop goes on *)
(* until there is nothing left, so that it fails when the client has hung  *)
(* up, whatever has been read, and when the buffer has just become full:   *)
(* recv() with no room left returns 0 like at the end of the stream.       *)
Taken(fd) == IF sock[fd].inbox <= Pieces - users[fd].buf
             THEN sock[fd].inbox ELSE Pieces - users[fd].buf

Fills(fd) == sock[fd].kind = "long" /\ users[fd].buf + Taken(fd) = Pieces

ReadFailsOnEagain(fd) ==
  \/ ~IsOpen(fd)
  \/ TrigModel = "ET"
  \/ Taken(fd) = 0

ReadFails(fd) ==
  \/ ~IsOpen(fd)
  \/ TrigModel = "LT" /\ Taken(fd) = 0
  \/ TrigModel = "ET" /\ (sock[fd].gone \/ Fills(fd))

Read(fd, Ok, Fail) ==
  /\ SetUser(fd, [users[fd] EXCEPT !.buf = @ + Taken(fd)])
  /\ sock' = [sock EXCEPT ![fd].inbox = @ - Taken(fd)]
  /\ IF ReadFails(fd) THEN Fail ELSE Ok

(* write(): writev until the response is out or the socket is full.  The   *)
(* socket is armed before the object is reset for the next request.  It    *)
(* fails when the client has hung up, and for a length that is no length.  *)
WriteAll(fd, Ok, Fail) ==
  LET u == users[fd] IN
  /\ Modfd(fd, "in")
  /\ sock' = [sock EXCEPT ![fd] = [@ EXCEPT !.sent = 0, !.kind = "none",
                                           !.last = ~u.linger]]
  /\ SetUser(fd, IF u.linger THEN InitUser(u.conn) ELSE [u EXCEPT !.left = 0])
  /\ IF u.linger THEN Ok ELSE Fail

WriteSome(fd, Ok) ==
  /\ \E k \in 1 .. users[fd].left - 1 :
       SetUser(fd, [users[fd] EXCEPT !.left = @ - k])
  /\ sock' = [sock EXCEPT ![fd].full = TRUE]
  /\ Modfd(fd, "out")
  /\ Ok

Write(fd, Ok, Fail) ==
  IF users[fd].left = 0
  THEN /\ Modfd(fd, "in")
       /\ SetUser(fd, InitUser(users[fd].conn))
       /\ Ok
       /\ UNCHANGED sock
  ELSE \/ /\ ~IsOpen(fd) \/ sock[fd].gone \/ users[fd].bad
          /\ Fail /\ UNCHANGED <<interest, users, sock>>
       \/ /\ IsOpen(fd) /\ ~users[fd].bad
          /\ WriteAll(fd, Ok, Fail) \/ WriteSome(fd, Ok)

-----------------------------------------------------------------------------
(* epoll_wait: all events that are ready, which disarms their descriptors. *)
Event(fd, kind) == [fd |-> fd, kind |-> kind]

ReadyKindNoRdhup(fd) ==
  LET s == sock[fd] IN
  CASE interest[fd] = "in" /\ s.inbox > 0 -> "in"
    [] interest[fd] = "out" /\ ~s.full -> "out"
    [] OTHER -> "none"

ReadyKind(fd) ==
  LET s == sock[fd] IN
  CASE interest[fd] = "off" -> "none"
    [] interest[fd] # "off" /\ s.gone -> "hup"
    [] interest[fd] = "in" /\ ~s.gone /\ s.inbox > 0 -> "in"
    [] interest[fd] = "out" /\ ~s.gone /\ ~s.full -> "out"
    [] OTHER -> "none"

ReadyFds == {fd \in Fds : ReadyKind(fd) # "none"}

ListenReady == IF TrigModel = "ET" THEN edge ELSE backlog > 0

EpollWaitNoOneshot ==
  /\ mpc = "wait"
  /\ ReadyFds # {} \/ ListenReady
  /\ batch' = {Event(fd, ReadyKind(fd)) : fd \in ReadyFds}
                \cup (IF ListenReady THEN {Event(NoFd, "listen")} ELSE {})
  /\ edge' = FALSE
  /\ mpc' = "next"
  /\ UNCHANGED <<backlog, conns, accepted, sock, interest, users,
                 m_client_number, queueVars, workerVars, mfd>>

EpollWait ==
  /\ mpc = "wait"
  /\ ReadyFds # {} \/ ListenReady
  /\ batch' = {Event(fd, ReadyKind(fd)) : fd \in ReadyFds}
                \cup (IF ListenReady THEN {Event(NoFd, "listen")} ELSE {})
  /\ interest' = [fd \in Fds |-> IF fd \in ReadyFds THEN "off"
                                                    ELSE interest[fd]]
  /\ edge' = FALSE
  /\ mpc' = "next"
  /\ UNCHANGED <<backlog, conns, accepted, sock, users, m_client_number,
                 queueVars, workerVars, mfd>>

(* main_loop takes the events one after the other and looks for a hang-up  *)
(* first.                                                                  *)
TakeEvent ==
  /\ mpc = "next"
  /\ IF batch = {}
     THEN mpc' = "wait" /\ mfd' = NoFd /\ UNCHANGED batch
     ELSE \E e \in batch :
            /\ batch' = batch \ {e}
            /\ mfd' = e.fd
            /\ mpc' = CASE e.kind = "listen" -> "accept"
                        [] e.kind = "hup" -> "close"
                        [] OTHER -> IF ActorModel = "reactor"
                                    THEN IF e.kind = "in" THEN "increase_read"
                                                          ELSE "increase_write"
                                    ELSE e.kind
  /\ UNCHANGED <<clientVars, accepted, sock, interest, users, m_client_number,
                 queueVars, workerVars>>

-----------------------------------------------------------------------------
(* accept_client and client_init.  In ET mode accept() is repeated until   *)
(* it fails; a client too many is told so and ends the loop.               *)
FreeFds == {fd \in Fds : ~IsOpen(fd)}

Busy == m_client_number >= MAX_FD

AcceptBusyEarly ==
  /\ Busy
  /\ mpc' = "next"
  /\ UNCHANGED <<backlog, accepted, sock, interest, users, m_client_number>>

NoAccept ==
  /\ backlog = 0 \/ (FreeFds = {} /\ ~Busy)
  /\ mpc' = "next"
  /\ UNCHANGED <<backlog, accepted, sock, interest, users, m_client_number>>

AcceptBusy ==
  /\ Busy
  /\ backlog' = backlog - 1
  /\ mpc' = "next"
  /\ UNCHANGED <<accepted, sock, interest, users, m_client_number>>

ClientInitStale(fd) ==
  /\ sock' = [sock EXCEPT ![fd] = [Closed EXCEPT !.conn = accepted + 1]]
  /\ interest' = [interest EXCEPT ![fd] = "in"]
  /\ m_client_number' = m_client_number + 1
  /\ SetUser(fd, [users[fd] EXCEPT !.conn = accepted + 1])

ClientInit(fd) ==
  /\ sock' = [sock EXCEPT ![fd] = [Closed EXCEPT !.conn = accepted + 1]]
  /\ interest' = [interest EXCEPT ![fd] = "in"]
  /\ SetUser(fd, InitUser(accepted + 1))
  /\ m_client_number' = m_client_number + 1

AcceptOnce ==
  /\ ~Busy
  /\ backlog' = backlog - 1
  /\ accepted' = accepted + 1
  /\ \E fd \in FreeFds : ClientInit(fd)
  /\ mpc' = "next"

AcceptClient ==
  /\ ~Busy
  /\ backlog' = backlog - 1
  /\ accepted' = accepted + 1
  /\ \E fd \in FreeFds : ClientInit(fd)
  /\ mpc' = IF TrigModel = "ET" THEN "accept" ELSE "next"

Accept ==
  /\ mpc = "accept"
  /\ \/ NoAccept
     \/ backlog > 0 /\ (AcceptBusy \/ AcceptClient)
  /\ UNCHANGED <<edge, conns, queueVars, workerVars, mfd, batch>>

-----------------------------------------------------------------------------
(* deal_timer: the call back of the connection's timer, which takes the    *)
(* socket out of epoll, closes it and counts the client out.               *)
CbFuncUncounted(fd) ==
  /\ sock' = [sock EXCEPT ![fd] = Closed]
  /\ interest' = [interest EXCEPT ![fd] = "off"]
  /\ dropped' = dropped \ {fd}
  /\ UNCHANGED m_client_number

CbFunc(fd) ==
  /\ sock' = [sock EXCEPT ![fd] = Closed]
  /\ interest' = [interest EXCEPT ![fd] = "off"]
  /\ dropped' = dropped \ {fd}
  /\ m_client_number' = m_client_number - 1

Close ==
  /\ mpc = "close"
  /\ CbFunc(mfd)
  /\ mpc' = "next"
  /\ UNCHANGED <<clientVars, accepted, users, queue, workerVars, mfd, batch>>

(* read_thing and write_thing of the proactor model.                       *)
MainRead ==
  /\ mpc = "in"
  /\ Read(mfd, mpc' = "increase", mpc' = "close")
  /\ UNCHANGED <<clientVars, accepted, interest, m_client_number, queueVars,
                 workerVars, mfd, batch>>

MainWrite ==
  /\ mpc = "out"
  /\ Write(mfd, mpc' = "next", mpc' = "close")
  /\ UNCHANGED <<clientVars, accepted, m_client_number, queueVars, workerVars,
                 mfd, batch>>

(* increase(): the result is not looked at.  The reactor's form also tells *)
(* the worker what to do, through m_state of the connection.               *)
Enqueue(fd) ==
  IF Len(queue) >= MaxQueue
  THEN dropped' = dropped \cup {fd} /\ UNCHANGED queue
  ELSE queue' = Append(queue, fd) /\ UNCHANGED dropped

Increase ==
  /\ mpc = "increase"
  /\ Enqueue(mfd)
  /\ mpc' = "next"
  /\ UNCHANGED <<clientVars, accepted, sock, interest, users,
                 m_client_number, workerVars, mfd, batch>>

IncreaseState ==
  /\ mpc \in {"increase_read", "increase_write"}
  /\ Enqueue(mfd)
  /\ IF Len(queue) >= MaxQueue
     THEN UNCHANGED users
     ELSE SetUser(mfd, [users[mfd] EXCEPT !.m_state =
                          IF mpc = "increase_read" THEN 0 ELSE 1])
  /\ mpc' = "spin"
  /\ UNCHANGED <<clientVars, accepted, sock, interest, m_client_number,
                 workerVars, mfd, batch>>

(* The reactor's main thread spins until improv is set, then looks at      *)
(* timer_flag.                                                             *)
SpinBlind ==
  /\ mpc = "spin"
  /\ mpc' = "settle"
  /\ UNCHANGED <<clientVars, accepted, sock, interest, users,
                 m_client_number, queueVars, workerVars, mfd, batch>>

Spin ==
  /\ mpc = "spin"
  /\ users[mfd].improv = 1
  /\ mpc' = "settle"
  /\ UNCHANGED <<clientVars, accepted, sock, interest, users,
                 m_client_number, queueVars, workerVars, mfd, batch>>

Settle ==
  /\ mpc = "settle"
  /\ IF users[mfd].timer_flag = 1
     THEN CbFunc(mfd)
     ELSE UNCHANGED <<sock, interest, m_client_number, dropped>>
  /\ SetUser(mfd, [users[mfd] EXCEPT !.improv = 0, !.timer_flag = 0])
  /\ mpc' = "next"
  /\ UNCHANGED <<clientVars, accepted, queue, workerVars, mfd, batch>>

-----------------------------------------------------------------------------
(* run(): a worker.                                                        *)
WGoto(w, label) == wpc' = [wpc EXCEPT ![w] = label]

WIdle(w) == WGoto(w, "idle") /\ wfd' = [wfd EXCEPT ![w] = NoFd]

Take(w) ==
  /\ wpc[w] = "idle"
  /\ queue # <<>>
  /\ wfd' = [wfd EXCEPT ![w] = Head(queue)]
  /\ queue' = Tail(queue)
  /\ WGoto(w, IF ActorModel = "reactor" THEN "state" ELSE "parse")
  /\ UNCHANGED <<clientVars, accepted, sock, interest, users,
                 m_client_number, dropped, wret, mainVars>>

WorkerReadOrWrite(w) ==
  LET fd == wfd[w] IN
  /\ wpc[w] = "state"
  /\ IF users[fd].m_state = 0
     THEN Read(fd, WGoto(w, "improv_parse"), WGoto(w, "improv_flag"))
            /\ UNCHANGED interest
     ELSE Write(fd, WGoto(w, "improv_done"), WGoto(w, "improv_flag"))
  /\ UNCHANGED <<clientVars, accepted, m_client_number, queueVars, wfd, wret,
                 mainVars>>

SetImprovOnSuccess(w) ==
  /\ wpc[w] \in {"improv_parse", "improv_flag", "improv_done"}
  /\ IF wpc[w] = "improv_flag"
     THEN UNCHANGED users
     ELSE SetUser(wfd[w], [users[wfd[w]] EXCEPT !.improv = 1])
  /\ CASE wpc[w] = "improv_parse" -> WGoto(w, "parse") /\ UNCHANGED wfd
       [] wpc[w] = "improv_flag" -> WGoto(w, "flag") /\ UNCHANGED wfd
       [] wpc[w] = "improv_done" -> WIdle(w)
  /\ UNCHANGED <<clientVars, accepted, sock, interest, m_client_number,
                 queueVars, wret, mainVars>>

SetImprov(w) ==
  /\ wpc[w] \in {"improv_parse", "improv_flag", "improv_done"}
  /\ SetUser(wfd[w], [users[wfd[w]] EXCEPT !.improv = 1])
  /\ CASE wpc[w] = "improv_parse" -> WGoto(w, "parse") /\ UNCHANGED wfd
       [] wpc[w] = "improv_flag" -> WGoto(w, "flag") /\ UNCHANGED wfd
       [] wpc[w] = "improv_done" -> WIdle(w)
  /\ UNCHANGED <<clientVars, accepted, sock, interest, m_client_number,
                 queueVars, wret, mainVars>>

SetTimerFlag(w) ==
  /\ wpc[w] = "flag"
  /\ SetUser(wfd[w], [users[wfd[w]] EXCEPT !.timer_flag = 1])
  /\ WIdle(w)
  /\ UNCHANGED <<clientVars, accepted, sock, interest, m_client_number,
                 queueVars, wret, mainVars>>

(* process(): process_read looks for a whole request in the buffer and     *)
(* for the file it names.  A missing file is not told from a request that  *)
(* is not all there.  A malformed request is found out with any piece of   *)
(* it.  When the part of a body that is there has been gone through, the   *)
(* end of the body is looked for beyond it.                                *)
Incomplete(w, u, kind) ==
  /\ u.buf < Pieces \/ kind = "long" \/ u.cut
  /\ SetUser(wfd[w], [u EXCEPT !.cut = @ \/ (kind = "body" /\
                                               u.buf = Pieces - 1)])
  /\ wret' = [wret EXCEPT ![w] = NoConn]

Reject(w, u, kind) ==
  /\ kind = "bad"
  /\ SetUser(wfd[w], [u EXCEPT !.bad = TRUE])
  /\ wret' = [wret EXCEPT ![w] = u.conn]

Found(w, u, kind) ==
  /\ u.buf = Pieces /\ kind \notin {"long", "bad"} /\ ~u.cut
  /\ \E l \in BOOLEAN : SetUser(wfd[w], [u EXCEPT !.linger = l])
  /\ wret' = [wret EXCEPT ![w] = IF kind = "missing" THEN NoConn ELSE u.conn]

Parse(w) ==
  LET u == users[wfd[w]]  kind == sock[wfd[w]].kind IN
  /\ wpc[w] = "parse"
  /\ Incomplete(w, u, kind) \/ Reject(w, u, kind) \/ Found(w, u, kind)
  /\ WGoto(w, "respond")
  /\ UNCHANGED <<clientVars, accepted, sock, interest, m_client_number,
                 queueVars, wfd, mainVars>>

(* ... and process_write prepares the response.  Arming is the last step.  *)
RespondUnarmed(w) ==
  LET fd == wfd[w] IN
  /\ wpc[w] = "respond"
  /\ IF wret[w] = NoConn
     THEN UNCHANGED <<interest, users>>
     ELSE /\ Modfd(fd, "out")
          /\ SetUser(fd, [users[fd] EXCEPT !.out = wret[w], !.left = Parts])
  /\ wret' = [wret EXCEPT ![w] = NoConn]
  /\ WIdle(w)
  /\ UNCHANGED <<clientVars, accepted, sock, m_client_number, queueVars,
                 mainVars>>

Respond(w) ==
  LET fd == wfd[w] IN
  /\ wpc[w] = "respond"
  /\ IF wret[w] = NoConn
     THEN Modfd(fd, "in") /\ UNCHANGED users
     ELSE /\ Modfd(fd, "out")
          /\ SetUser(fd, [users[fd] EXCEPT !.out = wret[w], !.left = Parts])
  /\ wret' = [wret EXCEPT ![w] = NoConn]
  /\ WIdle(w)
  /\ UNCHANGED <<clientVars, accepted, sock, m_client_number, queueVars,
                 mainVars>>

-----------------------------------------------------------------------------
Client == Connect \/ \E fd \in Fds : Send(fd) \/ Hangup(fd) \/ Drain(fd)

MainStep ==
  \/ EpollWait \/ TakeEvent \/ Accept \/ Close
  \/ MainRead \/ MainWrite \/ Increase
  \/ IncreaseState \/ Spin \/ Settle

WorkerStep(w) ==
  \/ Take(w) \/ WorkerReadOrWrite(w) \/ SetImprov(w) \/ SetTimerFlag(w)
  \/ Parse(w) \/ Respond(w)

Next == Client \/ MainStep \/ \E w \in Workers : WorkerStep(w)

Spec == Init /\ [][Next]_vars

(* The main thread and the workers run when they can, and a client reads   *)
(* what it is sent.  Clients need not send or hang up.                     *)
Fairness ==
  /\ WF_vars(MainStep)
  /\ \A w \in Workers : WF_vars(WorkerStep(w))
  /\ \A fd \in Fds : WF_vars(Drain(fd))

FairSpec == Spec /\ Fairness

-----------------------------------------------------------------------------
Events == {"hup", "in", "out", "listen"}

TypeOK ==
  /\ backlog \in 0 .. MaxConns /\ conns \in 0 .. MaxConns
  /\ accepted \in 0 .. MaxConns /\ edge \in BOOLEAN
  /\ sock \in [Fds -> [conn : 0 .. MaxConns, inbox : 0 .. Pieces + 1,
                       sent : 0 .. Pieces + 1, kind : Requests \cup {"none"},
                       gone : BOOLEAN, full : BOOLEAN, last : BOOLEAN]]
  /\ interest \in [Fds -> {"off", "in", "out"}]
  /\ \A fd \in Fds : users[fd] \in
       [conn : 0 .. MaxConns, buf : 0 .. Pieces, cut : BOOLEAN,
        out : 0 .. MaxConns, left : 0 .. Parts, bad : BOOLEAN,
        linger : BOOLEAN, improv : {0, 1}, timer_flag : {0, 1},
        m_state : {0, 1}]
  /\ m_client_number \in Nat
  /\ queue \in Seq(Fds) /\ dropped \subseteq Fds
  /\ wfd \in [Workers -> Fds \cup {NoFd}]
  /\ wret \in [Workers -> 0 .. MaxConns]
  /\ mfd \in Fds \cup {NoFd}
  /\ batch \subseteq [fd : Fds \cup {NoFd}, kind : Events]

(* Who will look at a descriptor next: epoll, an event not handled yet,    *)
(* the main thread, the request queue or a worker.  A descriptor that is   *)
(* armed while the main thread is about to close it is the main thread's.  *)
MainHolds(fd) == mfd = fd /\ mpc \in {"close", "in", "out", "increase"}

Holders(fd) ==
  {<<"epoll", ev>> : ev \in IF MainHolds(fd) THEN {}
                                             ELSE {interest[fd]} \ {"off"}}
    \cup {<<"event", e>> : e \in {e \in batch : e.fd = fd}}
    \cup {<<"main", pc>> : pc \in IF MainHolds(fd) THEN {mpc} ELSE {}}
    \cup {<<"queue", i>> : i \in {i \in 1 .. Len(queue) : queue[i] = fd}}
    \cup {<<"worker", w>> : w \in {w \in Workers : wfd[w] = fd}}

(* In the proactor model an open connection is always in exactly one place *)
(* and a closed one in none: two threads never work on one my_http_conn,   *)
(* and a connection is forgotten with its one-shot event spent only when   *)
(* its request finds the queue full (http_conn.cpp:125-140, my_web.cpp:    *)
(* 536-548, threadpool.h:149-162, 232-239).                                *)
OneHolder ==
  /\ TypeOK
  /\ \A fd \in Fds :
       Cardinality(Holders(fd)) = IF IsOpen(fd) /\ fd \notin dropped THEN 1
                                                                    ELSE 0

(* The response in a connection's buffers was made for the client that     *)
(* holds the connection now, although descriptor and object are used again *)
(* for later clients (my_web.cpp:325, http_conn.cpp:217-236).              *)
OutMatches ==
  \A fd \in Fds :
    IsOpen(fd) /\ users[fd].left > 0 => users[fd].out = sock[fd].conn

(* m_client_number is the number of open connections and never exceeds     *)
(* MAX_FD, whoever closes them (http_conn.cpp:168, my_web.cpp:415).        *)
ClientsCounted ==
  /\ m_client_number = Cardinality({fd \in Fds : IsOpen(fd)})
  /\ m_client_number <= MAX_FD

(* "In ET mode, loop" (my_web.cpp:399): when a client waits to be accepted *)
(* the main thread is going to look at the listening socket.               *)
BacklogSeen ==
  backlog > 0 =>
    ListenReady \/ mpc = "accept" \/ Event(NoFd, "listen") \in batch

(* ... and the queue of the listening socket is emptied, by accepting the  *)
(* clients or by refusing them (my_web.cpp:396-443).                       *)
BacklogDrains == (backlog > 0) ~> (backlog = 0)

(* A client is never cut off, except for what it has done itself: it hung  *)
(* up, was told in its last response that the connection would be closed   *)
(* (my_web.cpp:547, 615), sent more than the read buffer holds (read()     *)
(* fails, http_conn.cpp:241, 275-279) or sent a malformed request, whose   *)
(* answer cannot be sent (writev fails, http_conn.cpp:831-834).            *)
Refused(s) == s.kind = "bad" \/ (s.kind = "long" /\ s.sent >= Pieces)

NoAbruptClose ==
  [][\A fd \in Fds :
       IsOpen(fd) /\ ~IsOpen(fd)' =>
         sock[fd].gone \/ sock[fd].last \/ Refused(sock[fd])]_vars

(* A client that has sent a whole request gets its answer, on the very     *)
(* connection it sent it on, unless it hangs up first or the queue is full *)
(* when its data has come: "the task is given to the request queue, and    *)
(* the queue gives it to a worker to process" (my_web.cpp:496-497).        *)
Asked(c) ==
  \E fd \in Fds :
    sock[fd].conn = c /\ sock[fd].kind = "plain" /\ sock[fd].sent = Pieces

Served(c) ==
  \E fd \in Fds :
    sock[fd].conn = c /\ (sock[fd].sent = 0 \/ sock[fd].gone \/ fd \in dropped)

RequestAnswered == \A c \in 1 .. MaxConns : Asked(c) ~> Served(c)

(* The connection of a client that hung up is closed, and its descriptor   *)
(* free again, unless its request was dropped (my_web.cpp:654-680).        *)
HangupCloses ==
  \A fd \in Fds : sock[fd].gone ~> (~IsOpen(fd) \/ fd \in dropped)

(* The reactor's main thread waits for each request it queues, so that the *)
(* queue is never full and a request never dropped, however small          *)
(* m_max_queue_number is (my_web.cpp:514-532).                             *)
AtMostOneQueued == ActorModel = "reactor" => Len(queue) <= 1

(* ... and the wait ends: improv is set once for every request, and not    *)
(* cleared again by anybody else before it is seen (threadpool.h:201-231). *)
SpinEnds == (mpc = "spin") ~> (mpc = "next")

(* "If complete and timed out, exit" (http_conn.h:118-120): a connection   *)
(* whose read or write failed in a worker is closed by the main thread.    *)
FailedConnectionCloses ==
  \A w \in Workers, fd \in Fds :
    (wpc[w] = "improv_flag" /\ wfd[w] = fd) ~> ~IsOpen(fd)
=============================================================================
