----------------------------- MODULE IdleTimer -----------------------------
(***************************************************************************)
(* The event loop of my_web.cpp seen from its timers: the alarm, the       *)
(* signals that come through a pipe, time_handler(), and the heap_timer    *)
(* each connection has.  A timer that reads and writes have moved is added *)
(* to the heap again, without being taken out first.                       *)
(*                                                                         *)
(* What a read or a write does is in Dispatch: here a handler is told by   *)
(* how often it adjusts the timer and whether it closes.  A timer deleted  *)
(* while another cell of the heap points to it is undefined behaviour at   *)
(* the next look at that cell; no behaviour is followed past the deletion. *)
(***************************************************************************)
EXTENDS TimeHeap, FiniteSets

CONSTANTS
  Fds,         \* descriptors of clients
  TIMESLOT,    \* seconds between two ticks
  ActorModel,  \* "proactor" or "reactor"
  Prompt,      \* whether time passes only while the loop has nothing to do
  MaxHeap      \* bound: no client is served if the heap may grow beyond it

ASSUME IdleAssumption ==
  /\ TIMESLOT \in Nat \ {0} /\ Delays = {3 * TIMESLOT}
  /\ Fds \intersect {"listen", "pipe"} = {}
  /\ ActorModel \in {"proactor", "reactor"}
  /\ Prompt \in BOOLEAN /\ MaxHeap \in Nat

VARIABLES
  users_timer,    \* timer of each descriptor
  user_data,      \* descriptor of each timer
  open,           \* descriptors that are open
  active,         \* when each of them was last accepted, read or written
  batch,          \* events of epoll_wait still to be handled
  m_timeout, m_stop_server,
  alarm_at,       \* when SIGALRM comes; 0 for never
  pipe,           \* signals sent to m_pipefd
  pc              \* where main_loop is

conn == <<users_timer, user_data, open, active>>
loop == <<batch, m_timeout, m_stop_server, alarm_at, pipe, pc>>
ivars == <<vars, conn, loop>>

IdleInit ==
  /\ Init
  /\ users_timer = [fd \in Fds |-> NULL]
  /\ user_data = [t \in Timers |-> NULL]
  /\ open = {} /\ active = [fd \in Fds |-> 0]
  /\ batch = {} /\ pipe = {} /\ pc = "wait"
  /\ m_timeout = FALSE /\ m_stop_server = FALSE
  /\ alarm_at = Epoch + TIMESLOT

-----------------------------------------------------------------------------
(* sig_handler(), for the alarm that is due and for SIGTERM.               *)
SigAlrm ==
  /\ pc # "undefined"
  /\ alarm_at # 0 /\ alarm_at <= now
  /\ alarm_at' = 0
  /\ pipe' = pipe \union {"SIGALRM"}
  /\ UNCHANGED <<vars, conn, batch, m_timeout, m_stop_server, pc>>

SigTerm ==
  /\ pc # "undefined"
  /\ "SIGTERM" \notin pipe /\ ~m_stop_server
  /\ pipe' = pipe \union {"SIGTERM"}
  /\ UNCHANGED <<vars, conn, batch, m_timeout, m_stop_server, alarm_at, pc>>

(* epoll_wait(): any of the clients, and the pipe when a signal is in it.  *)
EpollWait ==
  /\ pc = "wait"
  /\ \E ready \in SUBSET (open \union {"listen"}) :
       /\ ready # {} => cur_size + 2 * Cardinality(Fds) <= MaxHeap
       /\ batch' = ready \union {p \in {"pipe"} : pipe # {}}
  /\ batch' # {}
  /\ pc' = "events"
  /\ UNCHANGED <<vars, conn, m_timeout, m_stop_server, alarm_at, pipe>>

(* client_init(), once or more for one event of the listening socket.      *)
ClientInit(t, fd) ==
  /\ pc = "events" /\ "listen" \in batch
  /\ fd \notin open
  /\ add_timer(t, 3 * TIMESLOT)
  /\ users_timer' = [users_timer EXCEPT ![fd] = t]
  /\ user_data' = [user_data EXCEPT ![t] = fd]
  /\ open' = open \union {fd}
  /\ active' = [active EXCEPT ![fd] = now]
  /\ UNCHANGED loop

AcceptEnds ==
  /\ pc = "events" /\ "listen" \in batch
  /\ batch' = batch \ {"listen"}
  /\ UNCHANGED <<vars, conn, m_timeout, m_stop_server, alarm_at, pipe, pc>>

(* adjust_timer(), n times in one handler.                                 *)
AdjustAddsOnly(t, n) ==
  /\ SetHeap(CASE n = 0 -> Heap
               [] n = 1 -> Add(Heap, t, expire)
               [] n = 2 -> Add(Add(Heap, t, expire), t, expire))
  /\ UNCHANGED expire

Adjust(t, n) ==
  LET later == [expire EXCEPT ![t] = now + 3 * TIMESLOT] IN
  /\ expire' = IF n = 0 THEN expire ELSE later
  /\ SetHeap(CASE n = 0 -> Heap
               [] n = 1 -> Add(Heap, t, later)
               [] n = 2 -> Add(Add(Heap, t, later), t, later))

(* deal_timer(): the callback runs, and the timer loses it.                *)
DealTimerKeepsCallback(fd) == open' = open \ {fd} /\ UNCHANGED cb_func

DealTimer(fd) ==
  /\ open' = open \ {fd}
  /\ cb_func' = cb_func \ {users_timer[fd]}

(* How often the handlers adjust the timer when they keep the connection,  *)
(* and when they close it: read_thing(), write_thing(), an error event.    *)
Keeps == IF ActorModel = "proactor" THEN {1, 2} ELSE {2}

Closes == IF ActorModel = "proactor" THEN {0, 1} ELSE {0, 2}

Handled(fd) ==
  /\ pc = "events" /\ fd \in batch
  /\ batch' = batch \ {fd}
  /\ UNCHANGED <<now, cur, ran, deleted, users_timer, user_data, m_timeout,
                 m_stop_server, alarm_at, pipe, pc>>

ReadOrWrite(fd) ==
  /\ Handled(fd)
  /\ \E n \in Keeps : Adjust(users_timer[fd], n)
  /\ active' = [active EXCEPT ![fd] = now]
  /\ UNCHANGED <<cb_func, open>>

ReadOrWriteFails(fd) ==
  /\ Handled(fd)
  /\ \E n \in Closes : Adjust(users_timer[fd], n)
  /\ DealTimer(fd)
  /\ UNCHANGED active

(* time_siganl(): every signal that is in the pipe.                        *)
TimeSiganlFirst ==
  /\ pc = "events" /\ "pipe" \in batch
  /\ \E sig \in pipe :
       /\ m_timeout' = (m_timeout \/ sig = "SIGALRM")
       /\ m_stop_server' = (m_stop_server \/ sig = "SIGTERM")
  /\ batch' = batch \ {"pipe"} /\ pipe' = {}
  /\ UNCHANGED <<vars, conn, alarm_at, pc>>

TimeSiganl ==
  /\ pc = "events" /\ "pipe" \in batch
  /\ m_timeout' = (m_timeout \/ "SIGALRM" \in pipe)
  /\ m_stop_server' = (m_stop_server \/ "SIGTERM" \in pipe)
  /\ batch' = batch \ {"pipe"} /\ pipe' = {}
  /\ UNCHANGED <<vars, conn, alarm_at, pc>>

(* The events are done: time_handler() if the alarm came, else the test    *)
(* of m_stop_server.                                                       *)
LoopOn == IF m_stop_server THEN "stopped" ELSE "wait"

EventsDone ==
  /\ pc = "events" /\ batch = {} /\ ~m_timeout
  /\ pc' = LoopOn
  /\ UNCHANGED <<vars, conn, batch, m_timeout, m_stop_server, alarm_at, pipe>>

HandlerStart ==
  /\ pc = "events" /\ batch = {} /\ m_timeout
  /\ TickStart
  /\ pc' = "tick"
  /\ UNCHANGED <<conn, batch, m_timeout, m_stop_server, alarm_at, pipe>>

(* tick(): the callback of the top closes its connection.                  *)
HandlerPop ==
  /\ pc = "tick"
  /\ TickPop
  /\ open' = open \ {user_data[t] : t \in {array[0]} \intersect cb_func}
  /\ pc' = IF array[0] \in {array[i] : i \in 1 .. cur_size - 1} THEN "undefined" ELSE pc
  /\ UNCHANGED <<users_timer, user_data, active,
                 batch, m_timeout, m_stop_server, alarm_at, pipe>>

(* The alarm is set again: alarm() takes a number of seconds, and is given *)
(* the time at which the top is due.                                       *)
NextAlarmOnlyForTimers == IF empty THEN 0 ELSE now + expire[array[0]]

NextAlarm == now + (IF empty THEN TIMESLOT ELSE expire[array[0]])

HandlerEnd ==
  /\ pc = "tick"
  /\ TickEnd
  /\ alarm_at' = NextAlarm
  /\ m_timeout' = FALSE
  /\ pc' = LoopOn
  /\ UNCHANGED <<conn, batch, m_stop_server, pipe>>

(* Time passes, when Prompt only while the loop waits with no signal.      *)
Pass ==
  /\ pc \notin {"undefined", "stopped"}
  /\ Prompt => pc = "wait" /\ pipe = {} /\ (alarm_at = 0 \/ now < alarm_at)
  /\ Clock
  /\ UNCHANGED <<conn, loop>>

MainStep ==
  \/ EpollWait \/ AcceptEnds \/ TimeSiganl
  \/ \E t \in Timers, fd \in Fds : ClientInit(t, fd)
  \/ \E fd \in Fds : ReadOrWrite(fd) \/ ReadOrWriteFails(fd)
  \/ EventsDone \/ HandlerStart \/ HandlerPop \/ HandlerEnd

IdleNext == MainStep \/ SigAlrm \/ SigTerm \/ Pass

(* The main thread keeps running, time passes and the kernel delivers the  *)
(* alarm; nothing is owed by the clients or by whoever sends SIGTERM.      *)
IdleSpec ==
  IdleInit /\ [][IdleNext]_ivars
  /\ WF_ivars(MainStep) /\ WF_ivars(SigAlrm) /\ WF_ivars(Pass)

-----------------------------------------------------------------------------
IdleTypeOK ==
  /\ TypeOK
  /\ users_timer \in [Fds -> Timers \union {NULL}]
  /\ user_data \in [Timers -> Fds \union {NULL}]
  /\ open \subseteq Fds
  /\ active \in [Fds -> {0} \union Epoch .. MaxTime]
  /\ batch \subseteq Fds \union {"listen", "pipe"}
  /\ m_timeout \in BOOLEAN /\ m_stop_server \in BOOLEAN
  /\ alarm_at \in Nat
  /\ pipe \subseteq {"SIGALRM", "SIGTERM"}
  /\ pc \in {"wait", "events", "tick", "stopped", "undefined"}

(* The timers in the heap that would close something are those of the      *)
(* connections that are open, one each: a timer left over from an earlier  *)
(* client of a descriptor does not close the one that has it now, no       *)
(* connection is without its timer, and none is given a timer that was     *)
(* deleted (my_web.cpp:321-343, 381-393; min_heap.cpp:99-107, 153-159).    *)
StaleTimersSilent ==
  /\ IdleTypeOK
  /\ pc # "undefined" =>
       /\ InHeap \intersect cb_func = {users_timer[fd] : fd \in open}
       /\ \A fd \in open : user_data[users_timer[fd]] = fd

(* tick() closes a connection only when it was neither accepted nor read   *)
(* nor written in the last three slots, although the heap is out of order  *)
(* once a timer in it has been moved (my_web.cpp:123-133, 356-366).        *)
TickClosesOnlyIdle ==
  [][\A fd \in open : pc = "tick" /\ fd \notin open'
        => active[fd] + 3 * TIMESLOT <= now]_ivars

(* There is always exactly one alarm on its way, set, in the pipe or       *)
(* noticed: the chain of ticks neither breaks nor doubles                  *)
(* (my_web.cpp:102-120, 312, 446-491, 705-710).                            *)
OneAlarm ==
  pc # "undefined" =>
    Cardinality({x \in {"set", "sent", "noticed"} :
      \/ x = "set" /\ alarm_at # 0
      \/ x = "sent" /\ "SIGALRM" \in pipe
      \/ x = "noticed" /\ m_timeout}) = 1

(* SIGTERM ends the loop, whatever the clients and the alarm do meanwhile  *)
(* (my_web.cpp:480-486, 631, 705-710).                                     *)
TermStops == "SIGTERM" \in pipe ~> pc \in {"stopped", "undefined"}

(* A connection that is idle for twice the time allowed is closed, when    *)
(* the loop is not held up: "the timer's callback deletes the events       *)
(* registered for an inactive connection and closes it" (my_web.cpp:122).  *)
(* The code breaks it.                                                     *)
IdleClientClosed == \A fd \in open : now < active[fd] + 6 * TIMESLOT

(* No timer is deleted while another cell of the heap points to it.  The   *)
(* code breaks it: adjust_timer() adds the timer once more                 *)
(* (my_web.cpp:360-361).                                                   *)
NoTimerDeletedTwice == pc # "undefined"

(* The heap is not larger than two timers for each descriptor.  The code   *)
(* breaks it: every read and write adds a cell (my_web.cpp:361).           *)
HeapStaysSmall == cur_size <= 2 * Cardinality(Fds)
=============================================================================
