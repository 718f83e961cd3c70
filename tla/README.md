# my_web: a TLA+ model of the server

`my_web` is a C++ web server for Linux: one main thread runs an epoll loop, a
pool of detached worker threads parses requests and prepares responses, a pool
of MySQL connections serves login and registration, a heap of timers is meant
to close idle connections, and a logger writes lines directly or through a
blocking queue. All paths below are under `src/my_web/`.

## 1. The system

| component | state | operations | talks to |
|---|---|---|---|
| request queue and workers (`threadpool/threadpool.h`, `locker/locker.h`) | list of pointers to connection objects, a mutex, a semaphore, `m_stop` | `increase` (two forms), `run`, constructor, destructor | main thread puts, workers take and call `process`, `read`, `write` |
| database connections (`sql_conn/sql_conn.cpp`) | free list, counters, mutex, semaphore `reserve` | `init`, `GetConnection`, `ReleaseConnection`, `DestroyPool`, `connectionRAII` | workers, for as long as they run `process` |
| event loop (`my_web.cpp`) | epoll set, signal pipe, `users[]`, `users_timer[]`, `m_timeout`, `m_stop_server` | `main_loop`, `accept_client`, `read_thing`, `write_thing`, `time_siganl`, `time_handler`, `deal_timer` | kernel, pool, connection objects, timers |
| connection (`http_conn/http_conn.cpp`) | read and write buffers and indexes, parser state, iovecs, `improv`, `timer_flag`, `m_state`; shared by all: `m_client_number`, `users`, `lru` | `init`, `read`, `process_read`, `do_request`, `process_write`, `write`, `close_conn` | socket, epoll, database, files |
| timers (`timer/min_heap.cpp`, `my_web.cpp`) | array of timer pointers, size, capacity; the timer of each descriptor, the alarm | `add_timer`, `del_timer`, `pop_timer`, `tick`; `client_init`, `adjust_timer`, `deal_timer`, `time_handler` | `cb_func` closes the connection |
| login cache (`LRU/LRU.h`) | list and hash map | `get`, `put` | `do_request` |
| accounts (`do_request`) | map of users, table `user` | load, log in, register | workers, database |
| log (`log/log.cpp`, `log/block_queue.h`) | file, line counter, bounded queue | `write_log`, `flush`, `push`, `pop` | every thread |
| sorted timer list (`timer/lis_timer.cpp`) | doubly linked list | add, adjust, delete, tick | not used any more |

What is hard here:

* **Hand-over without locks.** A connection object is used by the main thread
  and by workers with no lock of its own. Only `EPOLLONESHOT` and the order of
  the steps keep two threads off it; a path that forgets `epoll_modfd` loses the
  connection for good.
- **Two flags without order.** In the reactor model a worker reports back
  through `improv` and `timer_flag`, two plain integers.
- **Limits.** The request queue, `MAX_FD`, the number of database connections,
  a signed 8-bit length, buffers of fixed size.
- **Fragmentation.** A request arrives in any number of pieces and a response
  leaves in any number of `writev` calls.
- **Reuse.** Descriptors, connection objects and timers are used again for
  later clients.
- **Shared data of the workers.** `users`, `lru` and the database, which outlives a
  crash while the other two do not.
- **One log for all threads.** A line is counted, formatted and written in three
  critical sections, between which other threads may change the file.
- **Timers that move.** Every read and write changes the time of a timer that is
  in the heap, and adds it once more.

## 2. Modules

| module | models | extends or instantiates |
|---|---|---|
| `JobQueue` | what the pool promises: a bounded FIFO whose requests each run once | |
| `ThreadPool` | `increase` and `run` step by step, mutex and semaphore | `JobQueue` (refinement) |
| `ThreadPoolProofs` | theorems about `ThreadPool` | `ThreadPool` |
| `SqlPool` | `GetConnection`, `ReleaseConnection`, `DestroyPool` | |
| `SqlPoolProofs` | theorems about `SqlPool` | `SqlPool` |
| `Dispatch` | the event loop, connections and workers together | the FIFO of `JobQueue` as one step |
| `DispatchProofs` | theorems about `Dispatch` | `Dispatch` |
| `RequestParser` | `read`, `process_read`, `parse_...` of one request | |
| `RequestParserProofs` | theorems about `RequestParser` | `RequestParser` |
| `HttpResponse` | `process_write`, `add_...`, `write`, `unmap` of one connection object | |
| `HttpResponseProofs` | theorems about `HttpResponse` | `HttpResponse` |
| `TimerQueue` | what a container of timers promises | |
| `TimeHeap` | `time_heap`: array, sifting, growth, lazy deletion, `tick` | `TimerQueue` (refinement) |
| `IdleTimer` | the loop of `my_web.cpp` seen from the timers: alarm, signals, `time_handler`, `adjust_timer`, `deal_timer` | `TimeHeap`, whose operations it calls |
| `TimerProofs` | theorems about `TimeHeap` and `IdleTimer` | `IdleTimer` |
| `BoundedQueue` | what `block_queue` promises: a bounded FIFO | |
| `BlockQueue` | the ring, its mutex and its condition variable | `BoundedQueue` (refinement) |
| `Log` | `write_log`, `flush`, the flusher thread, rotation | `BlockQueue`, whose operations it calls |
| `LogProofs` | theorems about `BlockQueue` and `Log` | `Log` |
| `Cache` | what a least-recently-used cache promises | |
| `LRUCache` | `LRUCache`: map and doubly linked list | `Cache` (refinement) |
| `Accounts` | login, registration, home page, loading of the users, restarts | `LRUCache`, whose operations it calls |
| `AccountsProofs` | theorems about `LRUCache` and `Accounts` | `Accounts` |

Each `MC...` module extends one of these and is what the `.cfg` files run.

### How state and actions correspond to the code

**ThreadPool.** A thread's `pc` is where it stands in `increase()` or `run()`.
`LockQueue` is `m_queuemutex.lock()`, enabled only while the mutex is free.
`Call`, `Refuse`, `Admit`, `Push`, `Post` are `increase()` in order; the size test
and the `push_back` are separate steps under the same mutex and the post of
`m_queuestart` comes after the unlock, as in the code. `Loop`, `Wait`, `Front`,
`Pop`, `Run` are `run()`. `Destroy` is the destructor, which sets `m_stop` and
joins nobody. The two forms of `increase` differ only in `m_state`, which
`Dispatch` has.

**SqlPool.** `Ask` reads `connList.size()` with no lock and returns NULL on an
empty list; `Wait`, `Lock`, `Front`, `Pop` follow; `Release`, `Push`, `Post` give the
connection back, in the order of `ReleaseConnection`. `DestroyPool` runs in the
main thread at any time: workers are detached and are not stopped first.

**Dispatch.** A descriptor has a socket (`sock`: client, data waiting, hung up,
send buffer full), what epoll is armed for (`interest`) and a connection object
(`users`). `EpollWait` takes all ready descriptors as one batch and disarms
them, which is `EPOLLONESHOT`. `TakeEvent` dispatches one event in the order of
the `if`s of `main_loop`: listen, error or hang-up, read, write. `Accept` is one
turn of `accept_client()`; `AcceptBusy` closes a client too many. `MainRead`,
`MainWrite`, `Increase` are the proactor branch, `IncreaseState`, `Spin`, `Settle`
the reactor branch, where the main thread spins on `improv`. Workers `Take` a
request, read or write (`WorkerReadOrWrite`), set `improv` and `timer_flag` in two
steps in the order of the code (`SetImprov`, `SetTimerFlag`), and run `process()`
(`Parse`, `Respond`). A request is a number of pieces and a response a number
of parts, detailed by the next two modules. What the server does with a request
depends on its kind (`Requests`): well formed, for a file that is missing (no
answer, `http_conn.cpp:718`), with a body that comes in two pieces (never whole,
520), malformed (its 400 response cannot be sent, 831-834) or longer than the read
buffer (`read()` fails, 241 and 275-279). `dropped` records the connections whose
request found the queue full; nobody looks at them again.

**RequestParser.** The buffer is a sequence of cells: a request line, a header,
CR, LF, a part of the body. Indexes count cells as the code counts bytes.
`Read(k)` is one `recv`, or in ET mode the loop of them; `parse_line` is a function
that returns the status, the new `m_check_idx` and the buffer with its line
ends overwritten. `LineNotOk`, `ParseRequestLine`, `ParseHeader`, `EndOfHeaders`,
`ParseContent` are the turns of the loop in `process_read()`. `WithDefaultPage` is
the `strcat` for the URL `/`.

**HttpResponse.** The write buffer is modelled byte by byte with the lengths
the code prints, because `m_write_idx` is a `char`; `Char` wraps at 127. A mapped
file is a few cells. `Process` is `process_write()` with every `add_...` call;
`Writev(temp)` is one turn of the loop in `write()`; `MoveIovs` is its bookkeeping;
`WriteAgain` is EAGAIN and `WriteFails` every other error. `ErrorEvent` is the error
branch of `main_loop`, which closes without `unmap()`, and `NewClient` hands the
object, its old `m_file_address` included, to the next client. The 404 and 500
responses are left out: no path of `process()` produces them.

**TimeHeap.** `array`, `capacity`, `cur_size` are those of the class. Sifting up
and down are recursive functions over the hole. `tick()` reads the clock once
(`TickStart`) and then takes one timer per step (`TickPop`, which contains the
callback and `pop_timer()`). `del_timer` clears the callback and leaves the timer
where it is. Timers are numbered in the order of their creation.

**IdleTimer.** `SigAlrm` and `SigTerm` are `sig_handler()`: the signal goes into the
pipe. `EpollWait` takes any clients that are ready, and the pipe when a signal
is in it. `ClientInit` is `client_init()` with `add_timer`; `ReadOrWrite` and
`ReadOrWriteFails` are what `read_thing()`, `write_thing()` and an error event do to the
timer: `Adjust(t, n)` is `adjust_timer()` called n times, `Keeps` and `Closes` say how
often in each actor model, `DealTimer` is `deal_timer()`. `TimeSiganl` reads all signals
of the pipe. After the events `HandlerStart`, `HandlerPop`, `HandlerEnd` are
`time_handler()`, with `tick()` of `TimeHeap` and the next alarm. When a timer is deleted
while another cell of the heap points to it the model stops (`pc = "undefined"`):
what the code does then is undefined.

**BlockQueue.** The ring has the indexes of the code, -1 at first. Each operation
holds the mutex throughout and is one step; `Pop` on an empty queue goes to
`pthread_cond_wait` (`cond`), is woken by `Broadcast` or spuriously, and tests again.
`Contents` is the window of the ring that is mapped to `items` of `BoundedQueue`.

**Log.** A line is its writer and a number. `Gettimeofday`, `Localtime` and `CopyTm` are
the clock, the buffer that `localtime()` shares between threads, and the copy of it,
three steps with midnight and other writers between them; `Count`, `Format` and `WriteLine` are the three
critical sections of `write_log()`; `PushLine` is `push()`, after the `is_full()` in `Format`;
`Flush` is the `flush()` of the macros. `files` holds what was `fputs`ed under each file
name by this process, `unflushed` how much of the open one is still in the stream's
buffer. `Midnight` changes the day.

**LRUCache.** Nodes are numbers between the two sentinels, `link` has their `l` and `r`.
A node that was evicted is used again, which the code, that never frees it,
cannot tell apart. `call` is the last call with its key and its answer; `Cache` has it
too, so that an answer that belongs to another key is not one of `Cache`.

**Accounts.** A worker is at one call on `users`, the table or `lru`. `FindName`,
`InsertRow`, `InsertUser` are the three steps of a registration, in the order of the
code, with an INSERT that may fail. `Restart` is a crash and the next start, which
loads `users` from the table (`Load`); that a row stays in the table is what the
database promises. `m_locker` in `do_request` is a member of the
connection, which only one worker has at a time; it excludes nobody.

## 3. What the runs check

"Pass" runs hold; "violation" runs check one statement of the code's own
comments and find it broken.

| run | configuration | properties | shows |
|---|---|---|---|
| `threadpool` | `MCThreadPool.cfg`: 2 workers, 1 caller, 2 requests, queue of 2, 5 calls | `SemaphoreCountsRequests` `ImplementsJobQueue` `AcceptedRequestsRun` | no wake-up is lost or invented, the pool is the FIFO, accepted requests run |
| `sqlpool_short` | `MCSqlPoolShort.cfg`: 3 threads, 2 connections | `LentOnce` `CountersMatch` `FrontFindsConnection` `WaiterServed` | no connection is lent twice, `front()` never meets an empty list, waiters are served |
| `dispatch_proactor` | `MCDispatchProactor.cfg`: ET, 2 descriptors, 2 workers, a queue of 1 that overflows, requests well formed and malformed | `OneHolder` `OutMatches` `BacklogSeen` `NoAbruptClose` `RequestAnswered` `HangupCloses` | the configuration of `main.cpp`: only a full queue loses a connection, responses go to the right client, who is closed hung up, was told, or sent what the server cannot answer, and well formed requests are answered unless the queue was full |
| `dispatch_reactor` | `MCDispatchReactor.cfg`: reactor, LT, two clients served, three connect, queue of 2 | `AtMostOneQueued` `ClientsCounted` `SpinEnds` `BacklogDrains` | the main thread's wait ends and keeps the queue from filling; clients are counted, and those too many refused |
| `parser_cut` | `MCRequestParserCut.cfg`: up to 3 headers, body of 2, cut everywhere but in the body, LT and ET, buffer of 14 | `MeaningKept` `DataIsBody` `ClosedOnlyWhenFull` `RequestUnderstood` | the result does not depend on where the request is cut |
| `response_sent` | `MCHttpResponseSent.cfg`: 200, 403, 400, files of 0 to 2 cells, two responses, hang-ups | `SentIsPrefix` `ShortAnsweredInFull` `ResponseEnds` | any sequence of short writes, at most one of them in the header, sends exactly the response |
| `time_heap` | `MCTimeHeap.cfg`: 5 timers, capacity 1 at first | `WellFormed` `ImplementsTimerQueue` `TickLeavesNoneDue` | the heap is a queue of timers, through growth, lazy deletion and removal, and a tick leaves none that is due |
| `idle_timer` | `MCIdleTimer.cfg`: 2 descriptors, 3 connections, a slot of 1, a loop that is held up for any time | `StaleTimersSilent` `OneAlarm` `TickClosesOnlyIdle` `TermStops` | whatever the order of the heap, a tick closes only what is idle, and no timer of an earlier client closes a later one; one alarm at a time; SIGTERM stops the loop |
| `log` | `MCLog.cfg`: 2 writers with 2 lines each, split at 2 lines, queue of 2, 2 days, synchronous and asynchronous | `EachLineOnce` `OnDiskInOrder` `FileLimit` `QueuedLineWritten` `ImplementsBoundedQueue` | lines are written once, to disk and in order, in files close to the limit; no wake-up of the flusher is lost; the ring is a FIFO |
| `accounts` | `MCAccounts.cfg`: 2 workers, names and passwords, 3 addresses, cache of 2, 5 requests, 1 restart | `GrantedDurable` `GrantedCanLogIn` `SessionHasAccount` `ImplementsCache` | a registration that succeeded survives; sessions belong to accounts; list and map answer as one cache |
| `dispatch_timer_flag` | `MCDispatchFlag.cfg` | `FailedConnectionCloses` | violated, see 5 |
| `idle_timer_alarm` | `MCIdleTimerAlarm.cfg` | `IdleClientClosed` | violated, see 5 |

The type invariants are part of the properties that need them (`OneHolder`,
`MeaningKept`, `SentIsPrefix`, `WellFormed`, `StaleTimersSilent`, `EachLineOnce`,
`SessionHasAccount`), and are proved for the two pools and the queue, and with
those properties everywhere else.

### Bounds, and why they are enough

* `ThreadPool`: two workers race for one request and for the mutex; five calls
  fill a queue of two, make it refuse, and reuse both requests.
* `SqlPool`: one thread more than connections makes the semaphore reach 0 and the
  unlocked size test go stale; `MaxAsks` lets each thread borrow again.
* `Dispatch`: with two descriptors two clients are in different places at once;
  `MaxConns` two or three lets a descriptor be used again, and is bounded
  because each client has a stamp. Two pieces and two parts are one cut and one
  short write. `MAX_FD` of two with three clients reaches the limit and refuses.
  A queue of one overflows with two clients; in the reactor model it could hold
  two and never does. Two of the five kinds of request keep the liveness check
  within minutes; `MCDispatchRequests.cfg` has all five, for `OneHolder`,
  `OutMatches` and `NoAbruptClose`, and holds (1.5 million states), as the
  theorems about these three say for every set of kinds. `NoAbruptClose` is about
  the proactor model: in the reactor the `timer_flag` that was set too late (5)
  may close the next client of the descriptor.
* `RequestParser`: three headers put each kind before and after the others; 14
  cells are one more than the longest request with two headers, so that some
  requests just fit and those with three headers do not.
* `HttpResponse`: `HeaderCuts` are one byte, about half of each header, all but
  one of the shortest and of the longest. Two responses are needed for anything
  that an earlier one leaves behind. `HeaderPieces` is 1 because two such
  calls break the bookkeeping (5).
* `TimeHeap`: five timers are the least for which a removal sifts down two
  levels and chooses between siblings; a capacity of 1 grows three times.
* `IdleTimer`: the second of two descriptors is used while the first is adjusted,
  and a third connection takes a descriptor whose old timer is still in the
  heap. The clock runs from 10 to 14, the first timers are due at 13: late
  enough for a tick that meets timers that were moved and others that were not.
  `MaxHeap` 6 is two clients with two moves each. The violation needs time up to
  18, twice the time allowed.
* `Log`: two writers meet in every pair of critical sections; two lines each and a
  split at two make the file change between the count and the write of a line;
  four lines overfill the queue of two. Two days are one midnight. `FileLimit` allows
  three lines in a file of the synchronous log, which the run reaches, and six in
  one of the asynchronous log, which four lines cannot reach: there the theorem
  `FilesKeepLimit` says more than the run. The flusher waits and is woken in every
  order.
* `Accounts`: two workers register the same name at once, with the same or another
  password; three addresses push one out of a cache of two; five requests leave
  room for a registration, a login and a page of each.

In configurations with `CHECK_DEADLOCK FALSE` the model ends where its bounds end or
when no client acts; the server itself waits in `epoll_wait`.

### Fairness

Threads get to run: weak fairness of each worker and of the main thread, which
never yields a step it can take for ever. Weak fairness is enough for mutex and
semaphore, whose other users make finitely many calls within the bounds. Of
clients only this is assumed: one that does not hang up reads what it was sent
(`Drain`). None has to connect, send or hang up. `RequestParser` assumes in its
liveness property that the rest of a request arrives, since the property speaks
of such requests. `TimeHeap` assumes no fairness: nothing calls `tick()` again and
again (5), and what is said of a tick is said of its last step. `IdleTimer` assumes that the
main thread runs, that the kernel delivers an alarm that is due, and that time
passes; nobody has to send SIGTERM. `Log` assumes that a thread inside `write_log()`
goes on and that the flusher thread runs: the critical sections have no wait in
them, and the mutex is free again after each.

## 4. What is proved

The theorems of the `...Proofs` modules are checked by TLAPS for every value of
the constants that meets the named assumptions (`PoolAssumption`, `SqlAssumption`,
`DispatchAssumption`, `QueueAssumption`, `LogAssumption`, `AccountsAssumption`,
`CacheAssumption`, `HeapAssumption`, `IdleAssumption`, `ParserAssumption`,
`ResponseAssumption`): finite sets of threads, a
capacity of at least one, and special values that are not members of the sets.
TLC evaluates each assumption in a run. A theorem about one actor model or one
configuration says so in its hypotheses.

| module | theorems that state a property of a run |
|---|---|
| `ThreadPoolProofs` | `SemaphoreInvariant`, `PoolImplementsJobQueue` |
| `SqlPoolProofs` | `ConnectionsLentOnce`, `PoolCountersMatch`, `FrontNeverOnEmpty` |
| `DispatchProofs` | `ClientsAreCounted`, `ReactorQueuesOneAtATime`, `ConnectionsHaveOneHolder`, `ResponsesMatch`, `ClosesOnlyWithReason`, `BacklogSeenWithRoom` |
| `TimerProofs` | `HeapIsWellFormed`, `HeapImplementsTimerQueue`, `TickTakesAllDue`, `StaleTimersStaySilent`, `AlarmsNeitherLostNorDoubled`, `OnlyIdleClientsClosed` |
| `RequestParserProofs` | `CutsKeepTheMeaning`, `BodyIsHandedWhole`, `RefusedOnlyWhenFull` |
| `HttpResponseProofs` | `SentIsAlwaysPrefix`, `ShortIsAnsweredInFull` |
| `LogProofs` | `RingImplementsBoundedQueue`, `LogImplementsBoundedQueue`, `SynchronousLogOnDisk`, `LinesWrittenOnce`, `FilesKeepLimit` |
| `AccountsProofs` | `RegistrationDurable`, `RegisteredOnceCanLogIn`, `SessionsHaveAccounts`, `CacheImplemented` |

`ThreadPool`. The invariants of the runs are not inductive. `Inside` adds to the
type who holds the mutex at which point, that a thread past `front()` has a
request, and that what was read under the mutex (room left, the first element) is
still true at the next step. From it follow `TypeInvariant`,
`QueueNeverOverflows`, and the step simulation behind `PoolImplementsJobQueue`: `Push`
is `Accept`, `Pop` is `Start`, `Run` is `Finish`, all other steps stutter.
`SemaphoreInvariant` then shows by cases that semaphore value, woken workers and
callers about to post always add up to the queue, and `NoFalseWakeup` follows.

`SqlPool`. `Known` says what each thread knows at each point of its way through the
pool; `LentOnce` is inductive relative to it. `Accounts` counts: the semaphore with
those between `wait` and `pop_front` and between `push_back` and `post` equals
the list, and list and holders make `MaxConn`. `PoolCountersMatch` and
`FrontNeverOnEmpty` follow, both until the pool is destroyed.
`EnoughConnectionsNoNull` is proved only: with at least as many connections as
threads, as `main.cpp` configures it, nobody is handed NULL.

`Dispatch`, in three layers. `Custody` holds in both actor models: the main
thread works on open descriptors only and has one event of each, so that every
path that closes a connection closes an open one, and `ClientsAreCounted`. In the
reactor model `Handshake` says that of the requests given out at most one has not
been answered through `improv`, and that while there is one the main thread
spins on it: `ReactorQueuesOneAtATime`. In the proactor model `Exclusive` says that a
connection is in at most one place (armed in epoll, in the batch, with the main
thread, in the queue, with one worker), and `Flow` what each place knows of the
connection, which nobody else can change meanwhile: an event in the batch is
still true, a response belongs to the client that has the descriptor now.
`ResponsesMatch` and `ClosesOnlyWithReason` follow, the latter with what `read()` and
`write()` refuse: a request that has filled the buffer, and the response to a
malformed one. `Placed` says that an open connection is somewhere or was dropped,
and that one that was dropped is open and nowhere: every step that takes a
connection from one place puts it into another, closes it, or found the queue
full. With `Exclusive` it gives `ConnectionsHaveOneHolder`, for a queue of any length.
`BacklogSeen` is proved for as long as the server is not at a limit
(`BacklogSeenWithRoom`); at the limit it fails (`MCDispatchBusyET.cfg`).

`RequestParser`. The three properties speak of the end of parsing and of nothing on
the way. `WireIs` says what a request is cell by cell: lines of three cells, the
empty line, the body. `Conserved` counts: what is in the buffer and what is
still to come make the request, of which parsing overwrites cells and loses
none; a refusal for want of room then means a request as long as the buffer,
`RefusedOnlyWhenFull`, which holds for every request. `ParserInv` adds that the
cells from `m_start_line` on are still what was sent, that this index is the start
of line j, `m_check_idx` no further than its carriage return, and that `m_linger` and
`m_content_length` tell of the headers before line j (`HeaderAt`); in the body,
that both indexes are behind the empty line (`ContentAt`). `ScanLine` is the heart:
from there `parse_line()` either stops for want of data, in the same line, or
ends exactly this line, also when a piece ended between carriage return and
line feed; it never reports a bad line. One lemma for each action follows. In
`ParseContent` a body that is complete leaves `m_start_line` only one possible value.
`CutsKeepTheMeaning` and `BodyIsHandedWhole` have the hypothesis that nobody asks for
the URL `/`: there the code overwrites the headers (`MCRequestParserRoot.cfg`). They
hold for bodies in several pieces too. Then the request may never be understood
(`MCRequestParserBody.cfg`), but it is not misunderstood.

`HttpResponse`. A response is h cells of the write buffer and n of the file.
`ResponseInv` says that what the kernel has is its beginning and, by `Sending`, how
iovecs and counters stand after s cells: at the start, after the one call that may
end inside the header, and in the file, where the base of `m_iv[1]` is computed
from `bytes_have_send`. `BufferThenFile` shows that what `writev` is offered then is
the rest of the response, and `PrefixGrows` that taking any of it gives a longer
beginning: `SentIsAlwaysPrefix`. A length that has wrapped in the `char` is in
the invariant as well, as a length that `writev` refuses; h up to 127 gives
`ShortIsAnsweredInFull`. Both have the hypothesis that at most one `writev` per
response ends inside the header (`HeaderPieces <= 1`), since the second one breaks
the bookkeeping (`MCHttpResponsePieces.cfg`).

`TimeHeap`. Sifting is recursive, and the prover has no induction over recursive
functions. `UpwardExists` and `DownwardExists` show that the functions exist, and
`PercolateUpRises` and `PercolateDownSinks` what they do, each by looking at the
least index at which it would fail, which `NatLessThanWellFounded` provides.
`Risen` says that the timer has been put in at the hole or above it, that the
first cells hold what they held and the new timer, each once if they were
different, that the order of a heap is kept, and, which makes the argument go
through, that no cell on the way is due later than before. `Sunk` is its
mirror image for the way down. `Grown` and `Moved` keep what the callers need, with
`resize()` in between. The invariant `HeapInv` then gives `HeapIsWellFormed`;
`TopIsEarliest`, that the root of a heap is due first, makes a removal a `TakeOut`
of `TimerQueue`, `HeapImplementsTimerQueue`, and shows that when the root is not due no
timer is: `TickTakesAllDue`.

`IdleTimer`. Here a timer may be in several cells and the heap out of order, so that
only the part of `Risen` and `Sunk` about which timers are in the cells is of use.
`Matching` says that the timers in the heap that have a callback are exactly those
of the open connections, one each, and that none is due earlier than three
slots after the last use of its connection. It holds until a timer is deleted
twice. A timer that is new was never in the heap, one that is adjusted is in it
already, and `deal_timer()` takes away the callback together with the
connection. `StaleTimersStaySilent` follows, and `OnlyIdleClientsClosed`, for
which the order of the heap does not matter: whatever comes to the top has to be
due. `AlarmOnce` is inductive with what is known of `m_timeout` during a tick.

`BlockQueue`. `QueueInv` says that the ring is a window of `m_size` cells, each filled by
a push, that ends just before the cell the next push writes (`RingInvariant`); `%` is
replaced by a case distinction once and for all (`WrapIs`). With it `PushAppends`
shows that a push is an `Append` to the window, and `TakeIsHead` that each of the
three ways to pop takes its head, which is `RingImplementsBoundedQueue`. The timed pop
and `clear` are covered by the theorem, although the log calls neither.

`Log`. `LogStepIsQueueStep` shows that a step of the log is a step of the queue or leaves
it alone, so that the invariant and the simulation carry over:
`LogImplementsBoundedQueue`. `OnDiskInOrder` is not inductive: `DiskInv` adds `Older`, that
the lines a writer has in the files are older than the one it is writing.
`SynchronousLogOnDisk` follows. `EachLineOnce` speaks of the lines begun; `PlaceInv` adds
that any other line is nowhere. Each step takes one line from one kind of place
to one other (`WriterPlaces`, `QueuePlaces`, `FlusherPlaces`, `FilePlaces`, `LostPlaces`),
and the queue is followed through the ring by what is proved of `BlockQueue`:
`LinesWrittenOnce`. For `FileLimit`, `FirstDay` bounds what is written to the open
file or on its way there by the lines counted since it was opened and those
that were on their way then, and the latter by writers, queue and flusher:
`FilesKeepLimit`. It speaks of the first day, as `FileLimit` does; a midnight may
reopen a file.

`Accounts`. `GrantedDurable` and `GrantedCanLogIn` need to know what a registration under
way knows: `RegInv` says that, unless two registrations of the name met, the name
is not in `users` while one worker is between the test and the insertion (`Alone`),
that it has at most one row (`UniqueRow`), that a row's password is in `users` or
with the one worker that is about to put it there (`RowKnown`), and that a worker
whose INSERT succeeded has a row (`HasRow`). For the restart, `LoadFinds` shows that
loading the table finds the password of a name with one row. `RegistrationDurable`
needs no exception for races.

`LRUCache`. `Chain` names the order in which the pointers
`l` and `r` go through the nodes, `Ordered` says that there is one, and `Agrees` that the map
and the nodes have the same keys. `deletel()` cuts a node out of the order and
`reflash()` puts it in front (`ChainDelete`, `ChainPush`); `Entries`, which follows
the pointers by the recursive function `Nth`, is that order (`EntriesAre`). `GetStep` and
`PutStep`, with a case each for a key that is known, one that is new and one
that pushes out the oldest, show that the calls are those of `Cache`, for the same key and with the same answer:
`Agrees` leads from the key to its node, and `PlaceOfNewKey` says that a key the map
does not have is in no node of the list. `Accounts` makes the calls, and `CacheImplemented` is the theorem. `SessionHasAccount` is not
inductive: `Sessions` adds that a worker about to call `put` found the name in `users`,
and says of the nodes in use, rather than of the keys that lead to them, that
they hold names with an account: `SessionsHaveAccounts`.

Model-checked only: liveness, that is `AcceptedRequestsRun`, `WaiterServed`,
`RequestAnswered`, `HangupCloses`, `SpinEnds`, `BacklogDrains`, `RequestUnderstood`,
`ResponseEnds`, `TermStops` and `QueuedLineWritten`. Liveness and ENABLED
are out of the prover's reach; so is induction as such, which the least
counterexample replaces where indexes are numbers. All invariants, action
properties and refinements of the runs are proved.

## 5. Where the code does not do what it says

Two are violation runs, with the quotation in `PROJECT.json`:

* **`dispatch_timer_flag`** (`threadpool.h:214`). `improv` is set before `timer_flag`;
  the main thread spins on the first and may read the second too early. The
  failed connection is then never closed.
* **`idle_timer_alarm`** (`my_web.cpp:115`). `alarm()` takes seconds and is given the
  absolute time at which the first timer is due. The first tick that leaves a
  timer in the heap is the last for decades, and idle connections stay open.

Other configurations are kept beside the runs, with properties TLC finds violated,
to be run by hand (`MCLogBroken.cfg` has three; TLC stops at the first, so take the
others out to see one):

* `MCRequestParserBody.cfg`, `RequestUnderstood`: after the first piece of a body
  `parse_line` moves `m_check_idx` over it, and the body never seems complete
  (`http_conn.cpp:520`).
* `MCHttpResponseLong.cfg`, `AnsweredInFull`: 133 bytes in a `char` (`http_conn.h:216`)
  are negative; `writev` refuses the length and the client gets no answer.
* `MCDispatchBusyET.cfg`, `BacklogSeen`: in ET mode refusing one client ends the
  accept loop (`my_web.cpp:419`) while others wait and the edge is consumed.
* `MCSqlPoolExit.cfg`, `DestroyClosesAll`: a connection that is lent when the pool
  is destroyed is never closed.
* `MCRequestParserRoot.cfg`, `MeaningKept`: for the URL `/` the terminating NUL of
  the default page (`http_conn.cpp:459`) hides all headers that have arrived.
* `MCHttpResponsePieces.cfg`, `SentIsPrefix`, and `MCHttpResponseLoop.cfg`,
  `ResponseEnds`: `bytes_have_send` is compared with the remaining length of the
  header (`http_conn.cpp:849`), so that a second short write in the header sends from
  before the file, or makes `write()` go round for ever.
* `MCHttpResponseUnmap.cfg`, `UnmapFits`: a client that hangs up leaves its mapping;
  the object's next response unmaps it with another file's length.
* `MCIdleTimerTwice.cfg`, `NoTimerDeletedTwice`, and `MCIdleTimerHeap.cfg`, `HeapStaysSmall`:
  `adjust_timer()` adds the timer to the heap again (`my_web.cpp:360` has the call that
  would take it out commented out): a tick deletes it at its first cell while
  others point to it, and the heap grows with every read and write.
* `MCLogBroken.cfg`, `SplitKept`: a line is counted for one file and written to the
  next, so that a file may exceed `m_split_lines`; `FileLimit` says by how much.
* `MCLogBroken.cfg`, `NoLineLost`: the queue may fill between `is_full()` and `push()`,
  whose result is ignored (`log.cpp:227-229`).
* `MCLogBroken.cfg`, `DaysForward`: a line whose time was taken before midnight and
  that is counted after one taken later opens yesterday's file again, under
  another name (`log.cpp:174-189`).
* `MCAccountsRace.cfg`, `RegisteredCanLogIn`: two registrations of a name that meet are
  both told that they succeeded, and only one password works (`http_conn.cpp:605`).

Two more are in the passing runs of `Dispatch`, whose properties name them as
exceptions. The result of `increase()` is ignored (`my_web.cpp:539`): the event of a
refused request is spent and its client waits for ever (`dropped` in `OneHolder`,
`RequestAnswered` and `HangupCloses`). A file that does not exist is reported as
`NO_REQUEST` (`http_conn.cpp:718`): such requests are never answered, like those whose
body comes in two pieces, which is why `Asked` speaks of "plain" requests only.

## 6. What is not modelled

* **The pages of `do_request` that change nothing**: which file a URL names. A file
  is there, is missing or is forbidden in `HttpResponse` and `Dispatch`.
* **Timers and workers together.** `IdleTimer` has the ticks, `Dispatch` the workers; a
  tick that closes a connection whose request is in the queue needs a loop held up
  for three slots. In `Dispatch` no tick closes a connection.
* **What happens after a timer was deleted twice**: undefined; `IdleTimer` stops there.
* **`users_timer`**: a pointer (`my_web.h:160`) that nothing sets, the allocations being
  commented out (`my_web.cpp:317`, `625`). The models take it as the array that is
  meant.
* **The constructors of the heap that are not called**: `my_web.h:63` makes it with a
  capacity of 8.
* **The text of the INSERT** (`http_conn.cpp:608-615`): name and password are put between
  quotes as they are, in 200 bytes. `Accounts` takes them as given; one with a quote
  or a backslash makes another row than `users` has, or none.
* **An empty name**: its session looks like none, as `get()` answers both with `""`.
  `Names` are names that are not empty.
* **A restart on the same day** appends to the log file of before (`log.cpp:110`) and
  counts from zero: `FileLimit` is about the lines of one process.
* **Overlapping calls on `users` and `lru`** at the level of their pointers, and the
  nodes of `lru` that are never freed. `Accounts` interleaves whole calls.
* **`fopen` that fails, the length of `m_buf`, and the destructors of log, queue and
  cache**, which run when the process ends.
* **Data races at the level of the compiler**: the loop on `improv` may be made
  endless by optimisation (the makefile's debug build does not optimise).
  `Dispatch` takes plain reads and writes as atomic and in program order.
* **`users[]` indexed by a descriptor of `MAX_FD` or more**: the limit is on clients,
  not on descriptors.
* `lis_timer` and `strdecode` are compiled but not called, `my_mian.cpp` is not
  compiled, `webbench` is another program. `main.cpp` sets constants.

## 7. Plan

1. `Dispatch` with the ticks of `IdleTimer`: a connection closed by its timer while its
   request is queued or with a worker.
2. `SortTimerList` last, as it is no longer used.
