-------------------------------- MODULE Log --------------------------------
(***************************************************************************)
(* The log of log/log.cpp, written by every thread of the server.  A call  *)
(* of LOG_INFO and its likes is write_log(), which counts the line and may *)
(* change the file in one critical section, formats it in a second, and    *)
(* writes it in a third or, when the log is asynchronous and the queue has *)
(* room, puts it into the block_queue, from which a thread of its own      *)
(* writes it; then comes flush().                                          *)
(*                                                                         *)
(* A line is its writer and its number.  The critical sections of m_mutex  *)
(* have no wait in them, and are one step each.                            *)
(***************************************************************************)
EXTENDS BlockQueue, FiniteSets

CONSTANTS
  Writers,       \* threads that log
  MaxLines,      \* bound: lines each of them writes
  MaxDay,        \* bound: days the clock goes through, from 1
  m_split_lines, \* "the most lines of a log"
  Modes,         \* values of m_is_async to look at
  Flusher        \* the thread of flush_log_thread

ASSUME LogAssumption ==
  /\ IsFiniteSet(Writers) /\ Threads = {Flusher}
  /\ {MaxLines, MaxDay, m_split_lines} \subseteq Nat \ {0}
  /\ Modes \subseteq BOOLEAN
  /\ Items = Writers \X (1 .. MaxLines)

VARIABLES
  m_is_async,
  m_count,    \* lines since the file of the day was opened
  m_today,    \* day of the file
  m_fp,       \* name of the open file
  files,      \* by name, the lines that this process wrote to a file, which
              \* is opened in append mode and may have older ones
  unflushed,  \* how many of those of m_fp are still in its buffer
  today,      \* the day it is
  now,        \* per writer, the day gettimeofday() told it
  sys_tm,     \* the buffer in which localtime() returns its result
  my_tm,      \* per writer, its copy of that
  pc, calls,  \* per writer, where it is and how many lines it has begun
  writing,    \* the flusher has taken a line and not written it
  lost        \* lines that push() refused

fileVars == <<m_count, m_today, m_fp, files, unflushed>>
dateVars == <<sys_tm, now, my_tm>>
threadVars == <<pc, calls, writing, lost>>
logVars == <<queueVars, m_is_async, fileVars, today, dateVars, threadVars>>

Line(w) == <<w, calls[w]>>

(* init() opens a file named for the day; later names have another year:   *)
(* tm_year + 1900 there, tm_year + 1990 in write_log.                      *)
MaxCount == MaxLines * Cardinality(Writers)

FileNames ==
  [year : {1900, 1990}, day : 1 .. MaxDay,
   part : {n \div m_split_lines : n \in 0 .. MaxCount}]

FileName(y, d, p) == [year |-> y, day |-> d, part |-> p]

Init ==
  /\ QueueInit
  /\ m_is_async \in Modes
  /\ m_count = 0 /\ m_today = 1
  /\ m_fp = FileName(1900, 1, 0)
  /\ files = [f \in FileNames |-> <<>>] /\ unflushed = 0
  /\ today = 1 /\ sys_tm = 1
  /\ now = [w \in Writers |-> 1]
  /\ my_tm = [w \in Writers |-> 1]
  /\ pc = [w \in Writers |-> "out"]
  /\ calls = [w \in Writers |-> 0]
  /\ writing = FALSE
  /\ lost = {}

Goto(w, label) == pc' = [pc EXCEPT ![w] = label]

-----------------------------------------------------------------------------
(* write_log() up to its first lock: the time is read, turned into a date  *)
(* by localtime(), which returns a pointer to one buffer for all threads,  *)
(* and the date copied.                                                    *)
Gettimeofday(w) ==
  /\ pc[w] = "out" /\ calls[w] < MaxLines
  /\ calls' = [calls EXCEPT ![w] = @ + 1]
  /\ now' = [now EXCEPT ![w] = today]
  /\ Goto(w, "date")
  /\ UNCHANGED <<queueVars, m_is_async, fileVars, today, sys_tm, my_tm,
                 writing, lost>>

Localtime(w) ==
  /\ pc[w] = "date"
  /\ sys_tm' = now[w]
  /\ Goto(w, "copy")
  /\ UNCHANGED <<queueVars, m_is_async, fileVars, today, now, my_tm, calls,
                 writing, lost>>

CopyTm(w) ==
  /\ pc[w] = "copy"
  /\ my_tm' = [my_tm EXCEPT ![w] = sys_tm]
  /\ Goto(w, "count")
  /\ UNCHANGED <<queueVars, m_is_async, fileVars, today, sys_tm, now, calls,
                 writing, lost>>

(* The first critical section: the line is counted, and the file changed   *)
(* when the day is another one or the count is a multiple of m_split_lines.*)
RotationByDay(w) == m_today # my_tm[w]

Rotation(w) == m_today # my_tm[w] \/ (m_count + 1) % m_split_lines = 0

Count(w) ==
  LET newDay == m_today # my_tm[w] IN
  /\ pc[w] = "count" /\ m_count < MaxCount
  /\ m_count' = IF newDay THEN 0 ELSE m_count + 1
  /\ m_today' = my_tm[w]
  /\ IF Rotation(w)
     THEN /\ m_fp' = FileName(1990, my_tm[w],
                              IF newDay THEN 0 ELSE m_count' \div m_split_lines)
          /\ unflushed' = 0
     ELSE UNCHANGED <<m_fp, unflushed>>
  /\ Goto(w, "format")
  /\ UNCHANGED <<queueVars, m_is_async, files, today, dateVars, calls, writing,
                 lost>>

(* The line is formatted, and the queue asked whether it is full, which it *)
(* may no longer be, or only be then, when push() is called.               *)
Format(w) ==
  /\ pc[w] = "format"
  /\ Goto(w, IF m_is_async /\ ~is_full THEN "push" ELSE "write")
  /\ UNCHANGED <<queueVars, m_is_async, fileVars, today, dateVars, calls,
                 writing, lost>>

PushLineBoth(w) ==
  /\ pc[w] = "push"
  /\ \/ PushItem(Line(w)) /\ Goto(w, "write")
     \/ PushRefused /\ Goto(w, "flush")
  /\ lost' = IF is_full THEN lost \cup {Line(w)} ELSE lost
  /\ UNCHANGED <<m_is_async, fileVars, today, dateVars, calls, writing>>

PushLine(w) ==
  /\ pc[w] = "push"
  /\ PushItem(Line(w)) \/ PushRefused
  /\ lost' = IF is_full THEN lost \cup {Line(w)} ELSE lost
  /\ Goto(w, "flush")
  /\ UNCHANGED <<m_is_async, fileVars, today, dateVars, calls, writing>>

(* fputs(), which leaves the line in the buffer of the stream.             *)
Fputs(line) ==
  /\ files' = [files EXCEPT ![m_fp] = Append(@, line)]
  /\ unflushed' = unflushed + 1
  /\ UNCHANGED <<m_count, m_today, m_fp>>

WriteLine(w) ==
  /\ pc[w] = "write"
  /\ Fputs(Line(w))
  /\ Goto(w, "flush")
  /\ UNCHANGED <<queueVars, m_is_async, today, dateVars, calls, writing,
                 lost>>

FlushNot(w) ==
  /\ pc[w] = "flush"
  /\ Goto(w, "out")
  /\ UNCHANGED <<queueVars, m_is_async, fileVars, today, dateVars, calls,
                 writing, lost>>

Flush(w) ==
  /\ pc[w] = "flush"
  /\ unflushed' = 0
  /\ Goto(w, "out")
  /\ UNCHANGED <<queueVars, m_is_async, m_count, m_today, m_fp, files, today,
                 dateVars, calls, writing, lost>>

-----------------------------------------------------------------------------
(* async_write_log(): pop a line, write it.  It does not flush.            *)
FlusherPop ==
  /\ m_is_async /\ ~writing
  /\ Pop(Flusher)
  /\ writing' = (m_size > 0)
  /\ UNCHANGED <<m_is_async, fileVars, today, dateVars, pc, calls, lost>>

FlusherWrite ==
  /\ writing
  /\ Fputs(item[Flusher])
  /\ writing' = FALSE
  /\ UNCHANGED <<queueVars, m_is_async, today, dateVars, pc, calls, lost>>

FlusherWakes ==
  /\ Spurious(Flusher)
  /\ UNCHANGED <<m_is_async, fileVars, today, dateVars, threadVars>>

Midnight ==
  /\ today < MaxDay
  /\ today' = today + 1
  /\ UNCHANGED <<queueVars, m_is_async, fileVars, dateVars, threadVars>>

-----------------------------------------------------------------------------
WriterStep(w) ==
  \/ Localtime(w) \/ CopyTm(w) \/ Count(w) \/ Format(w) \/ PushLine(w)
  \/ WriteLine(w) \/ Flush(w)

FlusherStep == FlusherPop \/ FlusherWrite

Next ==
  \/ \E w \in Writers : Gettimeofday(w) \/ WriterStep(w)
  \/ FlusherStep \/ FlusherWakes
  \/ Midnight

Spec == Init /\ [][Next]_logVars

(* A thread that is in write_log goes on, and so does the flusher.         *)
Fairness == WF_logVars(FlusherStep) /\ \A w \in Writers : WF_logVars(WriterStep(w))

FairSpec == Spec /\ Fairness

-----------------------------------------------------------------------------
TypeOK ==
  /\ QueueTypeOK
  /\ m_is_async \in BOOLEAN
  /\ m_count \in 0 .. MaxCount /\ m_today \in 1 .. MaxDay
  /\ m_fp \in FileNames
  /\ files \in [FileNames -> Seq(Items)]
  /\ unflushed \in 0 .. Len(files[m_fp])
  /\ today \in 1 .. MaxDay /\ sys_tm \in 1 .. MaxDay
  /\ my_tm \in [Writers -> 1 .. MaxDay]
  /\ now \in [Writers -> 1 .. MaxDay]
  /\ pc \in [Writers -> {"out", "date", "copy", "count", "format", "push",
                       "write", "flush"}]
  /\ calls \in [Writers -> 0 .. MaxLines]
  /\ writing \in BOOLEAN
  /\ lost \subseteq Items

Lines(f) == 1 .. Len(files[f])

Written(line) == \E f \in FileNames : \E i \in Lines(f) : files[f][i] = line

Queued(line) == \E i \in 1 .. m_size : Contents[i] = line

Begun == {line \in Items : line[2] <= calls[line[1]]}

(* Where a line is: with its writer, in the queue, with the flusher, in a  *)
(* file, or lost.                                                          *)
WriterPlaces(line) ==
  {<<"writer", w>> : w \in {v \in Writers : Line(v) = line /\ pc[v] \notin {"out", "flush"}}}

QueuePlaces(line) ==
  {<<"queue", i>> : i \in {j \in 1 .. m_size : Contents[j] = line}}

FlusherPlaces(line) ==
  {<<"flusher", t>> : t \in {u \in Threads : writing /\ item[u] = line}}

FilePlaces(line) ==
  UNION {{<<"file", f, i>> : i \in {j \in Lines(f) : files[f][j] = line}} :
           f \in FileNames}

LostPlaces(line) == {<<"lost", l>> : l \in lost \cap {line}}

Places(line) ==
  WriterPlaces(line) \cup QueuePlaces(line) \cup FlusherPlaces(line)
    \cup FilePlaces(line) \cup LostPlaces(line)

(* A line is always in one place: written once, whether through the queue  *)
(* or past it when the queue is full, before a change of the file or       *)
(* after; and only an asynchronous log whose queue filled up between       *)
(* is_full() and push() loses one (log.cpp:224-237, log.h:55-65).          *)
EachLineOnce ==
  /\ TypeOK
  /\ \A line \in Begun : Cardinality(Places(line)) = 1
  /\ ~m_is_async => lost = {}

(* The synchronous log, the one the server uses: when a call has returned, *)
(* its line is on disk and not in the stream's buffer, even if another     *)
(* thread changed the file in the meantime, and the lines of one thread    *)
(* are in order in each file (log.cpp:161-186, 232-236, 242-248).          *)
OnDiskInOrder ==
  ~m_is_async =>
    /\ \A i \in Lines(m_fp) : i > Len(files[m_fp]) - unflushed =>
         \E w \in Writers : pc[w] = "flush" /\ files[m_fp][i] = Line(w)
    /\ \A f \in FileNames : \A i, j \in Lines(f) :
         i < j /\ files[f][i][1] = files[f][j][1] => files[f][i][2] < files[f][j][2]

(* Lines may be counted for one file and end in the next, but no more than *)
(* the other writers, the queue and the flusher can hold: as long as the   *)
(* day does not change, a file has no more lines above m_split_lines than  *)
(* that.  What the file had when it was opened is not counted: after a     *)
(* restart on the same day the older lines come on top (log.cpp:110,       *)
(* 161-190).                                                               *)
FileLimit ==
  today = 1 =>
    \A f \in FileNames :
      Len(files[f]) <= m_split_lines + Cardinality(Writers) - 1
                         + IF m_is_async THEN MaxSize + 1 ELSE 0

(* What is in the queue gets into a file: the flusher is woken for it and  *)
(* no wake-up is lost (block_queue.h:135-178, log.h:55-65).                *)
QueuedLineWritten == \A line \in Items : Queued(line) ~> Written(line)

-----------------------------------------------------------------------------
(* "The most lines of a log" (log.h:71): a file has no more.               *)
SplitKept == \A f \in FileNames : Len(files[f]) <= m_split_lines

(* "A new log for the present time" (log.cpp:121-127): the file of a day   *)
(* is not followed by that of an earlier one.                              *)
DaysForward == [][m_today' >= m_today]_logVars

(* "Not full: put it in" (log.cpp:223-226): no line is lost.               *)
NoLineLost == lost = {}
=============================================================================
