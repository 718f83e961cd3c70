----------------------------- MODULE LogProofs -----------------------------
(***************************************************************************)
(* Proofs about BlockQueue, for any threads, items and length of the       *)
(* array, and about Log, for any number of writers, lines and days.        *)
(* QueueInv says that the ring is a window of m_size filled cells that     *)
(* ends just before the cell push() writes next; with it, push is an       *)
(* Append to the window and pop takes its head.                            *)
(*                                                                         *)
(* LogInv is the type invariant with what a writer and the flusher have in *)
(* hand; DiskInv adds, for the synchronous log, that the lines a writer    *)
(* has in the files are older than the one it is writing.  PlaceInv says   *)
(* that a line is in one place once it is begun, FirstDay that what is in  *)
(* the open file or on its way there was counted since the file was        *)
(* opened, or on its way then.                                             *)
(***************************************************************************)
EXTENDS Log, SequenceTheorems, FiniteSetTheorems, TLAPS

QueueInv == QueueTypeOK /\ RingConsistent

-----------------------------------------------------------------------------
(* Indexes on the ring, without %.                                         *)
LEMMA WrapIs ==
  ASSUME NEW i \in Cells
  PROVE  Wrap(i) = IF i + 1 < MaxSize THEN i + 1 ELSE 0
<1>1. MaxSize \in Nat /\ MaxSize > 0
  BY QueueAssumption
<1>2. CASE i + 1 < MaxSize
  <2>1. (i + 1) % MaxSize = i + 1
    BY <1>1, <1>2 DEF Cells
  <2> QED BY <2>1, <1>2 DEF Wrap
<1>3. CASE ~(i + 1 < MaxSize)
  <2>1. i + 1 = MaxSize
    BY <1>1, <1>3 DEF Cells
  <2>2. MaxSize % MaxSize = 0
    BY <1>1
  <2> QED BY <2>1, <2>2, <1>3 DEF Wrap
<1> QED BY <1>2, <1>3

LEMMA WrapInCells ==
  ASSUME NEW i \in Cells
  PROVE  Wrap(i) \in Cells
BY WrapIs, QueueAssumption DEF Cells

(* The window's cells are in the array and differ from each other.         *)
LEMMA WindowCells ==
  ASSUME QueueTypeOK, m_front # -1
  PROVE  /\ \A i \in 0 .. MaxSize - 1 : Cell(i) \in Cells
         /\ \A i, j \in 0 .. MaxSize - 1 : Cell(i) = Cell(j) => i = j
BY QueueAssumption DEF QueueTypeOK, Cell, Cells

LEMMA WindowIsSeq ==
  ASSUME QueueInv
  PROVE  /\ m_size \in Nat /\ Contents \in [1 .. m_size -> Items]
         /\ Contents \in Seq(Items) /\ Len(Contents) = m_size
<1>1. m_size \in Nat /\ Contents \in [1 .. m_size -> Items]
  BY DEF Contents, QueueInv, RingConsistent, QueueTypeOK
<1> QED BY <1>1

LEMMA InitInv == QueueInit => QueueInv
BY QueueAssumption
DEF QueueInit, QueueInv, QueueTypeOK, RingConsistent, Contents, Cells

-----------------------------------------------------------------------------
(* What is pushed comes after the window, and leaves the window alone.     *)
LEMMA PushAppends ==
  ASSUME NEW x \in Items, QueueInv, PushItem(x)
  PROVE  QueueInv' /\ Contents' = Append(Contents, x)
<1> USE QueueAssumption DEF QueueInv
<1> DEFINE first == m_back = -1 /\ m_front = -1
           back == IF first THEN 0 ELSE Wrap(m_back)
<1>1. /\ m_size < MaxSize /\ m_size' = m_size + 1
      /\ m_front' = IF first THEN 0 ELSE m_front
      /\ m_back' = back /\ m_array' = [m_array EXCEPT ![back] = x]
  BY DEF PushItem, AppendItem, is_full, QueueTypeOK
<1>2. back \in Cells /\ back # -1
  <2>1. CASE first
    BY <2>1 DEF Cells
  <2>2. CASE ~first
    <3>1. m_back \in Cells
      BY <2>2 DEF QueueTypeOK, RingConsistent, Cells
    <3> QED BY <3>1, <2>2, WrapInCells DEF Cells
  <2> QED BY <2>1, <2>2
<1>3. m_front' \in Cells
  BY <1>1 DEF QueueTypeOK, RingConsistent, Cells
<1>4. QueueTypeOK'
  <2>1. m_array' \in [Cells -> Items \cup {NoItem}]
    BY <1>1 DEF QueueTypeOK
  <2>2. m_size' \in 0 .. MaxSize /\ m_front' \in -1 .. MaxSize - 1
        /\ m_back' \in -1 .. MaxSize - 1
    BY <1>1, <1>2, <1>3 DEF QueueTypeOK, Cells
  <2>3. item' \in [Threads -> Items \cup {NoItem}]
        /\ cond' \in [Threads -> {"out", "wait", "woken", "timedwait", "timedwoken"}]
    BY DEF PushItem, Broadcast, QueueTypeOK
  <2> QED BY <2>1, <2>2, <2>3 DEF QueueTypeOK
<1> DEFINE after(i) == IF m_front' + i < MaxSize THEN m_front' + i
                                                ELSE m_front' + i - MaxSize
<1>5. back = after(m_size)
  <2>1. CASE first
    BY <2>1, <1>1 DEF QueueTypeOK, RingConsistent
  <2>2. CASE ~first
    BY <2>2, <1>1 DEF QueueTypeOK, RingConsistent, Cell
  <2> QED BY <2>1, <2>2
<1>6. \A i \in 1 .. m_size : /\ after(i - 1) = Cell(i - 1)
                             /\ Cell(i - 1) # back /\ Cell(i - 1) \in Cells
  <2> SUFFICES ASSUME NEW i \in 1 .. m_size
               PROVE  /\ after(i - 1) = Cell(i - 1)
                      /\ Cell(i - 1) # back /\ Cell(i - 1) \in Cells
    OBVIOUS
  <2>1. m_front # -1 /\ ~first
    BY DEF QueueTypeOK, RingConsistent
  <2>2. m_front' = m_front
    BY <1>1, <2>1
  <2>3. after(i - 1) = Cell(i - 1) /\ back = Cell(m_size)
    BY <2>2, <1>5 DEF Cell
  <2>4. m_size \in 0 .. MaxSize - 1 /\ i - 1 \in 0 .. MaxSize - 1 /\ i - 1 # m_size
    BY <1>1 DEF QueueTypeOK
  <2> QED BY <2>1, <2>3, <2>4, WindowCells
<1>7. \A i \in 1 .. m_size : m_array'[after(i - 1)] = Contents[i]
  BY <1>1, <1>6 DEF QueueTypeOK, Contents
<1>8. m_array'[after(m_size)] = x
  BY <1>1, <1>2, <1>5 DEF QueueTypeOK
<1>9. Contents' = [i \in 1 .. m_size + 1 |-> IF i <= m_size THEN Contents[i] ELSE x]
  <2>1. Contents' = [i \in 1 .. m_size + 1 |-> m_array'[after(i - 1)]]
    BY <1>1 DEF Contents, Cell
  <2>2. ASSUME NEW i \in 1 .. m_size + 1
        PROVE  m_array'[after(i - 1)] = IF i <= m_size THEN Contents[i] ELSE x
    <3>1. CASE i <= m_size
      BY <3>1, <1>7 DEF QueueTypeOK
    <3>2. CASE ~(i <= m_size)
      <4>1. i - 1 = m_size
        BY <3>2 DEF QueueTypeOK
      <4>2. after(i - 1) = after(m_size)
        BY <4>1
      <4> QED BY <4>2, <3>2, <1>8
    <3> QED BY <3>1, <3>2
  <2> HIDE DEF after
  <2> QED BY <2>1, <2>2
<1>10. Contents' = Append(Contents, x)
  <2>1. Contents \in Seq(Items) /\ Len(Contents) = m_size
    BY WindowIsSeq
  <2>2. /\ Append(Contents, x) \in Seq(Items)
        /\ Len(Append(Contents, x)) = m_size + 1
        /\ \A i \in 1 .. m_size : Append(Contents, x)[i] = Contents[i]
        /\ Append(Contents, x)[m_size + 1] = x
    BY <2>1, AppendProperties
  <2>3. m_size \in Nat
    BY DEF QueueTypeOK
  <2>4. /\ Contents' \in Seq(Items) /\ Len(Contents') = m_size + 1
        /\ \A i \in 1 .. m_size + 1 : Contents'[i] = Append(Contents, x)[i]
    <3>1. \A i \in 1 .. m_size : Contents[i] \in Items
      BY DEF RingConsistent
    <3>2. Contents' \in [1 .. m_size + 1 -> Items]
      BY <1>9, <2>3, <3>1
    <3>3. \A i \in 1 .. m_size + 1 : Contents'[i] = Append(Contents, x)[i]
      BY <1>9, <2>2, <2>3
    <3>4. Contents' \in Seq(Items) /\ Len(Contents') = m_size + 1
      BY <2>3, <3>2
    <3> QED BY <3>3, <3>4
  <2> QED BY <2>2, <2>4, SeqEqual
<1>11. RingConsistent'
  <2>1. m_front' # -1 /\ m_back' # -1
    BY <1>1, <1>2, <1>3 DEF Cells
  <2>2. Wrap(m_back)' = Cell(m_size)'
    <3>1. Wrap(m_back)' = IF back + 1 < MaxSize THEN back + 1 ELSE 0
      BY <1>1, <1>2, WrapIs DEF Wrap
    <3>2. Cell(m_size)' = after(m_size + 1)
      BY <1>1 DEF Cell
    <3> HIDE DEF back
    <3> QED BY <1>1, <1>2, <1>3, <1>5, <3>1, <3>2 DEF QueueTypeOK, Cells
  <2>3. \A i \in 1 .. m_size' : Contents'[i] \in Items
    BY <1>1, <1>9 DEF RingConsistent, QueueTypeOK
  <2> QED BY <2>1, <2>2, <2>3 DEF RingConsistent
<1> QED BY <1>4, <1>10, <1>11

(* A pop hands out the head of the window.                                 *)
LEMMA TakeIsHead ==
  ASSUME NEW t \in Threads, QueueInv, m_size > 0, TakeFront(t)
  PROVE  /\ QueueInv'
         /\ Contents # <<>>
         /\ item' = [item EXCEPT ![t] = Head(Contents)]
         /\ Contents' = Tail(Contents)
<1> USE QueueAssumption DEF QueueInv
<1>1. /\ m_front \in Cells /\ m_back \in Cells
      /\ m_size' = m_size - 1 /\ m_back' = m_back /\ m_array' = m_array
      /\ m_front' = IF m_front + 1 < MaxSize THEN m_front + 1 ELSE 0
  <2>1. m_front \in Cells /\ m_back \in Cells
    BY DEF QueueTypeOK, RingConsistent, Cells
  <2> QED BY <2>1, WrapIs DEF TakeFront
<1>2. m_size \in 1 .. MaxSize
  BY DEF QueueTypeOK
<1>3. Contents[1] = m_array[m_front] /\ Contents[1] \in Items
  <2>1. Cell(0) = m_front
    BY <1>1 DEF Cell, Cells
  <2>2. Contents[1] = m_array[Cell(1 - 1)]
    BY <1>2 DEF Contents
  <2> QED BY <2>1, <2>2, <1>2 DEF RingConsistent
<1>4. QueueTypeOK'
  <2>1. item' \in [Threads -> Items \cup {NoItem}]
    BY <1>3 DEF TakeFront, QueueTypeOK
  <2>2. cond' \in [Threads -> {"out", "wait", "woken", "timedwait", "timedwoken"}]
    BY DEF TakeFront, QueueTypeOK
  <2> QED BY <1>1, <1>2, <2>1, <2>2 DEF QueueTypeOK, Cells
<1> DEFINE after(i) == IF m_front' + i < MaxSize THEN m_front' + i
                                                ELSE m_front' + i - MaxSize
<1>5. \A i \in 0 .. MaxSize - 1 : after(i) = Cell(i + 1)
  BY <1>1 DEF Cell, Cells
<1>6. Contents' = [i \in 1 .. m_size - 1 |-> Contents[i + 1]]
  <2>1. Contents' = [i \in 1 .. m_size - 1 |-> m_array[after(i - 1)]]
    BY <1>1 DEF Contents, Cell
  <2>2. ASSUME NEW i \in 1 .. m_size - 1
        PROVE  m_array[after(i - 1)] = Contents[i + 1]
    <3>1. i - 1 \in 0 .. MaxSize - 1 /\ i - 1 + 1 = i /\ i + 1 - 1 = i
          /\ i + 1 \in 1 .. m_size
      BY <1>2
    <3>2. after(i - 1) = Cell(i)
      BY <1>5, <3>1
    <3>3. Contents[i + 1] = m_array[Cell(i)]
      BY <3>1 DEF Contents
    <3> QED BY <3>2, <3>3
  <2> HIDE DEF after
  <2> QED BY <2>1, <2>2
<1>7. Contents # <<>> /\ Head(Contents) = Contents[1]
  BY WindowIsSeq, <1>2
<1>8. Contents' = Tail(Contents)
  <2>1. /\ Tail(Contents) \in Seq(Items) /\ Len(Tail(Contents)) = m_size - 1
        /\ \A i \in 1 .. m_size - 1 : Tail(Contents)[i] = Contents[i + 1]
    BY WindowIsSeq, <1>7, HeadTailProperties
  <2>2. Contents' \in [1 .. m_size - 1 -> Items]
    <3>1. \A i \in 1 .. m_size - 1 : Contents[i + 1] \in Items
      BY <1>2 DEF RingConsistent
    <3> QED BY <1>6, <3>1
  <2>3. Contents' \in Seq(Items) /\ Len(Contents') = m_size - 1
    BY <2>2, <1>2
  <2>4. \A i \in 1 .. m_size - 1 : Contents'[i] = Tail(Contents)[i]
    BY <1>6, <2>1
  <2> QED BY <2>1, <2>3, <2>4, SeqEqual
<1>9. RingConsistent'
  <2>1. m_front' # -1 /\ m_back' # -1
    BY <1>1 DEF Cells
  <2>2. Wrap(m_back)' = Cell(m_size)'
    <3>1. Wrap(m_back)' = Wrap(m_back)
      BY <1>1 DEF Wrap
    <3>2. Cell(m_size)' = after(m_size - 1)
      BY <1>1 DEF Cell
    <3>3. after(m_size - 1) = Cell(m_size)
      BY <1>5, <1>2
    <3> QED BY <3>1, <3>2, <3>3, <1>1 DEF RingConsistent, Cells
  <2>3. \A i \in 1 .. m_size' : Contents'[i] \in Items
    BY <1>1, <1>2, <1>6 DEF RingConsistent
  <2> QED BY <2>1, <2>2, <2>3 DEF RingConsistent
<1> QED BY <1>3, <1>4, <1>7, <1>8, <1>9 DEF TakeFront

(* A step that leaves the ring alone leaves all of this alone.             *)
LEMMA RingUnchanged ==
  ASSUME QueueInv, UNCHANGED <<ring, item>>,
         cond' \in [Threads -> {"out", "wait", "woken", "timedwait", "timedwoken"}]
  PROVE  QueueInv' /\ UNCHANGED <<Contents, item>>
BY DEF QueueInv, QueueTypeOK, RingConsistent, Contents, Cell, Wrap, ring

LEMMA ClearEmpties ==
  ASSUME QueueInv, clear
  PROVE  QueueInv' /\ Contents' = <<>> /\ item' = item
<1>1. Contents' = <<>>
  BY DEF clear, Contents
<1>2. QueueTypeOK'
  BY QueueAssumption DEF clear, QueueInv, QueueTypeOK
<1>3. RingConsistent'
  BY DEF clear, RingConsistent
<1> QED BY <1>1, <1>2, <1>3 DEF QueueInv, clear

-----------------------------------------------------------------------------
(* Every step keeps QueueInv and is a step of BoundedQueue, or none.       *)
LEMMA QueueStep ==
  ASSUME QueueInv, [QueueNext]_queueVars
  PROVE  QueueInv' /\ [Queue!Next]_(Queue!qvars)
<1> DEFINE Same == UNCHANGED <<ring, item>>
           CondOK == cond' \in [Threads -> {"out", "wait", "woken", "timedwait", "timedwoken"}]
<1> USE DEF Queue!qvars
<1>0. Same /\ CondOK => QueueInv' /\ UNCHANGED Queue!qvars
  BY RingUnchanged
<1>1. ASSUME NEW x \in Items, PushItem(x)
      PROVE  QueueInv' /\ Queue!Put(x)
  <2>1. Len(Contents) < MaxSize
    <3>1. Len(Contents) = m_size
      BY WindowIsSeq
    <3> QED BY <3>1, <1>1, QueueAssumption DEF PushItem, is_full, QueueInv, QueueTypeOK
  <2> QED BY <1>1, <2>1, PushAppends DEF PushItem, Queue!Put
<1>2. ASSUME PushRefused PROVE Same /\ CondOK
  BY <1>2 DEF PushRefused, Broadcast, QueueInv, QueueTypeOK
<1>3. ASSUME NEW t \in Threads, TakeFront(t), m_size > 0
      PROVE  QueueInv' /\ Queue!Take(t)
  BY <1>3, TakeIsHead DEF Queue!Take
<1>4. ASSUME NEW t \in Threads, Pop(t) \/ TimedPop(t) \/ TimedPopWoken(t)
      PROVE  (Same /\ CondOK) \/ (TakeFront(t) /\ m_size > 0)
  <2> USE DEF QueueInv, QueueTypeOK
  <2>1. CASE Pop(t)
    BY <2>1 DEF Pop
  <2>2. CASE TimedPop(t)
    BY <2>2 DEF TimedPop
  <2>3. CASE TimedPopWoken(t)
    BY <2>3 DEF TimedPopWoken
  <2> QED BY <1>4, <2>1, <2>2, <2>3
<1>5. ASSUME NEW t \in Threads, Timeout(t) \/ Spurious(t) PROVE Same /\ CondOK
  BY <1>5 DEF Timeout, Spurious, QueueInv, QueueTypeOK
<1>6. ASSUME clear PROVE QueueInv' /\ Queue!Empty
  BY <1>6, ClearEmpties DEF Queue!Empty
<1>7. ASSUME UNCHANGED queueVars PROVE Same /\ CondOK
  BY <1>7 DEF queueVars, QueueInv, QueueTypeOK
<1> HIDE DEF Same, CondOK
<1> QED BY <1>0, <1>1, <1>2, <1>3, <1>4, <1>5, <1>6, <1>7 DEF QueueNext, Queue!Next

(* The indexes and the count of the ring stay in bounds, whatever threads  *)
(* push, pop, give up or clear (block_queue.h:135-211).                    *)
THEOREM QueueTypeInvariant == QueueSpec => []QueueTypeOK
<1>1. QueueInv => QueueTypeOK
  BY DEF QueueInv
<1> QED BY <1>1, InitInv, QueueStep, PTL DEF QueueSpec

(* pop() never hands out a cell that no push() has filled: the window of   *)
(* m_size cells from m_front to m_back holds items only                    *)
(* (block_queue.h:144-152, 172-175).                                       *)
THEOREM RingInvariant == QueueSpec => []RingConsistent
<1>1. QueueInv => RingConsistent
  BY DEF QueueInv
<1> QED BY <1>1, InitInv, QueueStep, PTL DEF QueueSpec

LEMMA QueueStarts == QueueInit => Queue!Init
<1> SUFFICES ASSUME QueueInit PROVE Queue!Init
  OBVIOUS
<1>1. Contents = <<>>
  BY DEF QueueInit, Contents
<1> QED BY <1>1 DEF QueueInit, Queue!Init

(* The ring with its mutex and condition variable is a bounded FIFO: each  *)
(* item that was pushed is handed out at most once, in the order of the    *)
(* pushes, with any number of threads that wait, time out and are woken    *)
(* for nothing (block_queue.h:135-211).                                    *)
THEOREM RingImplementsBoundedQueue == QueueSpec => ImplementsBoundedQueue
BY InitInv, QueueStep, QueueStarts, PTL
DEF QueueSpec, ImplementsBoundedQueue, Queue!QSpec

InHand ==
  /\ \A w \in Writers : pc[w] # "out" => calls[w] # 0
  /\ writing => m_is_async /\ item[Flusher] \in Items

LogInv == TypeOK /\ RingConsistent /\ InHand

(* LogInv without the queue, in three parts.                               *)
FilesOK ==
  /\ m_count \in 0 .. MaxCount /\ m_today \in 1 .. MaxDay
  /\ m_fp \in FileNames
  /\ files \in [FileNames -> Seq(Items)]
  /\ unflushed \in 0 .. Len(files[m_fp])

ClockOK ==
  /\ today \in 1 .. MaxDay /\ sys_tm \in 1 .. MaxDay
  /\ now \in [Writers -> 1 .. MaxDay]
  /\ my_tm \in [Writers -> 1 .. MaxDay]

CallsOK ==
  /\ m_is_async \in BOOLEAN
  /\ pc \in [Writers -> {"out", "date", "copy", "count", "format", "push", "write", "flush"}]
  /\ calls \in [Writers -> 0 .. MaxLines]
  /\ writing \in BOOLEAN
  /\ lost \subseteq Items
  /\ InHand

(* A line of w in a file is one w has begun, and finished or all but.      *)
Older ==
  \A f \in FileNames : \A i \in Lines(f) : \A w \in Writers :
    files[f][i][1] = w =>
      /\ files[f][i][2] <= calls[w]
      /\ pc[w] \in {"date", "copy", "count", "format", "push", "write"} =>
           files[f][i][2] < calls[w]

DiskInv == OnDiskInOrder /\ (~m_is_async => Older)

-----------------------------------------------------------------------------
(* The tuple of the dates is always opened.                                *)
USE DEF dateVars

LEMMA Bounds ==
  /\ MaxCount \in Nat
  /\ m_split_lines \in Nat \ {0} /\ MaxLines \in Nat \ {0} /\ MaxDay \in Nat \ {0}
  /\ Threads = {Flusher}
  /\ Items = Writers \X (1 .. MaxLines)
BY LogAssumption, FS_CardinalityType DEF MaxCount

LEMMA Parts ==
  LogInv <=> QueueTypeOK /\ RingConsistent /\ FilesOK /\ ClockOK /\ CallsOK
BY DEF LogInv, TypeOK, FilesOK, ClockOK, CallsOK

(* A writer inside write_log() has a line.                                 *)
LEMMA LineIsItem ==
  ASSUME LogInv, NEW w \in Writers, pc[w] # "out"
  PROVE  Line(w) \in Items
<1>1. calls[w] \in 1 .. MaxLines
  BY Bounds DEF LogInv, TypeOK, InHand
<1> QED BY <1>1, Bounds DEF Line

(* Both names a file may be given are in FileNames.                        *)
LEMMA NamesOfFiles ==
  ASSUME NEW d \in 1 .. MaxDay, NEW n \in 0 .. MaxCount
  PROVE  /\ FileName(1990, d, n \div m_split_lines) \in FileNames
         /\ FileName(1990, d, 0) \in FileNames
         /\ FileName(1900, d, 0) \in FileNames
<1>1. 0 \in {k \div m_split_lines : k \in 0 .. MaxCount}
  <2>1. 0 \div m_split_lines = 0 /\ 0 \in 0 .. MaxCount
    BY Bounds, LogAssumption
  <2> QED BY <2>1
<1> QED BY <1>1 DEF FileNames, FileName

-----------------------------------------------------------------------------
(* Every step of the log is a step of the queue, or leaves it alone.       *)
LEMMA LogStepIsQueueStep ==
  ASSUME LogInv, [Next]_logVars
  PROVE  [QueueNext]_queueVars
<1> DEFINE Idle == UNCHANGED queueVars
<1>1. ASSUME NEW w \in Writers, Gettimeofday(w) \/ WriterStep(w)
      PROVE  Idle \/ QueueNext
  <2>1. ASSUME PushLine(w) PROVE QueueNext
    <3>1. Line(w) \in Items
      BY <2>1, LineIsItem DEF PushLine
    <3> QED BY <2>1, <3>1 DEF PushLine, QueueNext
  <2>2. ASSUME Gettimeofday(w) \/ Localtime(w) \/ CopyTm(w) \/ Count(w) \/ Format(w)
               \/ WriteLine(w) \/ Flush(w)
        PROVE  Idle
    BY <2>2 DEF Gettimeofday, Localtime, CopyTm, Count, Format, WriteLine, Flush
  <2> QED BY <1>1, <2>1, <2>2 DEF WriterStep
<1>2. ASSUME FlusherPop \/ FlusherWakes PROVE QueueNext
  BY <1>2, Bounds DEF FlusherPop, FlusherWakes, QueueNext
<1>3. ASSUME FlusherWrite \/ Midnight \/ UNCHANGED logVars PROVE Idle
  BY <1>3 DEF FlusherWrite, Midnight, logVars
<1> QED BY <1>1, <1>2, <1>3 DEF Next, FlusherStep

LEMMA LogInit == Init => LogInv /\ DiskInv
<1> SUFFICES ASSUME Init PROVE LogInv /\ DiskInv
  OBVIOUS
<1> USE DEF Init
<1>1. QueueTypeOK /\ RingConsistent
  BY InitInv DEF QueueInv
<1>2. m_fp \in FileNames
  BY NamesOfFiles, Bounds, LogAssumption
<1>3. files \in [FileNames -> Seq(Items)] /\ \A f \in FileNames : Len(files[f]) = 0
  OBVIOUS
<1>4. FilesOK
  <2>1. unflushed \in 0 .. Len(files[m_fp])
    BY <1>2, <1>3
  <2> QED BY <1>2, <1>3, <2>1, Bounds DEF FilesOK
<1>5. ClockOK /\ CallsOK
  <2>1. ClockOK
    BY Bounds DEF ClockOK
  <2>2. m_is_async \in BOOLEAN
    BY LogAssumption
  <2>3. InHand /\ writing \in BOOLEAN
    BY DEF InHand
  <2>4. calls \in [Writers -> 0 .. MaxLines]
    BY Bounds
  <2>5. /\ lost \subseteq Items
        /\ pc \in [Writers -> {"out", "date", "copy", "count", "format", "push", "write", "flush"}]
    OBVIOUS
  <2> QED BY <2>1, <2>2, <2>3, <2>4, <2>5 DEF CallsOK
<1>6. \A f \in FileNames : Lines(f) = {}
  BY <1>3 DEF Lines
<1>7. DiskInv
  BY <1>2, <1>6 DEF DiskInv, OnDiskInOrder, Older
<1> QED BY <1>1, <1>4, <1>5, <1>7, Parts
(* A line is put at the end of the open file.                              *)
LEMMA FputsAppends ==
  ASSUME FilesOK, NEW line \in Items, Fputs(line)
  PROVE  /\ FilesOK'
         /\ unflushed' = unflushed + 1
         /\ \A f \in FileNames : \A i \in Lines(f)' :
              \/ i \in Lines(f) /\ files'[f][i] = files[f][i]
              \/ f = m_fp /\ i = Len(files[f]) + 1 /\ files'[f][i] = line
<1> USE DEF FilesOK, Fputs
<1>1. /\ files[m_fp] \in Seq(Items) /\ Len(files[m_fp]) \in Nat
      /\ Append(files[m_fp], line) \in Seq(Items)
      /\ Len(Append(files[m_fp], line)) = Len(files[m_fp]) + 1
      /\ \A i \in 1 .. Len(files[m_fp]) :
           Append(files[m_fp], line)[i] = files[m_fp][i]
      /\ Append(files[m_fp], line)[Len(files[m_fp]) + 1] = line
  <2>1. files[m_fp] \in Seq(Items)
    OBVIOUS
  <2> QED BY <2>1, AppendProperties, LenProperties
<1>2. /\ files' \in [FileNames -> Seq(Items)]
      /\ files'[m_fp] = Append(files[m_fp], line)
      /\ \A f \in FileNames : f # m_fp => files'[f] = files[f]
  BY <1>1
<1>3. FilesOK'
  BY <1>1, <1>2
<1>4. ASSUME NEW f \in FileNames, NEW i \in Lines(f)'
      PROVE  \/ i \in Lines(f) /\ files'[f][i] = files[f][i]
             \/ f = m_fp /\ i = Len(files[f]) + 1 /\ files'[f][i] = line
  <2>1. CASE f = m_fp
    BY <2>1, <1>1, <1>2, <1>4 DEF Lines
  <2>2. CASE f # m_fp
    BY <2>2, <1>2, <1>4 DEF Lines
  <2> QED BY <2>1, <2>2
<1> QED BY <1>3, <1>4

(* The file may be changed; what is in the files stays.                    *)
LEMMA CountKeepsFiles ==
  ASSUME LogInv, NEW w \in Writers, Count(w)
  PROVE  FilesOK' /\ files' = files
           /\ ((m_fp' = m_fp /\ unflushed' = unflushed) \/ unflushed' = 0)
<1>1. FilesOK /\ my_tm[w] \in 1 .. MaxDay
  BY Parts DEF ClockOK
<1>2. m_count' \in 0 .. MaxCount
  BY <1>1, Bounds DEF Count, FilesOK
<1>3. m_fp' \in FileNames
  BY SMTT(40), <1>1, <1>2, NamesOfFiles DEF Count, FilesOK
<1>4. files' = files /\ m_today' \in 1 .. MaxDay
      /\ ((m_fp' = m_fp /\ unflushed' = unflushed) \/ unflushed' = 0)
  BY <1>1 DEF Count
<1>5. Len(files[m_fp']) \in Nat
  BY <1>1, <1>3, LenProperties DEF FilesOK
<1> QED BY <1>1, <1>2, <1>3, <1>4, <1>5 DEF FilesOK

LEMMA LogInvStep ==
  ASSUME LogInv, [Next]_logVars
  PROVE  LogInv'
<1> DEFINE Goal == FilesOK' /\ ClockOK' /\ CallsOK'
<1>1. QueueTypeOK' /\ RingConsistent'
  BY LogStepIsQueueStep, QueueStep DEF QueueInv, LogInv, TypeOK
<1>2. FilesOK /\ ClockOK /\ CallsOK
  BY Parts
<1>3. ASSUME NEW w \in Writers, Gettimeofday(w) PROVE Goal
  <2>1. FilesOK' /\ ClockOK'
    BY <1>2, <1>3 DEF Gettimeofday, FilesOK, ClockOK, fileVars
  <2>2. calls'[w] \in 1 .. MaxLines /\ calls' \in [Writers -> 0 .. MaxLines]
    BY <1>2, <1>3, Bounds DEF Gettimeofday, CallsOK
  <2>3. CallsOK'
    BY <1>2, <1>3, <2>2 DEF Gettimeofday, Goto, CallsOK, InHand, queueVars
  <2> QED BY <2>1, <2>3
<1>4. ASSUME NEW w \in Writers, Localtime(w) \/ CopyTm(w) PROVE Goal
  <2>1. FilesOK' /\ ClockOK'
    BY <1>2, <1>4 DEF Localtime, CopyTm, FilesOK, ClockOK, fileVars
  <2>2. CASE Localtime(w)
    <3>1. CallsOK'
      BY <1>2, <2>2 DEF Localtime, Goto, CallsOK, InHand, queueVars
    <3> QED BY <2>1, <3>1
  <2>3. CASE CopyTm(w)
    <3>1. CallsOK'
      BY <1>2, <2>3 DEF CopyTm, Goto, CallsOK, InHand, queueVars
    <3> QED BY <2>1, <3>1
  <2> QED BY <1>4, <2>2, <2>3
<1>5. ASSUME NEW w \in Writers, Count(w) PROVE Goal
  <2>1. FilesOK'
    BY <1>5, CountKeepsFiles
  <2>2. ClockOK' /\ CallsOK'
    BY <1>2, <1>5 DEF Count, Goto, ClockOK, CallsOK, InHand, queueVars
  <2> QED BY <2>1, <2>2
<1>6. ASSUME NEW w \in Writers, Format(w) PROVE Goal
  BY <1>2, <1>6 DEF Format, Goto, FilesOK, ClockOK, CallsOK, InHand,
                    fileVars, queueVars
<1>7. ASSUME NEW w \in Writers, PushLine(w) PROVE Goal
  <2>1. Line(w) \in Items
    BY <1>7, LineIsItem DEF PushLine
  <2>2. item' = item
    BY <1>7 DEF PushLine, PushItem, PushRefused
  <2>3. FilesOK' /\ ClockOK'
    BY <1>2, <1>7 DEF PushLine, FilesOK, ClockOK, fileVars
  <2>4. CallsOK'
    BY <1>2, <1>7, <2>1, <2>2 DEF PushLine, Goto, CallsOK, InHand
  <2> QED BY <2>3, <2>4
<1>8. ASSUME NEW w \in Writers, WriteLine(w) PROVE Goal
  <2>1. Line(w) \in Items
    BY <1>8, LineIsItem DEF WriteLine
  <2>2. FilesOK'
    BY <1>2, <1>8, <2>1, FputsAppends DEF WriteLine
  <2>3. ClockOK' /\ CallsOK'
    BY <1>2, <1>8 DEF WriteLine, Goto, ClockOK, CallsOK, InHand, queueVars
  <2> QED BY <2>2, <2>3
<1>9. ASSUME NEW w \in Writers, Flush(w) PROVE Goal
  <2>1. Len(files[m_fp]) \in Nat
    BY <1>2, LenProperties DEF FilesOK
  <2> QED BY <1>2, <1>9, <2>1 DEF Flush, Goto, FilesOK, ClockOK, CallsOK,
                                  InHand, queueVars
<1>10. ASSUME FlusherPop PROVE Goal
  <2>1. writing' => item'[Flusher] \in Items
    <3>1. CASE m_size > 0
      <4>1. TakeFront(Flusher)
        BY <1>1, <1>10, <3>1, Parts DEF FlusherPop, Pop, QueueTypeOK
      <4>2. Contents # <<>> /\ item' = [item EXCEPT ![Flusher] = Head(Contents)]
        BY <4>1, <3>1, TakeIsHead, Bounds, Parts DEF QueueInv
      <4>3. Head(Contents) \in Items
        BY <4>2, WindowIsSeq, HeadTailProperties, Parts DEF QueueInv
      <4> QED BY <4>2, <4>3, Bounds, Parts DEF QueueTypeOK
    <3> QED BY <1>10, <3>1 DEF FlusherPop
  <2>2. FilesOK' /\ ClockOK'
    BY <1>2, <1>10 DEF FlusherPop, FilesOK, ClockOK, fileVars
  <2>3. CallsOK'
    BY <1>2, <1>10, <2>1 DEF FlusherPop, CallsOK, InHand
  <2> QED BY <2>2, <2>3
<1>11. ASSUME FlusherWrite PROVE Goal
  <2>1. item[Flusher] \in Items
    BY <1>2, <1>11 DEF FlusherWrite, CallsOK, InHand
  <2>2. FilesOK'
    BY <1>2, <1>11, <2>1, FputsAppends DEF FlusherWrite
  <2>3. ClockOK' /\ CallsOK'
    BY <1>2, <1>11 DEF FlusherWrite, ClockOK, CallsOK, InHand
  <2> QED BY <2>2, <2>3
<1>12. ASSUME FlusherWakes PROVE Goal
  BY <1>2, <1>12 DEF FlusherWakes, Spurious, FilesOK, ClockOK, CallsOK, InHand,
                     fileVars, threadVars
<1>13. ASSUME Midnight PROVE Goal
  BY <1>2, <1>13, Bounds DEF Midnight, FilesOK, ClockOK, CallsOK, InHand,
                     fileVars, threadVars, queueVars
<1>14. ASSUME UNCHANGED logVars PROVE Goal
  BY <1>2, <1>14 DEF logVars, FilesOK, ClockOK, CallsOK, InHand,
                     fileVars, threadVars, queueVars
<1>15. Goal
  BY <1>3, <1>4, <1>5, <1>6, <1>7, <1>8, <1>9, <1>10, <1>11, <1>12, <1>13,
     <1>14
  DEF Next, WriterStep, FlusherStep
<1> QED BY <1>1, <1>15 DEF LogInv, TypeOK, FilesOK, ClockOK, CallsOK

(* The log's threads use the queue as a bounded FIFO: a line that was      *)
(* pushed is handed to the flusher once, in the order of the pushes        *)
(* (log.cpp:224-231, log.h:55-65, block_queue.h:135-178).                  *)
THEOREM LogImplementsBoundedQueue == Spec => ImplementsBoundedQueue
<1>1. LogInv => QueueInv
  BY Parts DEF QueueInv
<1>2. Init => QueueInit
  BY DEF Init
<1> QED BY <1>1, <1>2, LogInit, LogInvStep, LogStepIsQueueStep, QueueStep,
           QueueStarts, PTL
        DEF Spec, ImplementsBoundedQueue, Queue!QSpec

-----------------------------------------------------------------------------
(* The files are touched only by a writer that then goes to flush them.    *)
LEMMA DiskStep ==
  ASSUME LogInv, DiskInv, [Next]_logVars
  PROVE  DiskInv'
<1>1. FilesOK /\ FilesOK' /\ CallsOK /\ CallsOK'
  BY Parts, LogInvStep DEF LogInv, TypeOK, FilesOK, CallsOK
<1>2. m_is_async' = m_is_async
  BY DEF Next, WriterStep, FlusherStep, Gettimeofday, Localtime, CopyTm,
           Count, Format,
         PushLine, WriteLine, Flush, FlusherPop, FlusherWrite, FlusherWakes,
         Midnight, logVars
<1>3. CASE m_is_async
  BY <1>2, <1>3 DEF DiskInv, OnDiskInOrder
<1>4. CASE ~m_is_async
  <2> DEFINE Unflushed ==
               \A i \in Lines(m_fp) : i > Len(files[m_fp]) - unflushed =>
                 \E w \in Writers : pc[w] = "flush" /\ files[m_fp][i] = Line(w)
             Ordered ==
               \A f \in FileNames : \A i, j \in Lines(f) :
                 i < j /\ files[f][i][1] = files[f][j][1]
                   => files[f][i][2] < files[f][j][2]
  <2>1. Unflushed /\ Ordered /\ Older
    BY <1>4 DEF DiskInv, OnDiskInOrder
  <2>2. SUFFICES Unflushed' /\ Ordered' /\ Older'
    BY <1>2, <1>4 DEF DiskInv, OnDiskInOrder
  <2>3. ASSUME UNCHANGED <<files, m_fp, unflushed, calls, pc>>
        PROVE  Unflushed' /\ Ordered' /\ Older'
    BY <2>1, <2>3 DEF Older, Lines, Line
  (* A line is put in the open file by the writer that goes to flush it.   *)
  <2>4. ASSUME NEW w \in Writers, WriteLine(w)
        PROVE  Unflushed' /\ Ordered' /\ Older'
    <3>1. /\ unflushed' = unflushed + 1 /\ Line(w) \in Items
          /\ \A f \in FileNames : \A i \in Lines(f)' :
               \/ i \in Lines(f) /\ files'[f][i] = files[f][i]
               \/ f = m_fp /\ i = Len(files[f]) + 1 /\ files'[f][i] = Line(w)
      BY <2>4, <1>1, LineIsItem, FputsAppends DEF WriteLine
    <3>2. /\ m_fp' = m_fp /\ calls' = calls /\ pc[w] = "write"
          /\ pc' = [pc EXCEPT ![w] = "flush"]
      BY <2>4 DEF WriteLine, Fputs, Goto
    <3>3. /\ \A f \in FileNames : Len(files[f]) \in Nat
          /\ Len(files[m_fp])' = Len(files[m_fp]) + 1
      <4>1. \A f \in FileNames : files[f] \in Seq(Items)
        BY <1>1 DEF FilesOK
      <4>2. files'[m_fp] = Append(files[m_fp], Line(w))
        BY <2>4, <1>1 DEF WriteLine, Fputs, FilesOK
      <4> QED BY <4>1, <4>2, <3>1, <3>2, <1>1, AppendProperties, LenProperties
              DEF FilesOK
    <3>4. Line(w)[1] = w /\ Line(w)[2] = calls[w] /\ calls[w] \in Nat
      BY <1>1 DEF Line, CallsOK
    <3>5. Unflushed'
      <4> SUFFICES ASSUME NEW i \in Lines(m_fp)',
                          i > Len(files[m_fp])' - unflushed'
                   PROVE  \E u \in Writers : pc'[u] = "flush"
                                             /\ files'[m_fp][i] = <<u, calls[u]>>
        BY <3>2 DEF Line
      <4>1. CASE i \in Lines(m_fp) /\ files'[m_fp][i] = files[m_fp][i]
        <5>1. i > Len(files[m_fp]) - unflushed
          BY <4>1, <3>1, <3>3, <1>1 DEF FilesOK, Lines
        <5>2. PICK u \in Writers : pc[u] = "flush" /\ files[m_fp][i] = Line(u)
          BY <2>1, <4>1, <5>1
        <5> QED BY <4>1, <5>2, <3>2, <1>1 DEF Line, CallsOK
      <4>2. CASE files'[m_fp][i] = Line(w)
        BY <4>2, <3>2, <1>1 DEF Line, CallsOK
      <4> QED BY <4>1, <4>2, <3>1, <3>2, <1>1 DEF FilesOK
    <3>6. \A f \in FileNames : \A i \in Lines(f) :
            files[f][i][1] = w => files[f][i][2] < calls[w]
      BY <2>1, <3>2 DEF Older
    <3>7. Ordered'
      <4> SUFFICES ASSUME NEW f \in FileNames, NEW i \in Lines(f)',
                          NEW j \in Lines(f)',
                          i < j, files'[f][i][1] = files'[f][j][1]
                   PROVE  files'[f][i][2] < files'[f][j][2]
        OBVIOUS
      <4>1. CASE j \in Lines(f) /\ files'[f][j] = files[f][j]
        <5>1. i \in Lines(f) /\ files'[f][i] = files[f][i]
          BY <4>1, <3>1, <3>3 DEF Lines
        <5> QED BY <4>1, <5>1, <2>1
      <4>2. CASE j = Len(files[f]) + 1 /\ files'[f][j] = Line(w)
        <5>1. i \in Lines(f) /\ files'[f][i] = files[f][i]
          <6>1. i # Len(files[f]) + 1
            BY <4>2, <3>3
          <6> QED BY <6>1, <3>1
        <5> QED BY <4>2, <5>1, <3>4, <3>6
      <4> QED BY <4>1, <4>2, <3>1
    <3>8. Older'
      <4> SUFFICES ASSUME NEW f \in FileNames, NEW i \in Lines(f)',
                          NEW u \in Writers, files'[f][i][1] = u
                   PROVE  /\ files'[f][i][2] <= calls[u]
                          /\ pc'[u] \in {"date", "copy", "count", "format", "push", "write"}
                               => files'[f][i][2] < calls[u]
        BY <3>2 DEF Older
      <4>1. CASE i \in Lines(f) /\ files'[f][i] = files[f][i]
        BY <4>1, <2>1, <3>2, <1>1 DEF Older, CallsOK
      <4>2. CASE files'[f][i] = Line(w)
        BY <4>2, <3>2, <3>4, <1>1 DEF CallsOK
      <4> QED BY <4>1, <4>2, <3>1
    <3> QED BY <3>5, <3>7, <3>8
  (* Nothing is left to flush.                                             *)
  <2>5. ASSUME files' = files, unflushed' = 0, UNCHANGED calls,
               \A w \in Writers :
                 pc'[w] \in {"date", "copy", "count", "format", "push", "write"}
                   => pc[w] \in {"date", "copy", "count", "format", "push", "write"}
        PROVE  Unflushed' /\ Ordered' /\ Older'
    <3>1. Len(files[m_fp])' \in Nat
      BY <1>1, LenProperties DEF FilesOK
    <3> QED BY <2>1, <2>5, <3>1 DEF Older, Lines
  <2>6. ASSUME NEW w \in Writers, Flush(w)
        PROVE  Unflushed' /\ Ordered' /\ Older'
    BY <2>5, <2>6, <1>1 DEF Flush, Goto, CallsOK
  <2>7. ASSUME NEW w \in Writers, UNCHANGED <<files, m_fp, unflushed, calls>>,
               pc[w] \in {"date", "copy", "count", "format"},
               pc'[w] \in {"date", "copy", "count", "format", "push", "write"},
               \A u \in Writers \ {w} : pc'[u] = pc[u]
        PROVE  Unflushed' /\ Ordered' /\ Older'
    <3>1. \A u \in Writers :
            /\ pc[u] = "flush" => pc'[u] = "flush"
            /\ pc'[u] \in {"date", "copy", "count", "format", "push", "write"}
                 => pc[u] \in {"date", "copy", "count", "format", "push", "write"}
      BY <2>7
    <3>2. Unflushed' /\ Ordered'
      BY <2>1, <2>7, <3>1 DEF Lines, Line
    <3>3. Older'
      BY <2>1, <2>7, <3>1 DEF Older, Lines
    <3> QED BY <3>2, <3>3
  <2>8. ASSUME NEW w \in Writers, Count(w)
        PROVE  Unflushed' /\ Ordered' /\ Older'
    BY <2>5, <2>7, <2>8, <1>1, CountKeepsFiles DEF Count, Goto, CallsOK
  <2>9. ASSUME NEW w \in Writers, Localtime(w) \/ CopyTm(w) \/ Format(w)
        PROVE  Unflushed' /\ Ordered' /\ Older'
    BY <2>7, <2>9, <1>1 DEF Localtime, CopyTm, Format, Goto, CallsOK, fileVars
  (* A writer that pushes has nothing unflushed: the log is synchronous,   *)
  (* and it goes from push to flush with its line in no file.              *)
  <2>10. ASSUME NEW w \in Writers, PushLine(w)
         PROVE  Unflushed' /\ Ordered' /\ Older'
    <3>1. /\ UNCHANGED <<files, m_fp, unflushed, calls>>
          /\ \A u \in Writers : pc[u] = "flush" => pc'[u] = "flush"
          /\ \A u \in Writers :
               pc'[u] \in {"date", "copy", "count", "format", "push", "write"} => pc'[u] = pc[u]
      BY <2>10, <1>1 DEF PushLine, Goto, CallsOK, fileVars
    <3> QED BY <2>1, <3>1 DEF Older, Lines, Line
  (* The next line is younger than those in the files.                     *)
  <2>11. ASSUME NEW w \in Writers, Gettimeofday(w)
         PROVE  Unflushed' /\ Ordered' /\ Older'
    <3>1. /\ UNCHANGED <<files, m_fp, unflushed>> /\ pc[w] = "out"
          /\ pc' = [pc EXCEPT ![w] = "date"]
          /\ calls' = [calls EXCEPT ![w] = calls[w] + 1]
      BY <2>11 DEF Gettimeofday, Goto, fileVars
    <3>2. Ordered'
      BY <2>1, <3>1 DEF Lines
    <3>3. Unflushed'
      BY <2>1, <3>1, <1>1 DEF Lines, Line, CallsOK
    <3>4. Older'
      <4> SUFFICES ASSUME NEW f \in FileNames, NEW i \in Lines(f),
                          NEW u \in Writers, files[f][i][1] = u
                   PROVE  /\ files[f][i][2] <= calls'[u]
                          /\ pc'[u] \in {"date", "copy", "count", "format", "push", "write"}
                               => files[f][i][2] < calls'[u]
        BY <3>1 DEF Older, Lines
      <4>1. files[f][i] \in Items
        BY <1>1 DEF FilesOK, Lines
      <4>2. files[f][i][2] \in Nat /\ calls[u] \in Nat
        BY <4>1, <1>1, Bounds DEF CallsOK
      <4> QED BY <4>2, <2>1, <3>1, <1>1 DEF Older, CallsOK
    <3> QED BY <3>2, <3>3, <3>4
  <2>12. ~FlusherPop
    BY <1>4 DEF FlusherPop
  <2>13. ~FlusherWrite
    BY <1>4 DEF FlusherWrite, LogInv, InHand
  <2>14. ASSUME FlusherWakes \/ Midnight \/ UNCHANGED logVars
         PROVE  Unflushed' /\ Ordered' /\ Older'
    BY <2>3, <2>14 DEF FlusherWakes, Midnight, logVars, fileVars, threadVars
  <2> HIDE DEF Unflushed, Ordered
  <2> QED BY <2>4, <2>6, <2>8, <2>9, <2>10, <2>11, <2>12, <2>13, <2>14
          DEF Next, WriterStep, FlusherStep
<1> QED BY <1>3, <1>4
(* The synchronous log, the one the server uses: a line is on disk when    *)
(* the call that logs it has returned, although the file may be changed    *)
(* and the buffer flushed by other threads between any two of its steps,   *)
(* and each thread's lines are in order in every file                      *)
(* (log.cpp:161-186, 232-236, 242-248).                                    *)
THEOREM SynchronousLogOnDisk == Spec => []OnDiskInOrder
<1>1. DiskInv => OnDiskInOrder
  BY DEF DiskInv
<1> QED BY <1>1, LogInit, LogInvStep, DiskStep, PTL DEF Spec
-----------------------------------------------------------------------------
Sole(S) == \E p \in S : S = {p}

(* A line that was begun is in one place and any other is nowhere; and the *)
(* synchronous log does not push.                                          *)
PlaceInv ==
  /\ \A line \in Items : IF line \in Begun THEN Sole(Places(line))
                                           ELSE Places(line) = {}
  /\ ~m_is_async => lost = {} /\ \A w \in Writers : pc[w] # "push"

(* The parts have nothing in common.                                       *)
LEMMA KindsDiffer ==
  ASSUME NEW line
  PROVE  /\ \A p \in WriterPlaces(line) : p[1] = "writer"
         /\ \A p \in QueuePlaces(line) : p[1] = "queue"
         /\ \A p \in FlusherPlaces(line) : p[1] = "flusher"
         /\ \A p \in FilePlaces(line) : p[1] = "file"
         /\ \A p \in LostPlaces(line) : p[1] = "lost"
<1>1. \A p \in WriterPlaces(line) : p[1] = "writer"
  BY DEF WriterPlaces
<1>2. \A p \in QueuePlaces(line) : p[1] = "queue"
  BY DEF QueuePlaces
<1>3. \A p \in FlusherPlaces(line) : p[1] = "flusher"
  BY DEF FlusherPlaces
<1>4. \A p \in FilePlaces(line) : p[1] = "file"
  BY DEF FilePlaces
<1>5. \A p \in LostPlaces(line) : p[1] = "lost"
  BY DEF LostPlaces
<1> QED BY <1>1, <1>2, <1>3, <1>4, <1>5

(* What a step does to each part.                                          *)
LEMMA WriterStays ==
  ASSUME CallsOK, NEW w \in Writers, NEW label, calls' = calls, Goto(w, label),
         pc[w] \notin {"out", "flush"} <=> label \notin {"out", "flush"}
  PROVE  \A line : WriterPlaces(line)' = WriterPlaces(line)
<1>1. \A u \in Writers : /\ pc'[u] \notin {"out", "flush"} <=> pc[u] \notin {"out", "flush"}
                         /\ Line(u)' = Line(u)
  BY DEF CallsOK, Goto, Line
<1> QED BY <1>1 DEF WriterPlaces

LEMMA WriterLeaves ==
  ASSUME CallsOK, NEW w \in Writers, NEW x, x = Line(w), calls' = calls,
         Goto(w, "flush"), pc[w] \notin {"out", "flush"}
  PROVE  /\ <<"writer", w>> \in WriterPlaces(x)
         /\ WriterPlaces(x)' = {}
         /\ \A line : line # x => WriterPlaces(line)' = WriterPlaces(line)
<1>1. \A u \in Writers : Line(u)' = Line(u)
  BY DEF Line
<1>2. \A u \in Writers : Line(u) = x => u = w
  BY DEF Line
<1>3. pc' = [pc EXCEPT ![w] = "flush"] /\ pc'[w] = "flush"
  BY DEF CallsOK, Goto
<1>4. WriterPlaces(x)' = {}
  BY <1>1, <1>2, <1>3 DEF WriterPlaces
<1>5. <<"writer", w>> \in WriterPlaces(x)
  BY DEF WriterPlaces
<1>6. ASSUME NEW line, line # x
      PROVE  WriterPlaces(line)' = WriterPlaces(line)
  <2>1. \A u \in Writers : Line(u) = line => u # w
    BY <1>6
  <2> QED BY <1>1, <1>3, <2>1 DEF WriterPlaces, CallsOK
<1> QED BY <1>4, <1>5, <1>6

LEMMA FlusherStays ==
  ASSUME writing' <=> writing, writing => item' = item
  PROVE  \A line : FlusherPlaces(line)' = FlusherPlaces(line)
BY DEF FlusherPlaces

LEMMA QueueStays ==
  ASSUME UNCHANGED queueVars
  PROVE  \A line : QueuePlaces(line)' = QueuePlaces(line)
BY DEF queueVars, ring, QueuePlaces, Contents, Cell

LEMMA FilesStay ==
  ASSUME files' = files
  PROVE  \A line : FilePlaces(line)' = FilePlaces(line)
BY DEF FilePlaces, Lines

LEMMA LostStays ==
  ASSUME lost' = lost
  PROVE  \A line : LostPlaces(line)' = LostPlaces(line)
BY DEF LostPlaces

(* A line that is put into a file.                                         *)
LEMMA FileMember ==
  ASSUME NEW line, NEW p
  PROVE  p \in FilePlaces(line) <=>
           \E f \in FileNames : \E i \in Lines(f) :
             p = <<"file", f, i>> /\ files[f][i] = line
BY DEF FilePlaces

LEMMA FileMemberNext ==
  ASSUME NEW line, NEW p
  PROVE  p \in FilePlaces(line)' <=>
           \E f \in FileNames : \E i \in Lines(f)' :
             p = <<"file", f, i>> /\ files'[f][i] = line
BY DEF FilePlaces

LEMMA FileTakes ==
  ASSUME FilesOK, NEW x \in Items, Fputs(x)
  PROVE  /\ FilePlaces(x)' = FilePlaces(x)
                               \cup {<<"file", m_fp, Len(files[m_fp]) + 1>>}
         /\ \A line : line # x => FilePlaces(line)' = FilePlaces(line)
<1> DEFINE n == Len(files[m_fp])
<1>1. /\ files' \in [FileNames -> Seq(Items)] /\ m_fp \in FileNames /\ n \in Nat
      /\ files[m_fp] \in Seq(Items)
      /\ \A f \in FileNames : f # m_fp => files'[f] = files[f]
      /\ files'[m_fp] = Append(files[m_fp], x)
  BY FputsAppends, LenProperties DEF FilesOK, Fputs
<1>2. /\ Len(files'[m_fp]) = n + 1 /\ files'[m_fp][n + 1] = x
      /\ \A i \in 1 .. n : files'[m_fp][i] = files[m_fp][i]
  BY <1>1, AppendProperties
<1>3. /\ Lines(m_fp) = 1 .. n
      /\ \A f \in FileNames : f # m_fp => Lines(f)' = Lines(f)
  BY <1>1 DEF Lines
<1>4. \A i : (i \in 1 .. Len(files'[m_fp]) <=> i \in 1 .. n \/ i = n + 1)
  BY <1>1, <1>2
<1>5. \A i : (i \in 1 .. Len(files'[m_fp]) <=> i \in Lines(m_fp) \/ i = n + 1)
           /\ (i \in Lines(m_fp) => files'[m_fp][i] = files[m_fp][i])
  BY <1>2, <1>3, <1>4
<1>6. \A f \in FileNames : \A i : i \in Lines(f)' <=>
        i \in Lines(f) \/ (f = m_fp /\ i = n + 1)
  BY <1>3, <1>5 DEF Lines
<1>7. \A f \in FileNames : \A i \in Lines(f) : files'[f][i] = files[f][i]
  BY <1>1, <1>5
<1> HIDE DEF n
<1>8. FilePlaces(x)' = FilePlaces(x) \cup {<<"file", m_fp, n + 1>>}
  <2> DEFINE new == <<"file", m_fp, n + 1>>
  <2>1. ASSUME NEW p, p \in FilePlaces(x)'
        PROVE  p \in FilePlaces(x) \/ p = new
    <3>1. PICK f \in FileNames : \E i \in Lines(f)' :
            p = <<"file", f, i>> /\ files'[f][i] = x
      BY <2>1, FileMemberNext
    <3>2. PICK i \in Lines(f)' : p = <<"file", f, i>> /\ files'[f][i] = x
      BY <3>1
    <3>3. CASE i \in Lines(f)
      BY <3>2, <3>3, <1>7, FileMember
    <3>4. CASE f = m_fp /\ i = n + 1
      BY <3>2, <3>4
    <3> QED BY <3>3, <3>4, <1>6
  <2>2. ASSUME NEW p, p \in FilePlaces(x) PROVE p \in FilePlaces(x)'
    BY <2>2, <1>6, <1>7, FileMember, FileMemberNext
  <2>3. new \in FilePlaces(x)'
    BY <1>1, <1>2, <1>6, FileMemberNext DEF n
  <2> QED BY <2>1, <2>2, <2>3
<1>9. ASSUME NEW line, line # x PROVE FilePlaces(line)' = FilePlaces(line)
  <2>1. ASSUME NEW p, p \in FilePlaces(line)' PROVE p \in FilePlaces(line)
    <3>1. PICK f \in FileNames : \E i \in Lines(f)' :
            p = <<"file", f, i>> /\ files'[f][i] = line
      BY <2>1, FileMemberNext
    <3>2. PICK i \in Lines(f)' : p = <<"file", f, i>> /\ files'[f][i] = line
      BY <3>1
    <3>3. i \in Lines(f)
      BY <3>2, <1>1, <1>2, <1>6, <1>9 DEF n
    <3> QED BY <3>2, <3>3, <1>7, FileMember
  <2>2. ASSUME NEW p, p \in FilePlaces(line) PROVE p \in FilePlaces(line)'
    BY <2>2, <1>6, <1>7, FileMember, FileMemberNext
  <2> QED BY <2>1, <2>2
<1> QED BY <1>8, <1>9 DEF n

(* A line that is put into the queue, and one that is taken out of it.     *)
LEMMA QueueTakes ==
  ASSUME QueueInv, NEW x \in Items, PushItem(x)
  PROVE  /\ QueuePlaces(x)' = QueuePlaces(x) \cup {<<"queue", m_size + 1>>}
         /\ \A line : line # x => QueuePlaces(line)' = QueuePlaces(line)
<1>1. /\ m_size \in Nat /\ Contents \in Seq(Items) /\ Len(Contents) = m_size
      /\ Contents' = Append(Contents, x)
  BY WindowIsSeq, PushAppends
<1>2. m_size' = m_size + 1
  BY DEF PushItem, AppendItem
<1>3. /\ Contents'[m_size + 1] = x
      /\ \A i \in 1 .. m_size : Contents'[i] = Contents[i]
  BY <1>1, AppendProperties
<1>4. \A i : i \in 1 .. m_size' <=> i \in 1 .. m_size \/ i = m_size + 1
  BY <1>1, <1>2
<1>5. \A line : \A p : p \in QueuePlaces(line)' <=>
        \E i \in 1 .. m_size' : p = <<"queue", i>> /\ Contents'[i] = line
  BY DEF QueuePlaces
<1>6. \A line : \A p : p \in QueuePlaces(line) <=>
        \E i \in 1 .. m_size : p = <<"queue", i>> /\ Contents[i] = line
  BY DEF QueuePlaces
<1>7. \A p : p \in QueuePlaces(x)' <=>
               p \in QueuePlaces(x) \/ p = <<"queue", m_size + 1>>
  BY <1>3, <1>4, <1>5, <1>6
<1>8. QueuePlaces(x)' = QueuePlaces(x) \cup {<<"queue", m_size + 1>>}
  BY <1>7
<1>9. ASSUME NEW line, line # x PROVE QueuePlaces(line)' = QueuePlaces(line)
  <2>1. \A p : p \in QueuePlaces(line)' <=> p \in QueuePlaces(line)
    BY <1>3, <1>4, <1>5, <1>6, <1>9
  <2> QED BY <2>1
<1> QED BY <1>8, <1>9

LEMMA QueueGives ==
  ASSUME QueueInv, m_size > 0, TakeFront(Flusher)
  PROVE  /\ Contents[1] \in Items /\ item'[Flusher] = Contents[1]
         /\ <<"queue", 1>> \in QueuePlaces(Contents[1])
         /\ \A line : \A p : p \in QueuePlaces(line)' <=>
              \E i \in 2 .. m_size : p = <<"queue", i - 1>> /\ Contents[i] = line
<1>1. Flusher \in Threads
  BY Bounds
<1>2. /\ m_size \in Nat /\ Contents \in Seq(Items) /\ Len(Contents) = m_size
      /\ Contents # <<>> /\ Contents' = Tail(Contents)
      /\ item' = [item EXCEPT ![Flusher] = Head(Contents)]
  BY <1>1, WindowIsSeq, TakeIsHead
<1>3. m_size' = m_size - 1
  BY DEF TakeFront
<1>4. /\ Head(Contents) = Contents[1] /\ Contents[1] \in Items
      /\ \A i \in 1 .. m_size - 1 : Contents'[i] = Contents[i + 1]
  BY <1>2, HeadTailProperties
<1>5. item'[Flusher] = Contents[1]
  BY <1>1, <1>2, <1>4 DEF QueueInv, QueueTypeOK
<1>6. <<"queue", 1>> \in QueuePlaces(Contents[1])
  BY <1>2 DEF QueuePlaces
<1>7. ASSUME NEW line, NEW p
      PROVE  p \in QueuePlaces(line)' <=>
               \E i \in 2 .. m_size : p = <<"queue", i - 1>> /\ Contents[i] = line
  <2>1. p \in QueuePlaces(line)' <=>
          \E i \in 1 .. m_size - 1 : p = <<"queue", i>> /\ Contents'[i] = line
    BY <1>3 DEF QueuePlaces
  <2>2. ASSUME NEW i \in 1 .. m_size - 1, p = <<"queue", i>>, Contents'[i] = line
        PROVE  \E j \in 2 .. m_size : p = <<"queue", j - 1>> /\ Contents[j] = line
    <3>1. i + 1 \in 2 .. m_size /\ i = (i + 1) - 1 /\ Contents[i + 1] = line
      BY <2>2, <1>2, <1>4
    <3> QED BY <3>1, <2>2
  <2>3. ASSUME NEW j \in 2 .. m_size, p = <<"queue", j - 1>>, Contents[j] = line
        PROVE  \E i \in 1 .. m_size - 1 : p = <<"queue", i>> /\ Contents'[i] = line
    <3>1. j - 1 \in 1 .. m_size - 1 /\ (j - 1) + 1 = j
      BY <1>2
    <3>2. Contents'[j - 1] = line
      BY <2>3, <3>1, <1>4
    <3> QED BY <3>1, <3>2, <2>3
  <2> QED BY <2>1, <2>2, <2>3
<1> QED BY <1>4, <1>5, <1>6, <1>7

(* Where a line is known to be, it is nowhere else.                        *)
LEMMA NowhereElse ==
  ASSUME PlaceInv, NEW line \in Items, NEW p, p \in Places(line)
  PROVE  line \in Begun /\ Places(line) = {p}
BY DEF PlaceInv, Sole

LEMMA FromWriter ==
  ASSUME PlaceInv, NEW x \in Items, NEW w, <<"writer", w>> \in WriterPlaces(x)
  PROVE  /\ x \in Begun
         /\ QueuePlaces(x) = {} /\ FlusherPlaces(x) = {}
         /\ FilePlaces(x) = {} /\ LostPlaces(x) = {}
<1>1. x \in Begun /\ Places(x) = {<<"writer", w>>}
  BY NowhereElse DEF Places
<1>2. <<"writer", w>>[1] = "writer"
  OBVIOUS
<1>3. \A p \in Places(x) : p[1] = "writer"
  BY <1>1, <1>2
<1> QED BY <1>1, <1>3, KindsDiffer DEF Places

LEMMA FromFlusher ==
  ASSUME PlaceInv, NEW x \in Items, <<"flusher", Flusher>> \in FlusherPlaces(x)
  PROVE  /\ x \in Begun
         /\ WriterPlaces(x) = {} /\ QueuePlaces(x) = {}
         /\ FilePlaces(x) = {} /\ LostPlaces(x) = {}
<1>1. x \in Begun /\ Places(x) = {<<"flusher", Flusher>>}
  BY NowhereElse DEF Places
<1>2. <<"flusher", Flusher>>[1] = "flusher"
  OBVIOUS
<1>3. \A p \in Places(x) : p[1] = "flusher"
  BY <1>1, <1>2
<1> QED BY <1>1, <1>3, KindsDiffer DEF Places

LEMMA FromQueue ==
  ASSUME PlaceInv, NEW x \in Items, NEW i, <<"queue", i>> \in QueuePlaces(x)
  PROVE  /\ x \in Begun /\ QueuePlaces(x) = {<<"queue", i>>}
         /\ WriterPlaces(x) = {} /\ FlusherPlaces(x) = {}
         /\ FilePlaces(x) = {} /\ LostPlaces(x) = {}
<1>1. x \in Begun /\ Places(x) = {<<"queue", i>>}
  BY NowhereElse DEF Places
<1>2. <<"queue", i>>[1] = "queue"
  OBVIOUS
<1>3. \A p \in Places(x) : p[1] = "queue"
  BY <1>1, <1>2
<1>4. WriterPlaces(x) = {} /\ FlusherPlaces(x) = {} /\ FilePlaces(x) = {} /\ LostPlaces(x) = {}
  BY <1>3, KindsDiffer DEF Places
<1> QED BY <1>1, <1>4 DEF Places

LEMMA PlaceInit == Init => PlaceInv
<1> SUFFICES ASSUME Init PROVE PlaceInv
  OBVIOUS
<1>1. Begun = {}
  BY Bounds DEF Init, Begun
<1>2. ASSUME NEW line \in Items PROVE Places(line) = {}
  <2>1. WriterPlaces(line) = {} /\ FlusherPlaces(line) = {} /\ LostPlaces(line) = {}
    BY DEF Init, WriterPlaces, FlusherPlaces, LostPlaces
  <2>2. QueuePlaces(line) = {}
    BY DEF Init, QueueInit, QueuePlaces
  <2>3. \A f \in FileNames : Lines(f) = {}
    BY DEF Init, Lines
  <2>4. FilePlaces(line) = {}
    BY <2>3 DEF FilePlaces
  <2> QED BY <2>1, <2>2, <2>4 DEF Places
<1> QED BY <1>1, <1>2 DEF PlaceInv, Init

(* A line goes on from place to place, and no step puts it into two.       *)
LEMMA PlaceStep ==
  ASSUME LogInv, PlaceInv, [Next]_logVars
  PROVE  PlaceInv'
<1> DEFINE OnePlace(line) == IF line \in Begun THEN Sole(Places(line))
                                               ELSE Places(line) = {}
           Goal == \A line \in Items : OnePlace(line)'
<1>1. FilesOK /\ CallsOK /\ QueueInv /\ QueueTypeOK
  BY Parts DEF QueueInv
<1>2. ASSUME NEW line, Begun' = Begun,
             WriterPlaces(line)' = WriterPlaces(line),
             QueuePlaces(line)' = QueuePlaces(line),
             FlusherPlaces(line)' = FlusherPlaces(line),
             FilePlaces(line)' = FilePlaces(line),
             LostPlaces(line)' = LostPlaces(line),
             line \in Items
      PROVE  OnePlace(line)'
  <2>1. Places(line)' = Places(line)
    BY <1>2 DEF Places
  <2> QED BY <1>2, <2>1 DEF PlaceInv, Sole
<1>3. calls' = calls => Begun' = Begun
  BY DEF Begun
(* A line is begun.                                                        *)
<1>4. ASSUME NEW w \in Writers, Gettimeofday(w) PROVE Goal
  <2>0. PICK x : x = <<w, calls[w] + 1>>
    OBVIOUS
  <2>1. /\ calls[w] \in Nat /\ calls[w] < MaxLines /\ pc[w] = "out"
        /\ calls' = [calls EXCEPT ![w] = calls[w] + 1]
        /\ pc' = [pc EXCEPT ![w] = "date"]
    BY <1>1, <1>4 DEF Gettimeofday, Goto, CallsOK
  <2>2. x \in Items /\ x \notin Begun
    BY <2>0, <2>1, Bounds DEF Begun
  <2>3. /\ Line(w)' = x /\ pc'[w] = "date"
        /\ \A u \in Writers : u # w => Line(u)' = Line(u) /\ pc'[u] = pc[u]
        /\ \A u \in Writers : u # w => Line(u)[1] # w
    BY <2>0, <2>1, <1>1 DEF Line, CallsOK
  <2>4. ASSUME NEW line \in Items
        PROVE  /\ QueuePlaces(line)' = QueuePlaces(line)
               /\ FlusherPlaces(line)' = FlusherPlaces(line)
               /\ FilePlaces(line)' = FilePlaces(line)
               /\ LostPlaces(line)' = LostPlaces(line)
    BY <1>4, QueueStays, FlusherStays, FilesStay, LostStays
    DEF Gettimeofday, queueVars, fileVars
  <2>5. WriterPlaces(x)' = {<<"writer", w>>}
    <3>1. \A u \in Writers : Line(u)' = x /\ pc'[u] \notin {"out", "flush"} <=> u = w
      <4>1. \A u \in Writers : u # w => Line(u)' # x
        BY <2>0, <2>3
      <4> QED BY <4>1, <2>3
    <3> QED BY <3>1 DEF WriterPlaces
  <2>6. ASSUME NEW line \in Items, line # x
        PROVE  WriterPlaces(line)' = WriterPlaces(line)
    <3>1. \A u \in Writers : Line(u)' = line /\ pc'[u] \notin {"out", "flush"}
             <=> Line(u) = line /\ pc[u] \notin {"out", "flush"}
      BY <2>1, <2>3, <2>6
    <3> QED BY <3>1 DEF WriterPlaces
  <2>7. \A line \in Items : line \in Begun' <=> line \in Begun \/ line = x
    <3> SUFFICES ASSUME NEW v \in Writers, NEW n \in 1 .. MaxLines
                 PROVE  n <= calls'[v] <=> n <= calls[v] \/ (v = w /\ n = calls[w] + 1)
      BY <2>0, Bounds DEF Begun
    <3> QED BY <2>1, <1>1, Bounds DEF CallsOK
  <2>8. OnePlace(x)'
    <3>1. Places(x) = {}
      BY <2>2 DEF PlaceInv
    <3>2. Places(x)' = {<<"writer", w>>}
      BY <3>1, <2>2, <2>4, <2>5 DEF Places
    <3> QED BY <3>2, <2>2, <2>7 DEF Sole
  <2>9. ASSUME NEW line \in Items, line # x PROVE OnePlace(line)'
    <3>1. Places(line)' = Places(line)
      BY <2>4, <2>6, <2>9 DEF Places
    <3> QED BY <3>1, <2>7, <2>9 DEF PlaceInv, Sole
  <2> QED BY <2>8, <2>9
(* It stays with its writer, or that is done with it.                      *)
<1>5. ASSUME NEW w \in Writers, Localtime(w) \/ CopyTm(w) \/ Count(w)
             \/ Format(w) \/ Flush(w)
      PROVE  Goal
  <2>1. UNCHANGED <<queueVars, calls, writing, files, lost>>
    BY <1>5 DEF Localtime, CopyTm, Count, Format, Flush, fileVars
  <2>2. \A line : WriterPlaces(line)' = WriterPlaces(line)
    <3>1. CASE Localtime(w) \/ CopyTm(w)
      BY <1>1, <3>1, WriterStays DEF Localtime, CopyTm
    <3>2. CASE Count(w)
      BY <1>1, <3>2, WriterStays DEF Count
    <3>3. CASE Format(w)
      BY <1>1, <3>3, WriterStays DEF Format
    <3>4. CASE Flush(w)
      BY <1>1, <3>4, WriterStays DEF Flush
    <3> QED BY <1>5, <3>1, <3>2, <3>3, <3>4
  <2>3. item' = item
    BY <2>1 DEF queueVars
  <2> QED BY <2>1, <2>2, <2>3, <1>2, <1>3, QueueStays, FlusherStays, FilesStay, LostStays
(* The writer puts it into the file, past the queue.                       *)
<1>6. ASSUME NEW w \in Writers, WriteLine(w) PROVE Goal
  <2>1. PICK x \in Items : x = Line(w)
    BY <1>6, LineIsItem DEF WriteLine
  <2> DEFINE p == <<"file", m_fp, Len(files[m_fp]) + 1>>
  <2>2. /\ <<"writer", w>> \in WriterPlaces(x) /\ WriterPlaces(x)' = {}
        /\ \A line : line # x => WriterPlaces(line)' = WriterPlaces(line)
    BY <1>1, <1>6, <2>1, WriterLeaves DEF WriteLine
  <2>3. /\ FilePlaces(x)' = FilePlaces(x) \cup {p}
        /\ \A line : line # x => FilePlaces(line)' = FilePlaces(line)
    BY <1>1, <1>6, <2>1, FileTakes DEF WriteLine
  <2>4. /\ calls' = calls /\ item' = item
        /\ \A line : /\ QueuePlaces(line)' = QueuePlaces(line)
                     /\ FlusherPlaces(line)' = FlusherPlaces(line)
                     /\ LostPlaces(line)' = LostPlaces(line)
    BY <1>6, QueueStays, FlusherStays, LostStays DEF WriteLine, queueVars
  <2>5. OnePlace(x)'
    <3>1. /\ x \in Begun /\ QueuePlaces(x) = {} /\ FlusherPlaces(x) = {}
          /\ FilePlaces(x) = {} /\ LostPlaces(x) = {}
      BY <2>1, <2>2, FromWriter
    <3> HIDE DEF p
    <3>2. Places(x)' = {p}
      BY <3>1, <2>2, <2>3, <2>4 DEF Places
    <3>3. Begun' = Begun
      BY <2>4, <1>3
    <3> QED BY <3>1, <3>2, <3>3 DEF Sole
  <2> HIDE DEF p
  <2> QED BY <2>2, <2>3, <2>4, <2>5, <1>2, <1>3
(* ... or into the queue; a push that is refused loses it.                 *)
<1>7. ASSUME NEW w \in Writers, PushLine(w) PROVE Goal
  <2>1. PICK x \in Items : x = Line(w)
    BY <1>7, LineIsItem DEF PushLine
  <2>2. /\ <<"writer", w>> \in WriterPlaces(x) /\ WriterPlaces(x)' = {}
        /\ \A line : line # x => WriterPlaces(line)' = WriterPlaces(line)
    BY <1>1, <1>7, <2>1, WriterLeaves DEF PushLine
  <2>3. /\ x \in Begun /\ QueuePlaces(x) = {} /\ FlusherPlaces(x) = {}
        /\ FilePlaces(x) = {} /\ LostPlaces(x) = {}
    BY <2>1, <2>2, FromWriter
  <2>4. /\ calls' = calls /\ item' = item /\ Begun' = Begun
        /\ \A line : /\ FlusherPlaces(line)' = FlusherPlaces(line)
                     /\ FilePlaces(line)' = FilePlaces(line)
    <3>1. calls' = calls /\ item' = item /\ files' = files /\ writing' = writing
      BY <1>7 DEF PushLine, PushItem, PushRefused, fileVars
    <3> QED BY <3>1, <1>3, FlusherStays, FilesStay
  <2>5. CASE PushItem(x)
    <3> DEFINE p == <<"queue", m_size + 1>>
    <3>1. /\ QueuePlaces(x)' = QueuePlaces(x) \cup {p}
          /\ \A line : line # x => QueuePlaces(line)' = QueuePlaces(line)
      BY <2>1, <2>5, <1>1, QueueTakes
    <3>2. \A line : LostPlaces(line)' = LostPlaces(line)
      BY <1>7, <2>5, LostStays DEF PushLine, PushItem
    <3> HIDE DEF p
    <3>3. Places(x)' = {p}
      BY <2>2, <2>3, <2>4, <3>1, <3>2 DEF Places
    <3>4. OnePlace(x)'
      BY <2>3, <2>4, <3>3 DEF Sole
    <3> QED BY <2>2, <2>4, <3>1, <3>2, <3>4, <1>2
  <2>6. CASE PushRefused
    <3>1. is_full /\ UNCHANGED <<ring, item>>
      BY <2>6 DEF PushRefused
    <3>2. lost' = lost \cup {x}
      BY <1>7, <2>1, <3>1 DEF PushLine
    <3>3. \A line : QueuePlaces(line)' = QueuePlaces(line)
      BY <3>1 DEF ring, QueuePlaces, Contents, Cell
    <3>4. LostPlaces(x)' = {<<"lost", x>>}
      BY <3>2 DEF LostPlaces
    <3>5. ASSUME NEW line, line # x PROVE LostPlaces(line)' = LostPlaces(line)
      <4>1. (lost \cap {line})' = lost \cap {line}
        BY <3>2, <3>5
      <4> QED BY <4>1 DEF LostPlaces
    <3>6. Places(x)' = {<<"lost", x>>}
      BY <2>2, <2>3, <2>4, <3>3, <3>4 DEF Places
    <3>7. OnePlace(x)'
      BY <2>3, <2>4, <3>6 DEF Sole
    <3> QED BY <2>2, <2>4, <3>3, <3>5, <3>7, <1>2
  <2> QED BY <1>7, <2>1, <2>5, <2>6 DEF PushLine
(* The flusher takes the oldest line; the others move up.                  *)
<1>8. ASSUME FlusherPop PROVE Goal
  <2>1. /\ UNCHANGED <<pc, calls, files, lost>> /\ ~writing /\ writing' = (m_size > 0)
        /\ Begun' = Begun
    BY <1>8, <1>3 DEF FlusherPop, fileVars
  <2>2. \A line : /\ WriterPlaces(line)' = WriterPlaces(line)
                  /\ FilePlaces(line)' = FilePlaces(line)
                  /\ LostPlaces(line)' = LostPlaces(line)
                  /\ FlusherPlaces(line) = {}
    BY <2>1, FilesStay, LostStays DEF WriterPlaces, FlusherPlaces, Line
  <2>3. CASE ~(m_size > 0)
    <3>1. UNCHANGED <<ring, item>> /\ ~writing /\ ~writing'
      <4>1. m_size <= 0
        BY <1>1, <2>3 DEF QueueTypeOK
      <4> QED BY <1>8, <2>1, <2>3, <4>1 DEF FlusherPop, Pop
    <3>2. \A line : QueuePlaces(line)' = QueuePlaces(line)
      BY <3>1 DEF ring, QueuePlaces, Contents, Cell
    <3> QED BY <2>1, <2>2, <3>1, <3>2, <1>2, FlusherStays
  <2>4. CASE m_size > 0
    <3>1. TakeFront(Flusher)
      BY <1>8, <1>1, <2>4 DEF FlusherPop, Pop, QueueTypeOK
    <3>2. PICK x \in Items :
          /\ x = Contents[1] /\ item'[Flusher] = x
          /\ <<"queue", 1>> \in QueuePlaces(x)
          /\ \A line : \A p : p \in QueuePlaces(line)' <=>
               \E i \in 2 .. m_size : p = <<"queue", i - 1>> /\ Contents[i] = line
      BY <1>1, <2>4, <3>1, QueueGives
    <3>3. \A line : FlusherPlaces(line)' = IF line = x THEN {<<"flusher", Flusher>>} ELSE {}
      <4>1. Threads = {Flusher} /\ writing' /\ item'[Flusher] = x
        BY <2>1, <2>4, <3>2, Bounds
      <4>2. FlusherPlaces(x)' = {<<"flusher", Flusher>>}
        BY <4>1 DEF FlusherPlaces
      <4>3. ASSUME NEW line, line # x PROVE FlusherPlaces(line)' = {}
        BY <4>1, <4>3 DEF FlusherPlaces
      <4> QED BY <4>2, <4>3
    <3>4. OnePlace(x)'
      <4>1. /\ x \in Begun /\ QueuePlaces(x) = {<<"queue", 1>>}
            /\ WriterPlaces(x) = {} /\ FilePlaces(x) = {} /\ LostPlaces(x) = {}
        BY <3>2, FromQueue
      <4>2. QueuePlaces(x)' = {}
        <5> SUFFICES ASSUME NEW i \in 2 .. m_size, Contents[i] = x PROVE FALSE
          BY <3>2
        <5>1. <<"queue", i>> \in QueuePlaces(x)
          BY <1>1 DEF QueuePlaces, QueueTypeOK
        <5>2. <<"queue", i>>[2] = <<"queue", 1>>[2]
          BY <5>1, <4>1
        <5> QED BY <5>2
      <4>3. Places(x)' = {<<"flusher", Flusher>>}
        BY <2>2, <3>3, <4>1, <4>2 DEF Places
      <4> QED BY <2>1, <4>1, <4>3 DEF Sole
    <3>5. ASSUME NEW line \in Items, line # x PROVE OnePlace(line)'
      <4>1. FlusherPlaces(line)' = {} /\ FlusherPlaces(line) = {}
        BY <2>2, <3>3, <3>5
      <4>2. CASE QueuePlaces(line) = {}
        <5>1. \A i \in 1 .. m_size : Contents[i] # line
          BY <4>2 DEF QueuePlaces
        <5>2. \A i \in 2 .. m_size : Contents[i] # line
          BY <5>1, <1>1 DEF QueueTypeOK
        <5>3. QueuePlaces(line)' = {}
          BY <3>2, <5>2
        <5> QED BY <2>1, <2>2, <4>1, <4>2, <5>3, <1>2
      <4>3. CASE QueuePlaces(line) # {}
        <5>1. PICK i \in 1 .. m_size : Contents[i] = line /\ <<"queue", i>> \in QueuePlaces(line)
          BY <4>3 DEF QueuePlaces
        <5>2. /\ line \in Begun /\ QueuePlaces(line) = {<<"queue", i>>}
              /\ WriterPlaces(line) = {} /\ FilePlaces(line) = {} /\ LostPlaces(line) = {}
          BY <5>1, FromQueue
        <5>3. i \in 2 .. m_size
          BY <5>1, <3>2, <3>5, <1>1 DEF QueueTypeOK
        <5>4. \A j \in 2 .. m_size : Contents[j] = line => j = i
          <6> SUFFICES ASSUME NEW j \in 2 .. m_size, Contents[j] = line PROVE j = i
            OBVIOUS
          <6>1. <<"queue", j>> \in QueuePlaces(line)
            BY <1>1 DEF QueuePlaces, QueueTypeOK
          <6>2. <<"queue", j>>[2] = <<"queue", i>>[2]
            BY <6>1, <5>2
          <6> QED BY <6>2
        <5>5. QueuePlaces(line)' = {<<"queue", i - 1>>}
          <6>1. \A p : p \in QueuePlaces(line)' <=> p = <<"queue", i - 1>>
            BY <3>2, <5>1, <5>3, <5>4
          <6> QED BY <6>1
        <5>6. Places(line)' = {<<"queue", i - 1>>}
          BY <2>2, <4>1, <5>2, <5>5 DEF Places
        <5> QED BY <2>1, <5>2, <5>6 DEF Sole
      <4> QED BY <4>2, <4>3
    <3> QED BY <3>4, <3>5
  <2> QED BY <2>3, <2>4
(* ... and puts it into the file.                                          *)
<1>9. ASSUME FlusherWrite PROVE Goal
  <2> DEFINE p == <<"file", m_fp, Len(files[m_fp]) + 1>>
  <2>1. PICK x \in Items : x = item[Flusher] /\ writing /\ ~writing'
    BY <1>9, <1>1 DEF FlusherWrite, CallsOK, InHand
  <2>2. /\ <<"flusher", Flusher>> \in FlusherPlaces(x)
        /\ \A line : FlusherPlaces(line)' = {}
        /\ \A line : line # x => FlusherPlaces(line) = {}
    BY <2>1, Bounds DEF FlusherPlaces
  <2>3. /\ FilePlaces(x)' = FilePlaces(x) \cup {p}
        /\ \A line : line # x => FilePlaces(line)' = FilePlaces(line)
    BY <1>1, <1>9, <2>1, FileTakes DEF FlusherWrite
  <2>4. /\ Begun' = Begun
        /\ \A line : /\ QueuePlaces(line)' = QueuePlaces(line)
                     /\ WriterPlaces(line)' = WriterPlaces(line)
                     /\ LostPlaces(line)' = LostPlaces(line)
    BY <1>9, <1>3, QueueStays, LostStays DEF FlusherWrite, WriterPlaces, Line
  <2>5. /\ x \in Begun /\ WriterPlaces(x) = {} /\ QueuePlaces(x) = {}
        /\ FilePlaces(x) = {} /\ LostPlaces(x) = {}
    BY <2>1, <2>2, FromFlusher
  <2> HIDE DEF p
  <2>6. Places(x)' = {p}
    BY <2>2, <2>3, <2>4, <2>5 DEF Places
  <2>7. OnePlace(x)'
    BY <2>4, <2>5, <2>6 DEF Sole
  <2> QED BY <2>2, <2>3, <2>4, <2>7, <1>2
<1>10. ASSUME FlusherWakes \/ Midnight \/ UNCHANGED logVars PROVE Goal
  <2>1. /\ UNCHANGED <<ring, item, pc, calls, writing, files, lost>>
    BY <1>10 DEF FlusherWakes, Spurious, Midnight, logVars, threadVars, fileVars, queueVars
  <2>2. \A line : /\ WriterPlaces(line)' = WriterPlaces(line)
                  /\ QueuePlaces(line)' = QueuePlaces(line)
    BY <2>1 DEF WriterPlaces, Line, ring, QueuePlaces, Contents, Cell
  <2> QED BY <2>1, <2>2, <1>2, <1>3, FlusherStays, FilesStay, LostStays
<1>11. Goal
  BY <1>4, <1>5, <1>6, <1>7, <1>8, <1>9, <1>10 DEF Next, WriterStep, FlusherStep
<1>12. (~m_is_async => lost = {} /\ \A w \in Writers : pc[w] # "push")'
  <2>1. m_is_async' = m_is_async
    BY DEF Next, WriterStep, FlusherStep, Gettimeofday, Localtime, CopyTm,
           Count, Format,
           PushLine, WriteLine, Flush, FlusherPop, FlusherWrite, FlusherWakes,
           Midnight, logVars
  <2> SUFFICES ASSUME ~m_is_async PROVE (lost = {} /\ \A w \in Writers : pc[w] # "push")'
    BY <2>1
  <2>2. lost = {} /\ \A w \in Writers : pc[w] # "push"
    BY DEF PlaceInv
  <2>3. ASSUME NEW w \in Writers, Gettimeofday(w) \/ WriterStep(w)
        PROVE  (lost = {} /\ \A u \in Writers : pc[u] # "push")'
    <3>1. ~PushLine(w)
      BY <2>2 DEF PushLine
    <3>2. lost' = lost
      BY <2>3, <3>1 DEF WriterStep, Gettimeofday, Localtime, CopyTm,
                        Count, Format, WriteLine, Flush
    <3>3. \A u \in Writers : pc'[u] = pc[u] \/ pc'[u] # "push"
      BY <2>3, <3>1, <1>1 DEF WriterStep, Gettimeofday, Localtime, CopyTm, Count, Format,
                              WriteLine, Flush, Goto, CallsOK
    <3> QED BY <2>2, <3>2, <3>3
  <2>4. ASSUME FlusherPop \/ FlusherWrite \/ FlusherWakes \/ Midnight \/ UNCHANGED logVars
        PROVE  lost' = lost /\ pc' = pc
    BY <2>4 DEF FlusherPop, FlusherWrite, FlusherWakes, Midnight, logVars, threadVars
  <2> QED BY <2>2, <2>3, <2>4 DEF Next, FlusherStep
<1> QED BY <1>11, <1>12 DEF PlaceInv

(* The synchronous log and the asynchronous one write each line once: no   *)
(* line is in a file twice, or in a file and in the queue, or nowhere,     *)
(* whether it goes through the queue or past it, before a change of the    *)
(* file or after; only an asynchronous log whose queue filled up between   *)
(* is_full() and push() loses one (log.cpp:224-237, log.h:55-65).          *)
THEOREM LinesWrittenOnce == Spec => []EachLineOnce
<1>1. LogInv /\ PlaceInv => EachLineOnce
  <2> SUFFICES ASSUME LogInv, PlaceInv PROVE EachLineOnce
    OBVIOUS
  <2>1. ASSUME NEW line \in Begun PROVE Cardinality(Places(line)) = 1
    <3>1. PICK p : Places(line) = {p}
      BY <2>1 DEF PlaceInv, Sole, Begun
    <3> QED BY <3>1, FS_Singleton
  <2> QED BY <2>1 DEF EachLineOnce, LogInv, PlaceInv
<1> QED BY <1>1, LogInit, LogInvStep, PlaceInit, PlaceStep, PTL DEF Spec
-----------------------------------------------------------------------------
(* What has been counted and is in no file yet.                            *)
Carrying == {w \in Writers : pc[w] \in {"format", "push", "write"}}

InTransit ==
  Cardinality(Carrying)
    + IF m_is_async THEN m_size + (IF writing THEN 1 ELSE 0) ELSE 0

(* The most that can be in transit besides the line that is counted.       *)
Slack == Cardinality(Writers) - 1 + IF m_is_async THEN MaxSize + 1 ELSE 0

(* The first day: what is written to the open file or on its way there is  *)
(* what was counted since the file was opened, and what was on its way     *)
(* then.  The files to come are empty.                                     *)
FirstDay ==
  /\ m_today = 1 /\ sys_tm = 1
  /\ \A w \in Writers : now[w] = 1 /\ my_tm[w] = 1
  /\ m_fp = IF m_count < m_split_lines THEN FileName(1900, 1, 0)
            ELSE FileName(1990, 1, m_count \div m_split_lines)
  /\ \A f \in FileNames :
       /\ f.year = 1990 /\ f.part > m_count \div m_split_lines => Len(files[f]) = 0
       /\ Len(files[f]) <= m_split_lines + Slack
  /\ Len(files[m_fp]) + InTransit <= (m_count % m_split_lines) + 1 + Slack

LimitInv == today = 1 => FirstDay

(* Rotation by count, without \div and %.                                  *)
LEMMA Quotient ==
  ASSUME NEW n \in Nat, NEW k \in Nat \ {0}
  PROVE  /\ n \div k \in Nat /\ n % k \in 0 .. k - 1
         /\ n = k * (n \div k) + (n % k)
BY SMTT(30)

LEMMA NextQuotient ==
  ASSUME NEW n \in Nat, NEW k \in Nat \ {0}
  PROVE  /\ (n + 1) % k = 0 => (n + 1) \div k = n \div k + 1
         /\ (n + 1) % k # 0 => /\ (n + 1) \div k = n \div k
                               /\ (n + 1) % k = (n % k) + 1
<1>1. PICK q \in Nat, r \in 0 .. k - 1 :
        q = n \div k /\ r = n % k /\ n = k * q + r
  BY Quotient
<1>2. PICK p \in Nat, s \in 0 .. k - 1 :
        p = (n + 1) \div k /\ s = (n + 1) % k /\ n + 1 = k * p + s
  BY Quotient
<1>3. k * p - k * q = r + 1 - s
  <2>1. k * p \in Nat /\ k * q \in Nat
    OBVIOUS
  <2> QED BY <1>1, <1>2, <2>1
<1>4. k * p - k * q = k * (p - q)
  OBVIOUS
<1>5. PICK d \in Int : d = p - q
  OBVIOUS
<1>6. k * d = r + 1 - s
  BY <1>3, <1>4, <1>5
<1>7. d \in {0, 1}
  <2>1. d >= 2 => k * d >= k * 2
    OBVIOUS
  <2>2. d <= -1 => k * d <= k * (-1)
    OBVIOUS
  <2>3. k * 2 = k + k /\ k * (-1) = -k
    OBVIOUS
  <2> QED BY <1>6, <2>1, <2>2, <2>3
<1>8. d = 0 => s = r + 1 /\ p = q
  BY <1>5, <1>6
<1>9. d = 1 => s = 0 /\ p = q + 1
  <2>1. d = 1 => k = r + 1 - s
    BY <1>6
  <2> QED BY <2>1, <1>5
<1>10. r + 1 # 0
  OBVIOUS
<1> QED BY <1>1, <1>2, <1>7, <1>8, <1>9, <1>10

LEMMA SmallQuotient ==
  ASSUME NEW n \in Nat, NEW k \in Nat \ {0}
  PROVE  /\ n < k => n \div k = 0
         /\ n >= k => n \div k >= 1
<1>1. PICK q \in Nat, r \in 0 .. k - 1 :
        q = n \div k /\ r = n % k /\ n = k * q + r
  BY Quotient
<1>2. q >= 1 => k * q >= k * 1
  OBVIOUS
<1>3. k * 1 = k /\ k * 0 = 0
  OBVIOUS
<1> QED BY <1>1, <1>2, <1>3

(* How many writers carry a line.                                          *)
LEMMA CarriersCounted ==
  /\ IsFiniteSet(Carrying) /\ Cardinality(Carrying) \in Nat
  /\ Cardinality(Carrying) <= Cardinality(Writers) /\ Cardinality(Writers) \in Nat
<1>1. IsFiniteSet(Writers) /\ Carrying \subseteq Writers
  BY LogAssumption DEF Carrying
<1> QED BY <1>1, FS_Subset, FS_CardinalityType

LEMMA CarriersChange ==
  ASSUME CallsOK, NEW w \in Writers, NEW label, Goto(w, label)
  PROVE  LET to == label \in {"format", "push", "write"}
             from == pc[w] \in {"format", "push", "write"} IN
         Cardinality(Carrying)' =
           Cardinality(Carrying) + IF to = from THEN 0 ELSE IF to THEN 1 ELSE -1
<1> DEFINE T == {"format", "push", "write"}
<1>1. /\ pc'[w] = label /\ \A u \in Writers : u # w => pc'[u] = pc[u]
  BY DEF CallsOK, Goto
<1>2. IsFiniteSet(Carrying) /\ Cardinality(Carrying) \in Nat
  BY CarriersCounted
<1>3. CASE label \in T /\ pc[w] \notin T
  <2>1. Carrying' = Carrying \cup {w} /\ w \notin Carrying
    BY <1>1, <1>3 DEF Carrying
  <2>2. Cardinality(Carrying') = Cardinality(Carrying) + 1
    BY <1>2, <2>1, FS_AddElement
  <2>3. (label \in T) = TRUE /\ (pc[w] \in T) = FALSE
    BY <1>3
  <2> QED BY <2>2, <2>3
<1>4. CASE label \notin T /\ pc[w] \in T
  <2>1. Carrying' = Carrying \ {w} /\ w \in Carrying
    BY <1>1, <1>4 DEF Carrying
  <2>2. Cardinality(Carrying') = Cardinality(Carrying) - 1
    BY <1>2, <2>1, FS_RemoveElement
  <2>3. (label \in T) = FALSE /\ (pc[w] \in T) = TRUE
    BY <1>4
  <2> QED BY <2>2, <2>3
<1>5. CASE label \in T <=> pc[w] \in T
  <2>1. Carrying' = Carrying
    BY <1>1, <1>5 DEF Carrying
  <2>2. (label \in T) = (pc[w] \in T)
    BY <1>5
  <2> QED BY <1>2, <2>1, <2>2
<1> QED BY <1>3, <1>4, <1>5

LEMMA TransitBounds ==
  ASSUME LogInv
  PROVE  /\ InTransit \in Nat
         /\ InTransit <= Slack + 1 /\ Slack + 1 \in Nat
<1>1. /\ Cardinality(Carrying) \in Nat /\ Cardinality(Writers) \in Nat
      /\ Cardinality(Carrying) <= Cardinality(Writers)
  BY CarriersCounted
<1>2. m_size \in 0 .. MaxSize /\ MaxSize \in Nat
  BY QueueAssumption, Parts DEF QueueTypeOK
<1>3. (IF writing THEN 1 ELSE 0) \in {0, 1}
  OBVIOUS
<1> DEFINE b == IF writing THEN 1 ELSE 0
<1> HIDE DEF b
<1>4. b \in {0, 1} /\ InTransit = Cardinality(Carrying) + IF m_is_async THEN m_size + b ELSE 0
  BY <1>3 DEF InTransit, b
<1>5. CASE m_is_async
  BY <1>1, <1>2, <1>4, <1>5 DEF Slack
<1>6. CASE ~m_is_async
  BY <1>1, <1>2, <1>4, <1>6 DEF Slack
<1> QED BY <1>5, <1>6

LEMMA TransitAlways == LogInv => InTransit \in Nat /\ InTransit <= Slack + 1
BY TransitBounds

LEMMA TransitBoundsNext ==
  (LogInv => InTransit \in Nat /\ InTransit <= Slack + 1)'
BY TransitAlways, PTL

LEMMA LimitStart == Init => LimitInv
<1> SUFFICES ASSUME Init PROVE FirstDay
  BY DEF LimitInv
<1>1. Carrying = {}
  BY DEF Init, Carrying
<1>2. InTransit = 0
  <2>1. Cardinality(Carrying) = 0
    BY <1>1, FS_EmptySet
  <2> QED BY <2>1 DEF InTransit, Init, QueueInit
<1>3. Cardinality(Writers) \in Nat /\ MaxSize \in Nat
  BY CarriersCounted, QueueAssumption
<1>4. Slack \in Int /\ Slack + 1 >= 0
  <2>1. CASE m_is_async
    BY <2>1, <1>3 DEF Slack
  <2>2. CASE ~m_is_async
    BY <2>2, <1>3 DEF Slack
  <2> QED BY <2>1, <2>2
<1>5. /\ m_fp \in FileNames
      /\ \A f \in FileNames : Len(files[f]) = 0
  BY LogInit, Parts DEF Init, FilesOK
<1>6. m_split_lines \in Nat /\ m_split_lines > 0 /\ 0 % m_split_lines = 0
  BY Bounds
<1> QED BY <1>2, <1>4, <1>5, <1>6 DEF FirstDay, Init

(* A line that was on its way is put into the open file.                   *)
LEMMA LimitFputs ==
  ASSUME LogInv, LogInv', FirstDay, NEW x \in Items, Fputs(x),
         InTransit' = InTransit - 1, UNCHANGED <<dateVars, m_is_async>>
  PROVE  FirstDay'
<1>1. FilesOK /\ InTransit \in Nat /\ InTransit' \in Nat /\ Slack + 1 \in Nat
  BY Parts, TransitBounds, TransitBoundsNext
<1>2. UNCHANGED <<m_count, m_today, m_fp, Slack>>
  BY DEF Fputs, Slack
<1>3. /\ \A f \in FileNames : Len(files[f]) \in Nat
      /\ \A f \in FileNames : f # m_fp => files'[f] = files[f]
      /\ Len(files'[m_fp]) = Len(files[m_fp]) + 1 /\ m_fp \in FileNames
  BY <1>1, LenProperties, AppendProperties DEF FilesOK, Fputs
<1>4. m_count \in Nat /\ m_count % m_split_lines \in 0 .. m_split_lines - 1
      /\ m_split_lines \in Nat /\ m_count \div m_split_lines \in Nat
  <2>1. m_count \in Nat /\ m_split_lines \in Nat \ {0}
    BY <1>1, Bounds DEF FilesOK
  <2> QED BY <2>1, Quotient
<1>5. Slack \in Int
  BY CarriersCounted, QueueAssumption DEF Slack
<1>6. Len(files'[m_fp]) + InTransit' <= (m_count % m_split_lines) + 1 + Slack
  <2>1. Len(files[m_fp]) + InTransit <= (m_count % m_split_lines) + 1 + Slack
    BY DEF FirstDay
  <2>2. Len(files[m_fp]) \in Nat
    BY <1>3
  <2> QED BY <1>1, <1>3, <2>1, <2>2
<1>7. Len(files'[m_fp]) <= m_split_lines + Slack
  BY <1>1, <1>3, <1>4, <1>5, <1>6
<1>8. ~(m_fp.year = 1990 /\ m_fp.part > m_count \div m_split_lines)
  <2>1. CASE m_count < m_split_lines
    BY <2>1 DEF FirstDay, FileName
  <2>2. CASE ~(m_count < m_split_lines)
    <3>1. m_fp.part = m_count \div m_split_lines
      BY <2>2 DEF FirstDay, FileName
    <3> QED BY <3>1, <1>4
  <2> QED BY <2>1, <2>2
<1>9. \A f \in FileNames :
         /\ f.year = 1990 /\ f.part > m_count \div m_split_lines => Len(files'[f]) = 0
         /\ Len(files'[f]) <= m_split_lines + Slack
  BY <1>3, <1>7, <1>8 DEF FirstDay
<1> QED BY <1>2, <1>6, <1>9 DEF FirstDay

(* Nothing is written, and no line is counted.                             *)
LEMMA LimitQuiet ==
  ASSUME LogInv, LogInv', FirstDay, UNCHANGED <<m_count, m_today, m_fp, files, m_is_async>>,
         InTransit' <= InTransit,
         sys_tm' = 1 /\ \A w \in Writers : now'[w] = 1 /\ my_tm'[w] = 1
  PROVE  FirstDay'
<1>1. FilesOK /\ InTransit \in Nat /\ InTransit' \in Nat
  BY Parts, TransitBounds, TransitBoundsNext
<1>2. Len(files[m_fp]) \in Nat /\ UNCHANGED Slack /\ Slack \in Int
  BY <1>1, LenProperties, CarriersCounted, QueueAssumption DEF FilesOK, Slack
<1>3. m_count % m_split_lines \in Int
  BY <1>1, Bounds, Quotient DEF FilesOK
<1>4. Len(files[m_fp]) + InTransit' <= (m_count % m_split_lines) + 1 + Slack
  BY <1>1, <1>2, <1>3 DEF FirstDay
<1> QED BY <1>2, <1>4 DEF FirstDay

(* A line is counted, and a file opened when the count says so.            *)
LEMMA LimitCount ==
  ASSUME LogInv, LogInv', FirstDay, NEW w \in Writers, Count(w)
  PROVE  FirstDay'
<1>1. FilesOK /\ CallsOK /\ InTransit \in Nat /\ InTransit' \in Nat
      /\ InTransit' <= (Slack + 1)' /\ UNCHANGED dateVars
  BY Parts, TransitBounds, TransitBoundsNext DEF Count
<1>2. UNCHANGED <<files, Slack, m_is_async, writing, m_size>> /\ Slack \in Int
  BY CarriersCounted, QueueAssumption DEF Count, queueVars, ring, Slack
<1>3. InTransit' = InTransit + 1
  <2>1. Cardinality(Carrying)' = Cardinality(Carrying) + 1
    BY <1>1, CarriersChange, CarriersCounted DEF Count
  <2>2. Cardinality(Carrying) \in Nat /\ m_size \in Nat
    BY CarriersCounted, QueueAssumption, Parts DEF QueueTypeOK
  <2> DEFINE b == IF m_is_async THEN m_size + (IF writing THEN 1 ELSE 0) ELSE 0
  <2>3. b \in Nat /\ InTransit = Cardinality(Carrying) + b
        /\ InTransit' = Cardinality(Carrying)' + b
    BY <1>2, <2>2 DEF InTransit
  <2> HIDE DEF b
  <2> QED BY <2>1, <2>2, <2>3
<1> DEFINE k == m_split_lines
<1>4. /\ m_count \in Nat /\ k \in Nat \ {0}
      /\ m_count' = m_count + 1 /\ m_today' = 1
      /\ Rotation(w) <=> (m_count + 1) % k = 0
      /\ my_tm[w] = 1 /\ m_today = 1
  BY <1>1, Bounds DEF Count, FirstDay, Rotation, FilesOK
<1>5. /\ m_count % k \in 0 .. k - 1 /\ m_count \div k \in Nat
      /\ m_count' % k \in 0 .. k - 1 /\ m_count' \div k \in Nat
  <2>1. m_count' \in Nat
    BY <1>4
  <2> HIDE DEF k
  <2>2. m_count % k \in 0 .. k - 1 /\ m_count \div k \in Nat
    BY <1>4, Quotient
  <2>3. \A n \in Nat : n % k \in 0 .. k - 1 /\ n \div k \in Nat
    BY <1>4, Quotient
  <2> QED BY <2>1, <2>2, <2>3
<1>6. Len(files[m_fp]) \in Nat /\ m_fp \in FileNames /\ m_fp' \in FileNames
      /\ \A f \in FileNames : Len(files[f]) \in Nat
  <2>1. FilesOK'
    BY CountKeepsFiles
  <2> QED BY <1>1, <2>1, LenProperties DEF FilesOK
<1>7. CASE Rotation(w)
  <2>1. m_count' % k = 0 /\ m_count' \div k = m_count \div k + 1
    BY <1>4, <1>7, NextQuotient
  <2>2. m_fp' = FileName(1990, 1, m_count' \div k)
    BY <1>4, <1>7 DEF Count
  <2>3. m_count' >= k
    <3>1. m_count' < k => m_count' \div k = 0
      BY <1>4, SmallQuotient
    <3> QED BY <1>4, <1>5, <2>1, <3>1
  <2>4. Len(files[m_fp']) = 0
    <3>1. m_fp'.year = 1990 /\ m_fp'.part > m_count \div k
      BY <2>1, <2>2, <1>5 DEF FileName
    <3> QED BY <3>1, <1>6 DEF FirstDay
  <2>5. Len(files[m_fp']) + InTransit' <= (m_count' % k) + 1 + Slack
    BY <1>1, <1>2, <2>1, <2>4
  <2>6. \A f \in FileNames :
          /\ f.year = 1990 /\ f.part > m_count' \div k => Len(files[f]) = 0
          /\ Len(files[f]) <= k + Slack
    <3> SUFFICES ASSUME NEW f \in FileNames, f.year = 1990, f.part > m_count' \div k
                 PROVE  Len(files[f]) = 0
      BY DEF FirstDay
    <3>1. f.part \in Int
      BY Quotient, Bounds DEF FileNames
    <3> QED BY <2>1, <1>5, <3>1 DEF FirstDay
  <2>7. m_fp' = IF m_count' < k THEN FileName(1900, 1, 0)
                ELSE FileName(1990, 1, m_count' \div k)
    BY <2>2, <2>3, <1>4
  <2> QED BY <1>1, <1>2, <1>4, <2>5, <2>6, <2>7 DEF FirstDay
<1>8. CASE ~Rotation(w)
  <2>1. m_count' % k = (m_count % k) + 1 /\ m_count' \div k = m_count \div k
    BY <1>4, <1>8, NextQuotient
  <2>2. m_fp' = m_fp
    BY <1>8 DEF Count
  <2>3. Len(files[m_fp]) + InTransit' <= (m_count' % k) + 1 + Slack
    <3>1. Len(files[m_fp]) + InTransit <= (m_count % k) + 1 + Slack
      BY DEF FirstDay
    <3>2. PICK a \in Int, b \in Int, n \in Int, i \in Int, j \in Int :
            /\ a = m_count % k /\ b = m_count' % k /\ n = Len(files[m_fp])
            /\ i = InTransit /\ j = InTransit'
      BY <1>1, <1>5, <1>6
    <3>3. n + i <= a + 1 + Slack /\ b = a + 1 /\ j = i + 1
      BY <1>3, <2>1, <3>1, <3>2
    <3>4. n + j <= b + 1 + Slack
      BY <1>2, <3>3
    <3> QED BY <3>2, <3>4
  <2>4. m_count' < k <=> m_count < k
    BY <1>4, <1>5, <2>1, SmallQuotient
  <2> QED BY <1>1, <1>2, <1>4, <2>1, <2>2, <2>3, <2>4 DEF FirstDay
<1> QED BY <1>7, <1>8

LEMMA LimitStep ==
  ASSUME LogInv, LogInv', PlaceInv, LimitInv, [Next]_logVars
  PROVE  LimitInv'
<1> SUFFICES ASSUME today' = 1 PROVE FirstDay'
  BY DEF LimitInv
<1>1. FilesOK /\ ClockOK /\ CallsOK /\ QueueInv /\ QueueTypeOK
  BY Parts DEF QueueInv
<1>2. Cardinality(Carrying) \in Nat /\ m_size \in Nat
  BY <1>1, CarriersCounted, QueueAssumption DEF QueueTypeOK
<1>3. today = 1 /\ ~Midnight
  <2>1. today' = today \/ today' = today + 1
    BY DEF Next, WriterStep, FlusherStep, Gettimeofday, Localtime, CopyTm,
           Count, Format,
           PushLine, WriteLine, Flush, FlusherPop, FlusherWrite, FlusherWakes,
           Midnight, logVars
  <2>2. today \in Nat /\ today >= 1
    BY <1>1, Bounds DEF ClockOK
  <2> QED BY <2>1, <2>2 DEF Midnight
<1>4. FirstDay
  BY <1>3 DEF LimitInv
<1>5. ASSUME UNCHANGED <<pc, writing, m_size, m_is_async>> PROVE InTransit' = InTransit
  BY <1>5 DEF InTransit, Carrying
<1>6. ASSUME NEW w \in Writers, NEW label, Goto(w, label),
             UNCHANGED <<writing, m_size, m_is_async>>
      PROVE  LET to == label \in {"format", "push", "write"}
                 from == pc[w] \in {"format", "push", "write"} IN
             InTransit' = InTransit + IF to = from THEN 0 ELSE IF to THEN 1 ELSE -1
  <2> DEFINE b == IF m_is_async THEN m_size + (IF writing THEN 1 ELSE 0) ELSE 0
  <2>1. b \in Nat /\ InTransit = Cardinality(Carrying) + b
        /\ InTransit' = Cardinality(Carrying)' + b
    BY <1>2, <1>6 DEF InTransit
  <2> HIDE DEF b
  <2> QED BY <2>1, <1>1, <1>2, <1>6, CarriersChange
<1>7. InTransit \in Nat
  BY TransitBounds
<1>8. ASSUME NEW w \in Writers, Gettimeofday(w) \/ Localtime(w) \/ CopyTm(w)
             \/ Format(w) \/ Flush(w)
      PROVE  FirstDay'
  <2>1. UNCHANGED <<m_count, m_today, m_fp, files, m_is_async, writing, m_size>>
    BY <1>8 DEF Gettimeofday, Localtime, CopyTm, Format, Flush, fileVars, queueVars, ring
  <2>2. sys_tm' = 1 /\ \A u \in Writers : now'[u] = 1 /\ my_tm'[u] = 1
    BY <1>1, <1>3, <1>4, <1>8 DEF Gettimeofday, Localtime, CopyTm, Format, Flush, FirstDay, ClockOK
  <2>3. PICK label : Goto(w, label) /\ (label \in {"format", "push", "write"} <=> pc[w] \in {"format", "push", "write"})
    <3>0. CASE Gettimeofday(w)
      BY <3>0 DEF Gettimeofday
    <3>1. CASE Localtime(w)
      BY <3>1 DEF Localtime
    <3>2. CASE CopyTm(w)
      BY <3>2 DEF CopyTm
    <3>3. CASE Format(w)
      <4> DEFINE l == IF m_is_async /\ ~is_full THEN "push" ELSE "write"
      <4>1. l \in {"push", "write"} /\ Goto(w, l) /\ pc[w] = "format"
        BY <3>3 DEF Format
      <4> HIDE DEF l
      <4> QED BY <4>1
    <3>4. CASE Flush(w)
      BY <3>4 DEF Flush
    <3> QED BY <1>8, <3>0, <3>1, <3>2, <3>3, <3>4
  <2>4. (label \in {"format", "push", "write"}) = (pc[w] \in {"format", "push", "write"})
    BY <2>3
  <2>5. InTransit' = InTransit
    BY <1>6, <1>7, <2>1, <2>3, <2>4
  <2> QED BY <1>4, <1>7, <2>1, <2>2, <2>5, LimitQuiet
<1>9. ASSUME NEW w \in Writers, Count(w) PROVE FirstDay'
  BY <1>4, <1>9, LimitCount
<1>10. ASSUME NEW w \in Writers, PushLine(w) PROVE FirstDay'
  <2>1. m_is_async
    BY <1>10 DEF PlaceInv, PushLine
  <2>2. /\ UNCHANGED <<m_count, m_today, m_fp, files, m_is_async, writing, dateVars>>
        /\ Goto(w, "flush") /\ pc[w] = "push"
    BY <1>10 DEF PushLine, fileVars
  <2>3. m_size' = m_size \/ m_size' = m_size + 1
    BY <1>10 DEF PushLine, PushItem, AppendItem, PushRefused, ring
  <2>4. Cardinality(Carrying)' = Cardinality(Carrying) - 1
    BY <1>1, <1>2, <2>2, CarriersChange
  <2>5. InTransit' <= InTransit
    <3> DEFINE b == IF writing THEN 1 ELSE 0
    <3>1. b \in Nat /\ InTransit = Cardinality(Carrying) + (m_size + b)
          /\ InTransit' = Cardinality(Carrying)' + (m_size' + b)
      BY <2>1, <2>2 DEF InTransit
    <3> HIDE DEF b
    <3> QED BY <3>1, <1>2, <2>3, <2>4
  <2> QED BY <1>4, <2>2, <2>5, LimitQuiet DEF FirstDay
<1>11. ASSUME NEW w \in Writers, WriteLine(w) PROVE FirstDay'
  <2>1. /\ Fputs(Line(w)) /\ Goto(w, "flush") /\ pc[w] = "write" /\ Line(w) \in Items
        /\ UNCHANGED <<writing, m_size, m_is_async, dateVars>>
    BY <1>11, LineIsItem DEF WriteLine, queueVars, ring
  <2>2. InTransit' = InTransit - 1
    BY <1>6, <1>7, <2>1
  <2> QED BY <1>4, <2>1, <2>2, LimitFputs
<1>12. ASSUME FlusherPop PROVE FirstDay'
  <2>1. /\ UNCHANGED <<m_count, m_today, m_fp, files, m_is_async, pc, dateVars>>
        /\ m_is_async /\ ~writing /\ writing' = (m_size > 0)
    BY <1>12 DEF FlusherPop, fileVars
  <2>2. Cardinality(Carrying)' = Cardinality(Carrying)
    BY <2>1 DEF Carrying
  <2>3. CASE m_size > 0
    <3>1. m_size' = m_size - 1 /\ writing'
      <4>1. ~(m_size <= 0)
        BY <2>3, <1>2
      <4>2. TakeFront(Flusher)
        BY <1>12, <4>1 DEF FlusherPop, Pop
      <4> QED BY <2>1, <2>3, <4>2 DEF TakeFront
    <3>2. InTransit = Cardinality(Carrying) + m_size
          /\ InTransit' = Cardinality(Carrying) + (m_size' + 1)
      BY <2>1, <2>2, <3>1, <1>2 DEF InTransit
    <3>3. InTransit' <= InTransit
      BY <1>2, <3>1, <3>2
    <3> QED BY <1>4, <2>1, <3>3, LimitQuiet DEF FirstDay
  <2>4. CASE ~(m_size > 0)
    <3>1. m_size' = m_size /\ ~writing'
      <4>1. m_size <= 0
        BY <2>4, <1>2
      <4> QED BY <1>12, <2>1, <2>4, <4>1 DEF FlusherPop, Pop, ring
    <3>2. InTransit' = InTransit
      BY <2>1, <2>2, <3>1 DEF InTransit
    <3> QED BY <1>4, <1>7, <2>1, <3>2, LimitQuiet DEF FirstDay
  <2> QED BY <2>3, <2>4
<1>13. ASSUME FlusherWrite PROVE FirstDay'
  <2>1. /\ Fputs(item[Flusher]) /\ writing /\ ~writing' /\ m_is_async /\ item[Flusher] \in Items
        /\ UNCHANGED <<pc, m_size, m_is_async, dateVars>>
    BY <1>13, <1>1 DEF FlusherWrite, CallsOK, InHand, queueVars, ring
  <2>2. Cardinality(Carrying)' = Cardinality(Carrying)
    BY <2>1 DEF Carrying
  <2>3. InTransit = Cardinality(Carrying) + (m_size + 1) /\ InTransit' = Cardinality(Carrying) + m_size
    BY <2>1, <2>2, <1>2 DEF InTransit
  <2>4. InTransit' = InTransit - 1
    BY <2>3, <1>2
  <2> QED BY <1>4, <2>1, <2>4, LimitFputs
<1>14. ASSUME FlusherWakes \/ UNCHANGED logVars PROVE FirstDay'
  <2>1. UNCHANGED <<m_count, m_today, m_fp, files, m_is_async, pc, writing, m_size,
                    dateVars>>
    BY <1>14 DEF FlusherWakes, Spurious, logVars, fileVars, threadVars, queueVars, ring
  <2>2. InTransit' = InTransit
    BY <2>1, <1>5
  <2> QED BY <1>4, <1>7, <2>1, <2>2, LimitQuiet DEF FirstDay
<1> QED BY <1>3, <1>8, <1>9, <1>10, <1>11, <1>12, <1>13, <1>14
        DEF Next, WriterStep, FlusherStep

(* Lines may be counted for one file and written to the next, but only so  *)
(* many: a file of the first day has at most m_split_lines lines and those *)
(* the other writers, the queue and the flusher can hold, for any number   *)
(* of writers, any m_split_lines and any length of the queue               *)
(* (log.cpp:161-190, 223-236).                                             *)
THEOREM FilesKeepLimit == Spec => []FileLimit
<1>1. LogInv /\ LimitInv => FileLimit
  <2> SUFFICES ASSUME LogInv, LimitInv, today = 1, NEW f \in FileNames
               PROVE  Len(files[f]) <= m_split_lines + Cardinality(Writers) - 1
                         + IF m_is_async THEN MaxSize + 1 ELSE 0
    BY DEF FileLimit
  <2>1. Len(files[f]) <= m_split_lines + Slack
    BY DEF LimitInv, FirstDay
  <2>2. Cardinality(Writers) \in Nat /\ MaxSize \in Nat /\ m_split_lines \in Nat
    BY CarriersCounted, QueueAssumption, Bounds
  <2>3. CASE m_is_async
    BY <2>1, <2>2, <2>3 DEF Slack
  <2>4. CASE ~m_is_async
    BY <2>1, <2>2, <2>4 DEF Slack
  <2> QED BY <2>3, <2>4
<1> QED BY <1>1, LogInit, LogInvStep, PlaceInit, PlaceStep, LimitStart, LimitStep,
           PTL DEF Spec
=============================================================================
