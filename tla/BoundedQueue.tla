---------------------------- MODULE BoundedQueue ----------------------------
(***************************************************************************)
(* What block_queue promises: a FIFO of at most MaxSize items.  An item    *)
(* that was put in is handed out once, to one thread, in the order of the  *)
(* puts, unless the queue is cleared first.                                *)
(***************************************************************************)
EXTENDS Naturals, Sequences

CONSTANTS Threads, Items, MaxSize, NoItem

VARIABLES
  items,  \* what is in the queue, oldest first
  item    \* what each thread was handed last

qvars == <<items, item>>

Init == items = <<>> /\ item = [t \in Threads |-> NoItem]

Put(x) ==
  /\ Len(items) < MaxSize
  /\ items' = Append(items, x)
  /\ UNCHANGED item

Take(t) ==
  /\ items # <<>>
  /\ item' = [item EXCEPT ![t] = Head(items)]
  /\ items' = Tail(items)

Empty == items' = <<>> /\ UNCHANGED item

Next ==
  \/ \E x \in Items : Put(x)
  \/ \E t \in Threads : Take(t)
  \/ Empty

QSpec == Init /\ [][Next]_qvars
=============================================================================
