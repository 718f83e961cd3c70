----------------------------- MODULE TimerQueue -----------------------------
(***************************************************************************)
(* What a container of timers promises: a timer is added with a time, may  *)
(* be cancelled, and is taken out, earliest first, once its time has come. *)
(* Its callback runs at that moment, if it was not cancelled.              *)
(***************************************************************************)
EXTENDS Naturals

CONSTANTS Timers, Delays, Epoch

VARIABLES
  pending,    \* timers added and not taken out
  cancelled,  \* those of them that were cancelled
  expire,     \* when each timer is due
  now,        \* the clock
  ran         \* timers whose callback has run

qvars == <<pending, cancelled, expire, now, ran>>

Init ==
  /\ pending = {} /\ cancelled = {} /\ ran = {}
  /\ expire \in [Timers -> {0}]
  /\ now = Epoch

Add(t, delay) ==
  /\ t \notin pending /\ expire[t] = 0
  /\ pending' = pending \union {t}
  /\ expire' = [expire EXCEPT ![t] = now + delay]
  /\ UNCHANGED <<cancelled, now, ran>>

Cancel(t) ==
  /\ t \in pending
  /\ cancelled' = cancelled \union {t}
  /\ UNCHANGED <<pending, expire, now, ran>>

TakeOut(t) ==
  /\ t \in pending
  /\ \A u \in pending : expire[t] <= expire[u]
  /\ expire[t] <= now
  /\ pending' = pending \ {t}
  /\ cancelled' = cancelled \ {t}
  /\ ran' = IF t \in cancelled THEN ran ELSE ran \union {t}
  /\ UNCHANGED <<expire, now>>

Clock ==
  /\ now' = now + 1
  /\ UNCHANGED <<pending, cancelled, expire, ran>>

Next ==
  \/ \E t \in Timers : (\E delay \in Delays : Add(t, delay)) \/ Cancel(t) \/ TakeOut(t)
  \/ Clock

QSpec == Init /\ [][Next]_qvars
=============================================================================
