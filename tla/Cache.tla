-------------------------------- MODULE Cache --------------------------------
(***************************************************************************)
(* What a least-recently-used cache promises: at most capacity entries, in *)
(* the order of their last use; a new key pushes out the entry that was    *)
(* not used for longest.  A call is for one key and is answered with the   *)
(* value that was put last for that key, or with none.                     *)
(***************************************************************************)
EXTENDS Integers, Sequences

CONSTANTS
  Keys, Values, capacity,
  NULL  \* no value: the empty string

VARIABLES
  entries,  \* <<key, value>>, the one used last first
  call      \* the last call, with the value put or answered

Call(op, key, value) == [op |-> op, key |-> key, value |-> value]

NoCall == Call("none", NULL, NULL)

Init == entries = <<>> /\ call = NoCall

Places(key) == {i \in 1 .. Len(entries) : entries[i][1] = key}

Without(i) == SubSeq(entries, 1, i - 1) \o SubSeq(entries, i + 1, Len(entries))

Front(s) == SubSeq(s, 1, IF Len(s) < capacity THEN Len(s) ELSE capacity)

Put(key, value) ==
  LET new == <<<<key, value>>>> IN
  /\ \/ \E i \in Places(key) : entries' = new \o Without(i)
     \/ Places(key) = {} /\ entries' = Front(new \o entries)
  /\ call' = Call("put", key, value)

Hit(key) ==
  \E i \in Places(key) :
    /\ entries' = <<entries[i]>> \o Without(i)
    /\ call' = Call("get", key, entries[i][2])

Miss(key) ==
  /\ Places(key) = {}
  /\ call' = Call("get", key, NULL)
  /\ UNCHANGED entries

Get(key) == Hit(key) \/ Miss(key)

Restart == entries' = <<>> /\ call' = NoCall

Next ==
  \/ \E key \in Keys : Get(key) \/ \E value \in Values : Put(key, value)
  \/ Restart

CSpec == Init /\ [][Next]_<<entries, call>>
=============================================================================
