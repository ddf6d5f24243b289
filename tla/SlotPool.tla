------------------------------ MODULE SlotPool ------------------------------
(***************************************************************************)
(* What the in-flight limit of the relay promises, without trackers,        *)
(* lookups or failover: each call holds a slot of at most one account, and  *)
(* takes one only while fewer calls than the capacity hold that account.    *)
(* The capacity is the largest limit the console ever published, because    *)
(* lowering the limit leaves running calls alone.                           *)
(***************************************************************************)
EXTENDS Integers, FiniteSets

CONSTANTS Request, Account, None, Capacities

VARIABLES holder, capacity

Holding(a) == {q \in Request : holder[q] = a}

Init == holder = [q \in Request |-> None] /\ capacity \in Capacities

Acquire(q, a) ==
  /\ holder[q] = None
  /\ Cardinality(Holding(a)) < capacity
  /\ holder' = [holder EXCEPT ![q] = a]
  /\ UNCHANGED capacity

Release(q) ==
  /\ holder[q] # None
  /\ holder' = [holder EXCEPT ![q] = None]
  /\ UNCHANGED capacity

\* The process ends, and every call with it.
Reset == holder' = [q \in Request |-> None] /\ UNCHANGED capacity

Raise == capacity' \in {c \in Capacities : c > capacity} /\ UNCHANGED holder

Next ==
  \/ \E q \in Request : Release(q) \/ \E a \in Account : Acquire(q, a)
  \/ Reset \/ Raise

Spec == Init /\ [][Next]_<<holder, capacity>>
=============================================================================
