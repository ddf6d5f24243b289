---------------------------- MODULE Diagnostics ----------------------------
(***************************************************************************)
(* What a call leaves behind for the operator: counts of its traffic and a *)
(* record in a ring.                                                       *)
(*                                                                         *)
(* Traffic is counted by group.  A call that would open one group too many *)
(* writes the groups to the log first, without the lock, and looks again;  *)
(* a ticker writes them too.  The ring holds the calls that ended last,    *)
(* each under the time it began at, and the summary of recent activity     *)
(* reads it from the newest record back.                                   *)
(***************************************************************************)
EXTENDS Integers, FiniteSetsExt

CONSTANTS
  Call,
  Ticker,     \* the goroutine that writes the groups every minute
  Group,      \* account, exit, model, path and hour
  MaxGroups,  \* groups held at a time
  Capacity,   \* records in the ring
  Window,     \* RecentWindow
  MaxTime,    \* bound of the clock
  None

VARIABLES
  now,
  pc, started, group,     \* a call
  groups, batch, logged,  \* attempts counted, taken by a flush, and logged
  ring, next, filled      \* the records, by place

traffic == <<groups, batch, logged>>
recorder == <<ring, next, filled>>
vars == <<now, pc, started, group, traffic, recorder>>
-----------------------------------------------------------------------------
Flusher == Call \cup {Ticker}
Place == 0..(Capacity - 1)
Record == [call : Call, at : 0..MaxTime]
NoCounts == [g \in Group |-> 0]

TypeOK ==
  /\ now \in 0..MaxTime
  /\ pc \in [Flusher -> {"idle", "open", "add", "flush", "log", "record", "done"}]
  /\ started \in [Call -> 0..MaxTime] /\ group \in [Call -> Group]
  /\ groups \in [Group -> Nat] /\ logged \in [Group -> Nat]
  /\ batch \in [Flusher -> [Group -> Nat]]
  /\ ring \in [Place -> Record \cup {None}] /\ next \in Place /\ filled \in BOOLEAN

Init ==
  /\ now = 0
  /\ pc = [f \in Flusher |-> "idle"]
  /\ started = [c \in Call |-> 0] /\ group \in [Call -> Group]
  /\ groups = NoCounts /\ logged = NoCounts /\ batch = [f \in Flusher |-> NoCounts]
  /\ ring = [i \in Place |-> None] /\ next = 0 /\ filled = FALSE

Goto(f, label) == pc' = [pc EXCEPT ![f] = label]
Add(x, y) == [g \in Group |-> x[g] + y[g]]
-----------------------------------------------------------------------------
(* Traffic.                                                                 *)

observeTraffic(c) ==
  /\ pc[c] = "idle"
  /\ Goto(c, "open") /\ started' = [started EXCEPT ![c] = now]
  /\ UNCHANGED <<now, group, traffic, recorder>>

\* The transport failed or the body is closed, for the first time.
finish(c) ==
  /\ pc[c] = "open"
  /\ Goto(c, "add")
  /\ UNCHANGED <<now, started, group, traffic, recorder>>

Held == {g \in Group : groups[g] > 0}

add(c) ==
  /\ pc[c] = "add"
  /\ IF group[c] \notin Held /\ Cardinality(Held) >= MaxGroups
     THEN Goto(c, "flush") /\ UNCHANGED groups
     ELSE Goto(c, "record") /\ groups' = [groups EXCEPT ![group[c]] = @ + 1]
  /\ UNCHANGED <<now, started, group, batch, logged, recorder>>

\* The ticker's minute is over.
tick ==
  /\ pc[Ticker] = "idle"
  /\ Goto(Ticker, "flush")
  /\ UNCHANGED <<now, started, group, traffic, recorder>>

flush(f) ==
  /\ pc[f] = "flush"
  /\ batch' = [batch EXCEPT ![f] = groups] /\ groups' = NoCounts
  /\ Goto(f, "log")
  /\ UNCHANGED <<now, started, group, logged, recorder>>

\* Faulty: the call inserts its group without a second look at the limit.
LogAndInsert(f) ==
  /\ pc[f] = "log"
  /\ logged' = Add(logged, batch[f]) /\ batch' = [batch EXCEPT ![f] = NoCounts]
  /\ IF f = Ticker THEN Goto(f, "idle") /\ UNCHANGED groups
     ELSE Goto(f, "record") /\ groups' = [groups EXCEPT ![group[f]] = @ + 1]
  /\ UNCHANGED <<now, started, group, recorder>>

log(f) ==
  /\ pc[f] = "log"
  /\ logged' = Add(logged, batch[f]) /\ batch' = [batch EXCEPT ![f] = NoCounts]
  /\ Goto(f, IF f = Ticker THEN "idle" ELSE "add")
  /\ UNCHANGED <<now, started, group, groups, recorder>>
-----------------------------------------------------------------------------
(* The ring.                                                                *)

record(c) ==
  /\ pc[c] = "record"
  /\ Goto(c, "done")
  /\ ring' = [ring EXCEPT ![next] = [call |-> c, at |-> started[c]]]
  /\ next' = (next + 1) % Capacity
  /\ filled' = (filled \/ next' = 0)
  /\ UNCHANGED <<now, started, group, traffic>>

stored == IF filled THEN Capacity ELSE next
index(offset) == (next - offset) % Capacity
IsRecent(r) == r.at >= now - Window

\* How many records Summary counts before it stops at one that is too old.
RecentRequests ==
  Cardinality({o \in 1..stored : \A p \in 1..o : IsRecent(ring[index(p)])})

Tick ==
  /\ now < MaxTime /\ now' = now + 1
  /\ UNCHANGED <<pc, started, group, traffic, recorder>>

Next ==
  \/ \E c \in Call : observeTraffic(c) \/ finish(c) \/ add(c) \/ record(c)
  \/ \E f \in Flusher : flush(f) \/ log(f)
  \/ tick \/ Tick
Spec == Init /\ [][Next]_vars
-----------------------------------------------------------------------------
(* Properties.                                                              *)

\* However calls and the ticker write the groups to the log between a call's test of
\* the limit and its insertion, there are never more groups than the limit, and every
\* attempt is in the log, in the hands of a flush or in its group, once
\* (traffic_observation.go: add gives up the lock to flush).
TrafficCounted ==
  /\ Cardinality(Held) <= MaxGroups
  /\ \A g \in Group :
       groups[g] + logged[g] + MapThenSumSet(LAMBDA f : batch[f][g], Flusher) =
       Cardinality({c \in Call : group[c] = g /\ pc[c] \in {"record", "done"}})

\* The summary counts every record it retains of a call within the recent window
\* (metrics.go and README.md: "the recent window uses retained request records").
RecentIsComplete ==
  RecentRequests = Cardinality({o \in 1..stored : IsRecent(ring[index(o)])})
=============================================================================
