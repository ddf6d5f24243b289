-------------------------- MODULE FiveHourWindows --------------------------
(***************************************************************************)
(* The five-hour windows of one subscription account, as the database      *)
(* keeps them.                                                             *)
(*                                                                         *)
(* Every observation of the account is an event that names the end of the  *)
(* window it saw, and a window sums up the events of its end.  The two     *)
(* surfaces that report the end may differ by a second, so a write takes   *)
(* the end of a window on record that is at most a second away.  Databases *)
(* of the schema before kept one window for every end reported; the        *)
(* migration merges the neighbours.                                        *)
(*                                                                         *)
(* Usage pages and full windows are written at once.  Messages wait in     *)
(* memory for the next flush, which writes them in one transaction and the *)
(* buckets of their usage in another.  When either fails the batch is put  *)
(* back as it was reported, and the next flush writes it again: the end is *)
(* looked for anew, an event on record is left alone, and the window that  *)
(* was found sums it up once more.  That may be another one than before.   *)
(***************************************************************************)
EXTENDS Integers, Sequences, FiniteSetsExt

CONSTANTS
  Event,    \* event keys
  Second,   \* seconds a window may end at, naturals above 0
  Time,     \* milliseconds an observation may be made at, naturals above 0
  Percent,  \* utilizations, naturals
  None

NoEnd == 0        \* an empty resets_at
NoReading == -1   \* an exhaustion whose answer told no utilization

Kinds == {"messages", "oauth_refresh", "exhaustion"}
Observation == [end : Second \cup {NoEnd}, kind : Kinds, at : Time, used : Percent \cup {NoReading}]

\* What readFiveHourWindow, the usage page and markFiveHourExhausted make of an answer.
Reported ==
  {o \in Observation :
     CASE o.kind = "messages" -> (o.end = NoEnd) <=> (o.used = NoReading)
       [] o.kind = "oauth_refresh" -> o.used # NoReading
       [] o.kind = "exhaustion" -> o.end # NoEnd}

Messages == {o \in Reported : o.kind = "messages"}

VARIABLES
  version,  \* 8: the program before the migration writes; 9: this one
  \* memory
  said,     \* what an event in memory reports, by its key
  pending,  \* keys of pendingEvents
  batch,    \* keys of the batch a flush has detached
  written,  \* how many of the batch its transaction has written
  \* the database
  events,   \* five_hour_events
  windows,  \* five_hour_windows, by end
  \* observation only
  astray    \* windows beside its own that an event written again was summed up in

memory == <<said, pending, batch, written>>
tables == <<events, windows, astray>>
vars == <<version, memory, tables>>
-----------------------------------------------------------------------------
Window == [first : Time, last : Time, firstUsed : Percent \cup {NoReading},
           lastUsed : Percent \cup {NoReading}, maxUsed : Percent \cup {NoReading},
           exhausted : Time \cup {0}]

TypeOK ==
  /\ version \in {8, 9}
  /\ said \in [Event -> Messages \cup {None}]
  /\ pending \in Seq(Event) /\ batch \in Seq(Event) /\ written \in 0 .. Len(batch)
  /\ \A i \in DOMAIN pending : said[pending[i]] # None
  /\ \A i \in DOMAIN batch : said[batch[i]] # None
  /\ events \in [Event -> Reported \cup {None}]
  /\ windows \in [Second -> Window \cup {None}]
  /\ astray \in [Event -> SUBSET Second]

Init ==
  /\ version = 8
  /\ said = [e \in Event |-> None] /\ pending = <<>> /\ batch = <<>> /\ written = 0
  /\ astray = [e \in Event |-> {}]
  /\ events = [e \in Event |-> None] /\ windows = [s \in Second |-> None]

OnRecord == {s \in Second : windows[s] # None}

\* The end itself if it is on record, else a neighbour's, of which either may come first.
canonicalFiveHourReset(end) ==
  IF end \in OnRecord \/ end = NoEnd THEN {end}
  ELSE LET near == {s \in OnRecord : s \in end - 1 .. end + 1}
       IN IF near = {} THEN {end} ELSE near

\* Faulty: the utilization written last is the last one.
SumUpInWriteOrder(w, o) ==
  IF w = None
  THEN [first |-> o.at, last |-> o.at, firstUsed |-> o.used, lastUsed |-> o.used,
        maxUsed |-> o.used, exhausted |-> 0]
  ELSE [w EXCEPT !.first = Min({@, o.at}), !.last = Max({@, o.at}),
                 !.firstUsed = IF o.at < w.first THEN o.used ELSE @,
                 !.lastUsed = o.used, !.maxUsed = Max({@, o.used})]

SumUp(w, o) ==
  IF w = None
  THEN [first |-> o.at, last |-> o.at, firstUsed |-> o.used, lastUsed |-> o.used,
        maxUsed |-> o.used, exhausted |-> 0]
  ELSE [w EXCEPT !.first = Min({@, o.at}), !.last = Max({@, o.at}),
                 !.firstUsed = IF o.at < w.first THEN o.used ELSE @,
                 !.lastUsed = IF o.at > w.last THEN o.used ELSE @,
                 !.maxUsed = Max({@, o.used})]

MarkExhausted(w, o) ==
  IF w.exhausted = 0 \/ o.at < w.exhausted THEN [w EXCEPT !.exhausted = o.at] ELSE w
-----------------------------------------------------------------------------
\* Faulty: the row is written over.
WriteOver(e, o) == o

\* A key on record keeps its row.
Row(e, o) == IF events[e] = None THEN o ELSE events[e]

\* The window is written all the same.
insertFiveHourEvent(e, o) ==
  /\ events' = [events EXCEPT ![e] = Row(e, o)]
  /\ astray' = IF events[e] # None /\ events[e].end # o.end
               THEN [astray EXCEPT ![e] = @ \cup {o.end}] ELSE astray
  /\ windows' =
       IF o.end = NoEnd THEN windows
       ELSE [windows EXCEPT ![o.end] = IF o.kind = "exhaustion" THEN MarkExhausted(SumUp(@, o), o)
                                       ELSE SumUp(@, o)]

Write(e, o) ==
  /\ version = 9
  /\ \E end \in canonicalFiveHourReset(o.end) : insertFiveHourEvent(e, [o EXCEPT !.end = end])
  /\ UNCHANGED version

\* The store has one connection: nothing else happens to the tables in a transaction.
NoTransaction == written \in {0, Len(batch)}

\* Every observation has a key of its own.
Fresh(e) == said[e] = None /\ events[e] = None
-----------------------------------------------------------------------------
\* A call of Messages has ended.
Record(e) ==
  /\ version = 9 /\ Fresh(e)
  /\ \E o \in Messages : said' = [said EXCEPT ![e] = o]
  /\ pending' = Append(pending, e)
  /\ UNCHANGED <<version, batch, written, tables>>

\* A flush detaches what is pending.
Flush ==
  /\ batch = <<>> /\ pending # <<>>
  /\ batch' = pending /\ pending' = <<>>
  /\ UNCHANGED <<version, said, written, tables>>

\* The next event of the batch, in its transaction.
AddFiveHourEvents ==
  /\ written < Len(batch)
  /\ written' = written + 1
  /\ Write(batch[written + 1], said[batch[written + 1]])
  /\ UNCHANGED <<said, pending, batch>>

\* The transaction of the events failed and left nothing, or that of the buckets did
\* after it.
MergeBack ==
  /\ batch # <<>> /\ NoTransaction
  /\ pending' = batch \o pending
  /\ batch' = <<>> /\ written' = 0
  /\ UNCHANGED <<version, said, tables>>

\* Both are committed.
Flushed ==
  /\ batch # <<>> /\ written = Len(batch)
  /\ batch' = <<>> /\ written' = 0
  /\ said' = [e \in Event |-> IF \E i \in DOMAIN pending : pending[i] = e THEN said[e] ELSE None]
  /\ UNCHANGED <<version, pending, tables>>

\* A usage page is written alone, and a page that failed is not written again.
recordAccountUsageObservation(e) ==
  /\ NoTransaction /\ Fresh(e)
  /\ \E o \in Reported : o.kind = "oauth_refresh" /\ Write(e, o)
  /\ UNCHANGED memory

MarkFiveHourExhausted(e) ==
  /\ NoTransaction /\ Fresh(e)
  /\ \E o \in Reported : o.kind = "exhaustion" /\ Write(e, o)
  /\ UNCHANGED memory

Forget ==
  /\ said' = [e \in Event |-> None]
  /\ pending' = <<>> /\ batch' = <<>> /\ written' = 0

\* It waits for a running flush; what was pending is dropped even if the deletion fails.
ClearFiveHourObservations ==
  /\ batch = <<>> /\ Forget
  /\ \/ /\ events' = [e \in Event |-> None] /\ windows' = [s \in Second |-> None]
        /\ astray' = [e \in Event |-> {}]
     \/ UNCHANGED tables
  /\ UNCHANGED version

\* The process dies; a transaction that was open might as well not have begun.
Restart ==
  /\ NoTransaction /\ Forget
  /\ UNCHANGED <<version, tables>>
-----------------------------------------------------------------------------
(* The migration.                                                           *)

\* Faulty: an end is compared with the first of its group, and a third one begins another.
GroupByFirst(s) ==
  LET chain == {r \in OnRecord : Min({r, s}) .. Max({r, s}) \subseteq OnRecord}
  IN {r \in chain : (r - Min(chain)) \div 2 = (s - Min(chain)) \div 2}

\* The ends on record a chain of single seconds joins with s.
Group(s) == {r \in OnRecord : Min({r, s}) .. Max({r, s}) \subseteq OnRecord}

MessagesOf(s) == Cardinality({e \in Event : events[e] # None /\ events[e].end = s /\ events[e].kind = "messages"})

\* The end with the most messages, of several the latest.
Canonical(s) ==
  Max({r \in Group(s) : \A q \in Group(s) : MessagesOf(q) <= MessagesOf(r)})

\* The canonical window, corrected by the others.
Merged(s) ==
  LET group == Group(s)
      own == windows[Canonical(s)]
      first == Min({windows[r].first : r \in group})
      last == Max({windows[r].last : r \in group})
      exhausted == {windows[r].exhausted : r \in group} \ {0}
  IN [first |-> first, last |-> last,
      firstUsed |-> IF own.first = first THEN own.firstUsed
                    ELSE windows[Min({r \in group : windows[r].first = first})].firstUsed,
      lastUsed |-> IF own.last = last THEN own.lastUsed
                   ELSE windows[Min({r \in group : windows[r].last = last})].lastUsed,
      maxUsed |-> Max({windows[r].maxUsed : r \in group}),
      exhausted |-> IF exhausted = {} THEN 0 ELSE Min(exhausted)]

\* The program before, which wrote the end as it was reported; its memory is left out,
\* as an event written again went to its own window.
WriteAsReported(e) ==
  /\ version = 8 /\ Fresh(e)
  /\ \E o \in Reported : insertFiveHourEvent(e, o)
  /\ UNCHANGED <<version, memory>>

\* The start of this version, when the one before has ended.
mergeAdjacentFiveHourWindows ==
  /\ version = 8 /\ version' = 9
  /\ windows' = [s \in Second |-> IF s \in OnRecord /\ Canonical(s) = s THEN Merged(s) ELSE None]
  /\ events' = [e \in Event |-> IF events[e] # None /\ events[e].end \in OnRecord
                                THEN [events[e] EXCEPT !.end = Canonical(@)] ELSE events[e]]
  /\ UNCHANGED <<memory, astray>>

Next ==
  \/ \E e \in Event : WriteAsReported(e) \/ Record(e) \/ recordAccountUsageObservation(e)
                      \/ MarkFiveHourExhausted(e)
  \/ Flush \/ AddFiveHourEvents \/ MergeBack \/ Flushed
  \/ ClearFiveHourObservations \/ Restart \/ mergeAdjacentFiveHourWindows
Spec == Init /\ [][Next]_vars
-----------------------------------------------------------------------------
(* Properties.                                                              *)

\* Once the database is migrated no two windows on record end a second apart: what one
\* window was for either surface stays one, however chains of ends were on record
\* before (five_hour_observation.go: canonicalFiveHourReset and the migration agree).
OneWindowPerEnd == version = 9 => \A r, s \in OnRecord : r < s => s - r > 1

EventsOf(s) == {e \in Event : events[e] # None /\ events[e].end = s}
SummedUp(s) == EventsOf(s) \cup {e \in Event : s \in astray[e]}

\* A window says of the events summed up in it what they say themselves, in whatever
\* order they were written, whichever windows were merged and however often a batch was
\* written again: the first and the last observation with their utilizations, the largest
\* one and the first exhaustion.  A window has an event of its own, and every event that
\* names an end has its window (insertFiveHourEvent, mergeAdjacentFiveHourWindows,
\* Manager.Flush).
WindowsSumUpEvents ==
  \A s \in Second :
    LET at(E) == {events[e].at : e \in E}
        used(t) == {events[e].used : e \in {f \in SummedUp(s) : events[f].at = t}}
        exhaustions == {e \in EventsOf(s) : events[e].kind = "exhaustion"} IN
    IF EventsOf(s) = {} THEN windows[s] = None
    ELSE /\ windows[s] # None
         /\ windows[s].first = Min(at(SummedUp(s))) /\ windows[s].firstUsed \in used(windows[s].first)
         /\ windows[s].last = Max(at(SummedUp(s))) /\ windows[s].lastUsed \in used(windows[s].last)
         /\ windows[s].maxUsed = Max({events[e].used : e \in SummedUp(s)})
         /\ windows[s].exhausted = IF exhaustions = {} THEN 0 ELSE Min(at(exhaustions))

\* All that a window sums up beyond its own events is the reading of a message that was
\* written again after the window had come on record on the other side of the end the
\* message reported: two seconds from the message's own window, never farther, and never
\* an exhaustion (canonicalFiveHourReset, Manager.Flush).
StraysAreNear ==
  \A e \in Event : \A s \in astray[e] :
    events[e] # None /\ events[e].kind = "messages" /\ events[e].end \in {s - 2, s + 2}
=============================================================================
