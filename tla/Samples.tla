------------------------------ MODULE Samples ------------------------------
(***************************************************************************)
(* What the console shows of one subscription account: the usage page it   *)
(* reads from upstream, cached for a while and read by one call at a time, *)
(* and the live reading of its five-hour window, which the headers of      *)
(* every answer and every forced usage page move forward without a lock.   *)
(*                                                                         *)
(* Readings reach the live view later than they were made and in another   *)
(* order.  The entry that holds it is dropped when a reset card is spent.  *)
(***************************************************************************)
EXTENDS Integers

CONSTANTS
  Page,        \* calls of the usage page
  Reply,       \* answers of the Messages API
  MaxTime,     \* bound of the clock
  MaxSamplers, \* bound of the entries ever made
  None

Reader == Page \cup Reply
Sampler == 1..MaxSamplers

VARIABLES
  now,
  usage, lock,         \* the time of the cached view, or 0 once its TTL is over; the mutex
  live,                \* the time of each sampler's reading
  entry,               \* the sampler of the account's key, or 0
  pc,
  force, since,        \* what a page call asked for, and when
  at,                  \* the time of the view or of the reading
  sampler, previous    \* what observe works on and has loaded

cache == <<usage, lock>>
shown == <<live, entry>>
calls == <<pc, force, since, at, sampler, previous>>
vars == <<now, cache, shown, calls>>
-----------------------------------------------------------------------------
Instant == 0..MaxTime

TypeOK ==
  /\ now \in Instant /\ usage \in Instant /\ lock \in Page \cup {None}
  /\ live \in [Sampler -> Instant] /\ entry \in Sampler \cup {0}
  /\ pc \in [Reader -> {"idle", "lock", "read", "keep", "save", "entry", "load", "swap", "answered"}]
  /\ force \in [Page -> BOOLEAN] /\ since \in [Page -> Instant] /\ at \in [Reader -> Instant]
  /\ sampler \in [Reader -> Sampler \cup {0}] /\ previous \in [Reader -> Instant]
  /\ \A h \in Page : (lock = h) <=> pc[h] \in {"read", "keep"}

Init ==
  /\ now = 1 /\ usage = 0 /\ lock = None
  /\ live = [s \in Sampler |-> 0] /\ entry = 0
  /\ pc = [r \in Reader |-> "idle"]
  /\ force = [h \in Page |-> FALSE] /\ since = [h \in Page |-> 0] /\ at = [r \in Reader |-> 0]
  /\ sampler = [r \in Reader |-> 0] /\ previous = [r \in Reader |-> 0]

\* What a call held is gone with it.
Return(r) ==
  /\ pc' = [pc EXCEPT ![r] = "idle"] /\ at' = [at EXCEPT ![r] = 0]
  /\ sampler' = [sampler EXCEPT ![r] = 0] /\ previous' = [previous EXCEPT ![r] = 0]
  /\ force' = [h \in Page |-> h # r /\ force[h]]
  /\ since' = [h \in Page |-> IF h = r THEN 0 ELSE since[h]]

Goto(r, label) == pc' = [pc EXCEPT ![r] = label]
-----------------------------------------------------------------------------
(* The usage page.                                                          *)

Ask(h) ==
  /\ pc[h] = "idle"
  /\ \E forced \in BOOLEAN :
       /\ force' = [force EXCEPT ![h] = forced]
       /\ IF ~forced /\ usage # 0
          THEN Goto(h, "answered") /\ at' = [at EXCEPT ![h] = usage]
          ELSE Goto(h, "lock") /\ UNCHANGED at
  /\ since' = [since EXCEPT ![h] = now]
  /\ UNCHANGED <<now, cache, shown, sampler, previous>>

\* Faulty: a call that had to wait takes what the one before it has read.
LockThenCache(h) ==
  /\ pc[h] = "lock" /\ lock = None
  /\ IF usage # 0
     THEN Goto(h, "answered") /\ at' = [at EXCEPT ![h] = usage] /\ UNCHANGED lock
     ELSE Goto(h, "read") /\ lock' = h /\ UNCHANGED at
  /\ UNCHANGED <<now, usage, shown, force, since, sampler, previous>>

\* The mutex, and under it the cache again.
Lock(h) ==
  /\ pc[h] = "lock" /\ lock = None
  /\ IF ~force[h] /\ usage # 0
     THEN Goto(h, "answered") /\ at' = [at EXCEPT ![h] = usage] /\ UNCHANGED lock
     ELSE Goto(h, "read") /\ lock' = h /\ UNCHANGED at
  /\ UNCHANGED <<now, usage, shown, force, since, sampler, previous>>

\* The account is gone or has no credentials, or upstream does not answer.
ReadFails(h) ==
  /\ pc[h] = "read"
  /\ Return(h) /\ lock' = None
  /\ UNCHANGED <<now, usage, shown>>

getJSON(h) ==
  /\ pc[h] = "read"
  /\ Goto(h, "keep") /\ at' = [at EXCEPT ![h] = now]
  /\ UNCHANGED <<now, cache, shown, force, since, sampler, previous>>

\* The profile has been read, or not; only a forced view is observed.
Keep(h) ==
  /\ pc[h] = "keep"
  /\ usage' = at[h] /\ lock' = None
  /\ Goto(h, IF force[h] THEN "save" ELSE "answered")
  /\ UNCHANGED <<now, shown, force, since, at, sampler, previous>>

\* The event is written first; the view has no five-hour window that still lasts, or
\* the write fails.
NotObserved(h) ==
  /\ pc[h] = "save"
  /\ Goto(h, "answered")
  /\ UNCHANGED <<now, cache, shown, force, since, at, sampler, previous>>

recordAccountUsageObservation(h) ==
  /\ pc[h] = "save"
  /\ Goto(h, "entry")
  /\ UNCHANGED <<now, cache, shown, force, since, at, sampler, previous>>
-----------------------------------------------------------------------------
(* The live reading.                                                        *)

\* The headers of a successful answer arrive.
Arrive(r) ==
  /\ pc[r] = "idle"
  /\ Goto(r, "entry") /\ at' = [at EXCEPT ![r] = now]
  /\ UNCHANGED <<now, cache, shown, force, since, sampler, previous>>

\* The sampler of the account's key, made if there is none.
forAccount(r) ==
  IF entry # 0 THEN entry' = entry
  ELSE \E s \in Sampler : live[s] = 0 /\ (\A q \in Reader : sampler[q] # s) /\ entry' = s

\* observe up to its first load; the entry may be dropped after it is found.
Observe(r) ==
  /\ pc[r] = "entry"
  /\ forAccount(r)
  /\ sampler' = [sampler EXCEPT ![r] = entry']
  /\ previous' = [previous EXCEPT ![r] = live[entry']]
  /\ Goto(r, IF at[r] <= live[entry'] THEN "answered" ELSE "swap")
  /\ UNCHANGED <<now, cache, live, force, since, at>>

LoadAgain(r) ==
  /\ pc[r] = "load"
  /\ previous' = [previous EXCEPT ![r] = live[sampler[r]]]
  /\ Goto(r, IF at[r] <= live[sampler[r]] THEN "answered" ELSE "swap")
  /\ UNCHANGED <<now, cache, shown, force, since, at, sampler>>

\* Faulty: the reading is stored though another one came between.
StoreReading(r) ==
  /\ pc[r] = "swap"
  /\ live' = [live EXCEPT ![sampler[r]] = at[r]] /\ Goto(r, "answered")
  /\ UNCHANGED <<now, cache, entry, force, since, at, sampler, previous>>

CompareAndSwap(r) ==
  /\ pc[r] = "swap"
  /\ IF live[sampler[r]] = previous[r]
     THEN live' = [live EXCEPT ![sampler[r]] = at[r]] /\ Goto(r, "answered")
     ELSE UNCHANGED live /\ Goto(r, "load")
  /\ UNCHANGED <<now, cache, entry, force, since, at, sampler, previous>>

Done(r) ==
  /\ pc[r] = "answered"
  /\ Return(r)
  /\ UNCHANGED <<now, cache, shown>>

\* A reset card was spent, or the account deleted.
forget ==
  /\ entry # 0 /\ entry' = 0
  /\ UNCHANGED <<now, cache, live, calls>>

Expire == usage # 0 /\ usage' = 0 /\ UNCHANGED <<now, lock, shown, calls>>
Tick == now < MaxTime /\ now' = now + 1 /\ UNCHANGED <<cache, shown, calls>>

Next ==
  \/ \E h \in Page : \/ Ask(h) \/ Lock(h) \/ ReadFails(h) \/ getJSON(h) \/ Keep(h)
                     \/ NotObserved(h) \/ recordAccountUsageObservation(h)
  \/ \E r \in Reply : Arrive(r)
  \/ \E r \in Reader : Observe(r) \/ LoadAgain(r) \/ CompareAndSwap(r) \/ Done(r)
  \/ forget \/ Expire \/ Tick
Spec == Init /\ [][Next]_vars
-----------------------------------------------------------------------------
(* Properties.                                                              *)

\* A reading that was observed is not lost to an older one, whichever of several
\* answers and usage pages is observed last (subscription_sampler.go: observe).
LiveIsNewest ==
  \A r \in Reader : pc[r] = "answered" /\ sampler[r] # 0 => live[sampler[r]] >= at[r]

\* A usage page that was forced shows what upstream said after it was asked for, though
\* it waited for another call's read to end (account_usage.go: get).
ForcedIsNew == \A h \in Page : pc[h] = "answered" /\ force[h] => at[h] >= since[h]

\* What the console shows is current, in both of its views (accountSampler.observe and
\* accountUsageManager.get).
SamplesAreCurrent == LiveIsNewest /\ ForcedIsNew
=============================================================================
