------------------------------- MODULE Ledger -------------------------------
(***************************************************************************)
(* Usage accounting: accounting.Manager, the tables it writes and the end  *)
(* of Server.Run.                                                          *)
(*                                                                         *)
(* Finished calls add to four pending ledgers in memory.  A flush detaches *)
(* all four and writes them in three transactions; a transaction that      *)
(* fails ends it and what must be tried again is merged back.  The console *)
(* clears ledgers and deletes accounts meanwhile, calls go on recording,   *)
(* and the process stops or dies at any point.                             *)
(*                                                                         *)
(* A counter is kept as how often each call was added to it.               *)
(***************************************************************************)
EXTENDS Integers

CONSTANTS
  Call,        \* forwarded calls
  RowId,       \* ids of accounts rows
  Identity,    \* accounts
  MaxFailures, \* bound: transactions that fail for reasons of their own
  None         \* no account, no row

ASSUME LedgerConstants ==
  /\ RowId \subseteq Nat \ {0} /\ None \notin RowId \cup Identity
  /\ MaxFailures \in Nat

VARIABLES
  \* tables
  account,   \* accounts: who has a row
  db,        \* usage_hourly, usage_ingress_hourly, five_hour_events, refusal_hourly
  failures,  \* transactions that failed, MaxFailures at most
  \* relay process
  pending,   \* Manager.pending, pendingIngress, pendingEvents, pendingRefusals
  batch,     \* what the running flush detached
  flush,     \* its next transaction
  clearing,  \* ledgers a clear holds flushMu for
  phase,     \* Server.Run
  call, row, \* a call's progress and the row of the account that served it
  \* observation only
  owed,      \* calls a ledger must account for
  cleared    \* calls the console cleared from a ledger

serving == <<call, row>>
manager == <<pending, batch, flush, clearing>>
vars == <<account, db, failures, manager, phase, serving, owed, cleared>>
-----------------------------------------------------------------------------
Kind == {"usage", "ingress", "events", "refusals"}
PerAccount == Kind \ {"ingress"}
Tally == [Kind -> [Call -> Nat]]
Empty == [k \in Kind |-> [c \in Call |-> 0]]
One(c) == [d \in Call |-> IF d = c THEN 1 ELSE 0]
Plus(f, g) == [c \in Call |-> f[c] + g[c]]
Queued(k, c) == pending[k][c] + batch[k][c]
Missing(c) == account[row[c]] = None

TypeOK ==
  /\ account \in [RowId -> Identity \cup {None}]
  /\ db \in Tally /\ pending \in Tally /\ batch \in Tally
  /\ failures \in 0..MaxFailures
  /\ flush \in {"idle", "events", "buckets", "refusals"}
  /\ clearing \in {{}, {"usage", "ingress"}, {"events"}}
  /\ phase \in {"serving", "draining", "final", "flushing", "broken", "breaking",
                 "stopped", "failed", "timedOut"}
  /\ call \in [Call -> {"new", "open", "refused", "done"}]
  /\ row \in [Call -> RowId \cup {None}]
  /\ owed \in [Kind -> SUBSET Call] /\ cleared \in [Kind -> SUBSET Call]
  /\ \A c \in Call : call[c] = "new" <=> row[c] = None
  /\ flush = "idle" => batch = Empty

Init ==
  /\ account = [i \in RowId |-> None]
  /\ db = Empty /\ pending = Empty /\ batch = Empty
  /\ failures = 0
  /\ flush = "idle" /\ clearing = {}
  /\ phase = "serving"
  /\ call = [c \in Call |-> "new"]
  /\ row = [c \in Call |-> None]
  /\ owed = [k \in Kind |-> {}] /\ cleared = [k \in Kind |-> {}]
-----------------------------------------------------------------------------
(* Calls.                                                                   *)

Alive == phase \notin {"stopped", "failed", "timedOut"}
\* Console calls may still begin: the last flush of a shutdown follows every handler.
Handling == phase \in {"serving", "draining", "broken", "breaking"}

Serve(c) ==
  /\ phase = "serving" /\ call[c] = "new"
  /\ \E i \in RowId :
       /\ account[i] # None
       /\ row' = [row EXCEPT ![c] = i]
  /\ call' = [call EXCEPT ![c] = "open"]
  /\ UNCHANGED <<account, db, failures, manager, phase, owed, cleared>>

Add(kinds, c) ==
  /\ pending' = [k \in Kind |-> IF k \in kinds THEN Plus(pending[k], One(c)) ELSE pending[k]]
  /\ owed' = [k \in Kind |-> IF k \in kinds /\ ~Missing(c) THEN owed[k] \cup {c} ELSE owed[k]]

\* The answer was a refusal; Record follows.
RecordRefusal(c) ==
  /\ Alive /\ call[c] = "open"
  /\ Add({"refusals"}, c)
  /\ call' = [call EXCEPT ![c] = "refused"]
  /\ UNCHANGED <<account, db, failures, batch, flush, clearing, phase, row, cleared>>

\* A successful answer is an event; its usage counts if upstream sent any.
Record(c) ==
  /\ Alive /\ call[c] \in {"open", "refused"}
  /\ \E kinds \in {{"events"}, {"events", "usage", "ingress"}} : Add(kinds, c)
  /\ call' = [call EXCEPT ![c] = "done"]
  /\ UNCHANGED <<account, db, failures, batch, flush, clearing, phase, row, cleared>>

\* A call that failed records nothing.
Abandon(c) ==
  /\ Alive /\ call[c] = "open"
  /\ call' = [call EXCEPT ![c] = "done"]
  /\ UNCHANGED <<account, db, failures, manager, phase, row, owed, cleared>>
-----------------------------------------------------------------------------
(* Flush.  flushMu is held while flush # "idle" or clearing # {}.           *)

FlushMuFree == flush = "idle" /\ clearing = {}

Detach ==
  /\ FlushMuFree /\ pending # Empty
  /\ batch' = pending
  /\ pending' = Empty
  /\ flush' = "events"
  /\ UNCHANGED <<account, db, failures, clearing, serving, owed, cleared>>

\* The ticker's flush, or a console page's.
Flush ==
  /\ phase \in {"serving", "draining", "final", "broken"}
  /\ Detach
  /\ UNCHANGED phase

\* The flush that Run does last; what it returns depends on it after a shutdown, while
\* after a failure of the listener it is an error in any case.
FinalFlush ==
  /\ phase \in {"final", "broken"}
  /\ \/ Detach /\ phase' = IF phase = "final" THEN "flushing" ELSE "breaking"
     \/ /\ FlushMuFree /\ pending = Empty
        /\ phase' = IF phase = "final" THEN "stopped" ELSE "failed"
        /\ UNCHANGED <<account, db, failures, manager, serving, owed, cleared>>

Return(result) ==
  phase' = CASE phase = "flushing" -> result [] phase = "breaking" -> "failed" [] OTHER -> phase

\* The detached part of some ledgers is merged with what calls recorded since.
Restore(kinds) ==
  pending' = [k \in Kind |-> IF k \in kinds THEN Plus(pending[k], batch[k]) ELSE pending[k]]

\* What one transaction writes, and whether the foreign keys let it.
Writes(step) == CASE step = "events"   -> {"events"}
                  [] step = "buckets"  -> {"usage", "ingress"}
                  [] step = "refusals" -> {"refusals"}
Needed(step) == \E k \in Writes(step), c \in Call : batch[k][c] > 0
Orphaned(step) == \E k \in Writes(step) \cap PerAccount, c \in Call : batch[k][c] > 0 /\ Missing(c)
After(step) == IF step = "events" THEN "buckets" ELSE "refusals"

\* Faulty variants, marked so, are no part of the specification: each is the
\* definition after it as a plausible defect would have it.
\* Faulty: an event that is there already is added again.
InsertedAgain(k) == Plus(db[k], batch[k])

\* Counters add up; an event that is there already stays as it is.
Inserted(k) ==
  [c \in Call |-> IF k = "events" THEN IF db[k][c] + batch[k][c] > 0 THEN 1 ELSE 0
                                  ELSE db[k][c] + batch[k][c]]

\* Faulty: the accounts' totals are committed before the ingress totals.
CommitAccountsOnly(step) ==
  db' = [k \in Kind |-> IF k \in Writes(step) \ {"ingress"} THEN Inserted(k) ELSE db[k]]

Commit(step) == db' = [k \in Kind |-> IF k \in Writes(step) THEN Inserted(k) ELSE db[k]]

\* Faulty: a failed write of the totals does not bring the ingress totals back.
RestoredLosingIngress(step) == IF step = "refusals" THEN {"refusals"} ELSE Kind \ {"ingress"}

\* Faulty: the last transaction brings everything back, too.
RestoredWhole(step) == Kind

\* The first two transactions bring everything back, events already written, too;
\* the last one only its own.
Restored(step) == IF step = "refusals" THEN {"refusals"} ELSE Kind

\* Faulty: the refusals stay detached once they are written.
WrittenKeepingBatch(step) ==
  /\ flush = step /\ ~Orphaned(step)
  /\ Commit(step)
  /\ IF step = "refusals"
     THEN flush' = "idle" /\ Return("stopped") /\ UNCHANGED batch
     ELSE /\ flush' = After(step)
          /\ batch' = [k \in Kind |-> IF k \in Restored(After(step)) THEN batch[k] ELSE Empty[k]]
          /\ UNCHANGED phase
  /\ UNCHANGED <<account, failures, pending, clearing, serving, owed, cleared>>

\* What is written leaves the batch once no failure can bring it back.
Written(step) ==
  /\ flush = step /\ ~Orphaned(step)
  /\ Commit(step)
  /\ IF step = "refusals"
     THEN flush' = "idle" /\ batch' = Empty /\ Return("stopped")
     ELSE /\ flush' = After(step)
          /\ batch' = [k \in Kind |-> IF k \in Restored(After(step)) THEN batch[k] ELSE Empty[k]]
          /\ UNCHANGED phase
  /\ UNCHANGED <<account, failures, pending, clearing, serving, owed, cleared>>

WriteFails(step) ==
  /\ flush = step /\ Needed(step)
  /\ \/ Orphaned(step) /\ UNCHANGED failures
     \/ failures < MaxFailures /\ failures' = failures + 1
  /\ Restore(Restored(step))
  /\ flush' = "idle" /\ batch' = Empty
  /\ Return("failed")
  /\ UNCHANGED <<account, db, clearing, serving, owed, cleared>>

Step == {"events", "buckets", "refusals"}
-----------------------------------------------------------------------------
(* The console.                                                             *)

Forget(ledger, kinds) == [k \in Kind |-> IF k \in kinds THEN Empty[k] ELSE ledger[k]]
Finished == {c \in Call : call[c] = "done"}

\* Faulty: the clear does not wait for a running flush.
StartClearUnserialized(kinds) ==
  /\ Handling /\ clearing = {}
  /\ pending' = Forget(pending, kinds)
  /\ clearing' = kinds
  /\ owed' = [k \in Kind |-> IF k \in kinds THEN {} ELSE owed[k]]
  /\ UNCHANGED <<account, db, failures, batch, flush, phase, serving, cleared>>

StartClear(kinds) ==
  /\ Handling /\ FlushMuFree
  /\ pending' = Forget(pending, kinds)
  /\ clearing' = kinds
  /\ owed' = [k \in Kind |-> IF k \in kinds THEN {} ELSE owed[k]]
  /\ UNCHANGED <<account, db, failures, batch, flush, phase, serving, cleared>>

FinishClear ==
  /\ Alive /\ clearing # {}
  /\ \/ /\ db' = Forget(db, clearing)
        /\ cleared' = [k \in Kind |-> cleared[k] \cup
             (IF k \in clearing THEN {c \in Finished : pending[k][c] = 0} ELSE {})]
        /\ UNCHANGED failures
     \/ /\ failures < MaxFailures /\ failures' = failures + 1
        /\ UNCHANGED <<db, cleared>>
  /\ clearing' = {}
  /\ UNCHANGED <<account, pending, batch, flush, phase, serving, owed>>

\* Deleting an account takes its rows in the three tables along.
DeleteAccount(i) ==
  /\ Handling /\ account[i] # None
  /\ account' = [account EXCEPT ![i] = None]
  /\ db' = [k \in Kind |-> IF k \in PerAccount
              THEN [c \in Call |-> IF row[c] = i THEN 0 ELSE db[k][c]] ELSE db[k]]
  /\ owed' = [k \in Kind |-> IF k \in PerAccount THEN {c \in owed[k] : row[c] # i} ELSE owed[k]]
  /\ UNCHANGED <<failures, manager, phase, serving, cleared>>

\* SQLite gives a new row the id after the largest one in use.
ImportAccount(u) ==
  /\ Handling /\ \A i \in RowId : account[i] # u
  /\ \E i \in RowId :
       /\ \A j \in RowId : j >= i => account[j] = None
       /\ i = 1 \/ (i - 1 \in RowId /\ account[i - 1] # None)
       /\ account' = [account EXCEPT ![i] = u]
  /\ UNCHANGED <<db, failures, manager, phase, serving, owed, cleared>>
-----------------------------------------------------------------------------
(* Server.Run ends.                                                         *)

\* A signal: the listener closes and Shutdown waits for the handlers.
Interrupt ==
  /\ phase = "serving" /\ phase' = "draining"
  /\ UNCHANGED <<account, db, failures, manager, serving, owed, cleared>>

\* The listener fails; its handlers are not waited for.
ListenFails ==
  /\ phase = "serving" /\ phase' = "broken"
  /\ UNCHANGED <<account, db, failures, manager, serving, owed, cleared>>

\* Faulty: the last flush does not wait for the handlers.
DrainedEarly ==
  /\ phase = "draining" /\ clearing = {} /\ phase' = "final"
  /\ UNCHANGED <<account, db, failures, manager, serving, owed, cleared>>

Drained ==
  /\ phase = "draining" /\ clearing = {}
  /\ \A c \in Call : call[c] \in {"new", "done"}
  /\ phase' = "final"
  /\ UNCHANGED <<account, db, failures, manager, serving, owed, cleared>>

\* Some handler outlasts shutdownCtx.
ShutdownTimesOut ==
  /\ phase = "draining"
  /\ clearing # {} \/ \E c \in Call : call[c] \in {"open", "refused"}
  /\ phase' = "timedOut"
  /\ UNCHANGED <<account, db, failures, manager, serving, owed, cleared>>

\* The process starts again with nothing pending; what was queued is lost.
Lose ==
  /\ pending' = Empty /\ batch' = Empty /\ flush' = "idle" /\ clearing' = {}
  /\ phase' = "serving"
  /\ call' = [c \in Call |-> IF call[c] = "new" THEN "new" ELSE "done"]
  /\ owed' = [k \in Kind |-> {c \in owed[k] : db[k][c] > 0}]
  /\ UNCHANGED <<account, db, failures, row, cleared>>

Crash == Alive /\ Lose
Restart == ~Alive /\ Lose

Handle(c) == RecordRefusal(c) \/ Record(c) \/ Abandon(c)
Work == FinishClear \/ \E s \in Step : Written(s) \/ WriteFails(s)
Console ==
  \/ \E kinds \in {{"usage", "ingress"}, {"events"}} : StartClear(kinds)
  \/ \E i \in RowId : DeleteAccount(i)
  \/ \E u \in Identity : ImportAccount(u)
Stop == Interrupt \/ ListenFails \/ Drained \/ ShutdownTimesOut \/ Crash \/ Restart

Next == (\E c \in Call : Serve(c) \/ Handle(c)) \/ Flush \/ FinalFlush \/ Work
        \/ Console \/ Stop
Spec == Init /\ [][Next]_vars

\* The ticker asks for flushMu every five seconds, a Go mutex is handed to the longest
\* waiter, and the transactions and clears have deadlines.
FairSpec == Spec /\ SF_vars(Flush) /\ SF_vars(FinalFlush) /\ WF_vars(Work)
-----------------------------------------------------------------------------
(* Properties.                                                              *)

\* A counter holds every recorded call once, queued or written, through any failures
\* and retries, unless it was cleared, its account was deleted or the process died
\* (manager.go, Flush).
CountedOnce ==
  \A k \in Kind \ {"events"}, c \in Call :
    LET total == Queued(k, c) + db[k][c] IN total <= 1 /\ (c \in owed[k] => total = 1)

\* An event is there once however often its batch was retried, and is not lost
\* (five_hour_observation.go, ON CONFLICT DO NOTHING).
EventsKept ==
  \A c \in Call : /\ Queued("events", c) <= 1 /\ db["events"][c] <= 1
                  /\ c \in owed["events"] => Queued("events", c) + db["events"][c] >= 1

\* The totals of accounts and of ingresses are written together, or neither.
TotalsAgree ==
  \A c \in owed["usage"] \cap owed["ingress"] : db["usage"][c] = db["ingress"][c]

\* What the console cleared does not come back from a batch detached before
\* (manager.go, Clear and ClearFiveHourObservations).
ClearedStaysAway ==
  \A k \in Kind : \A c \in cleared[k] : Queued(k, c) + db[k][c] = 0

\* When Run returns without an error, every call is written.
CleanStopWritesAll ==
  phase = "stopped" => \A k \in Kind : \A c \in owed[k] : db[k][c] = 1

\* What a ledger must account for is written in the end while no queued call belongs
\* to a deleted account and the process runs.
Settled(k, c) == db[k][c] > 0 \/ c \notin owed[k] \/ ~Alive
Poisoned == \E k \in PerAccount, c \in Call : Queued(k, c) > 0 /\ Missing(c)
WrittenEventually ==
  \A k \in Kind, c \in Call : c \in owed[k] ~> Settled(k, c) \/ Poisoned
-----------------------------------------------------------------------------
(* What documents say and the code does not keep.                           *)

\* README: failed batches are retried.  A recorded call of an account that is still
\* there is written in the end.
RetriesSucceed == \A k \in PerAccount, c \in Call : c \in owed[k] ~> Settled(k, c)
=============================================================================
