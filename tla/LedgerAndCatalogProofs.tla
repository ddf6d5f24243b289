---------------------- MODULE LedgerAndCatalogProofs ----------------------
(***************************************************************************)
(* Calls are counted once and no answer of the Models API is less than     *)
(* whole, for any calls, policies, clients, models and sizes of a page.    *)
(*                                                                         *)
(* The ledger comes first, by itself; then the lists of models, the pages  *)
(* cut from them and the walks of clients through pages of different       *)
(* lists; last the composition, where a behaviour is one of either part.   *)
(***************************************************************************)
EXTENDS MCLedgerAndCatalog, Sequences, FiniteSetTheorems, TLAPS

-----------------------------------------------------------------------------
(* The ledger.                                                               *)

\* A clear and a flush exclude one another, and the last transaction has only the
\* refusals left to write.
Detached ==
  /\ clearing # {} => flush = "idle"
  /\ flush = "refusals" => \A k \in Kind \ {"refusals"}, c \in Call : batch[k][c] = 0

\* A call that has not recorded in a ledger yet.
Unrecorded(k, c) == call[c] \in {"new", "open"} \/ (call[c] = "refused" /\ k # "refusals")

\* The entry of a call in a ledger: absent before it is recorded and after it was
\* cleared, otherwise there once, an event perhaps both queued and written.  What was
\* recorded during a clear is pending, and a detached event is lost to nobody once the
\* totals are next to be written.
Entry(k, c) ==
  LET queued == Queued(k, c)
      written == db[k][c]
  IN  /\ queued <= 1 /\ written <= 1
      /\ k # "events" => queued + written <= 1
      /\ c \in owed[k] => queued + written >= 1
      /\ c \in cleared[k] => queued + written = 0 /\ call[c] = "done"
      /\ k \in clearing /\ c \in owed[k] => pending[k][c] = 1
      /\ k = "events" /\ flush # "events" /\ c \in owed[k] => pending[k][c] + written >= 1
      /\ Unrecorded(k, c) => queued + written = 0 /\ c \notin owed[k] /\ c \notin cleared[k]
Entries == \A k \in Kind, c \in Call : Entry(k, c)

\* A call's entries for its account and its ingress travel together.
Pair(c) ==
  c \in owed["usage"] /\ c \in owed["ingress"] =>
    /\ pending["usage"][c] = pending["ingress"][c]
    /\ batch["usage"][c] = batch["ingress"][c]
    /\ db["usage"][c] = db["ingress"][c]
Pairs == \A c \in Call : Pair(c)

\* After the handlers, nothing is added to the pending ledgers but what a flush that
\* is not the last one restores.
Stopping ==
  /\ phase \in {"final", "flushing", "stopped"} =>
       clearing = {} /\ \A c \in Call : call[c] \in {"new", "done"}
  /\ phase = "flushing" => pending = Empty /\ flush # "idle"
  /\ phase = "stopped" => pending = Empty /\ flush = "idle"

IInv == TypeOK /\ Detached /\ Entries /\ Pairs /\ Stopping
-----------------------------------------------------------------------------
(* What the steps do to one entry.                                           *)

\* The entries of a ledger are counts.
LEMMA EntryTypes ==
  ASSUME TypeOK, NEW k \in Kind
  PROVE  /\ pending[k] \in [Call -> Nat] /\ batch[k] \in [Call -> Nat] /\ db[k] \in [Call -> Nat]
         /\ \A c \in Call : pending[k][c] \in Nat /\ batch[k][c] \in Nat /\ db[k][c] \in Nat
<1>1. pending[k] \in [Call -> Nat] /\ batch[k] \in [Call -> Nat] /\ db[k] \in [Call -> Nat]
  BY DEF TypeOK, Tally
<1> QED BY <1>1

\* The empty ledgers.
LEMMA EmptyEntries == Empty \in Tally /\ \A k \in Kind, c \in Call : Empty[k][c] = 0
BY DEF Empty, Tally

\* Merging two ledgers of one kind.
LEMMA PlusEntries ==
  ASSUME NEW f \in [Call -> Nat], NEW g \in [Call -> Nat]
  PROVE  Plus(f, g) \in [Call -> Nat] /\ \A c \in Call : Plus(f, g)[c] = f[c] + g[c]
BY DEF Plus

\* Recording a call.
LEMMA Added ==
  ASSUME TypeOK, NEW kinds \in SUBSET Kind, NEW c \in Call, Add(kinds, c)
  PROVE  /\ pending' \in Tally /\ owed' \in [Kind -> SUBSET Call]
         /\ \A k \in Kind, d \in Call :
              pending'[k][d] = IF k \in kinds /\ d = c THEN pending[k][d] + 1 ELSE pending[k][d]
         /\ \A k \in Kind :
              owed'[k] = IF k \in kinds /\ ~Missing(c) THEN owed[k] \cup {c} ELSE owed[k]
<1>1. One(c) \in [Call -> Nat] /\ \A d \in Call : One(c)[d] = IF d = c THEN 1 ELSE 0
  BY DEF One
<1>2. \A k \in Kind : /\ Plus(pending[k], One(c)) \in [Call -> Nat]
                       /\ \A d \in Call : Plus(pending[k], One(c))[d] = pending[k][d] + One(c)[d]
  <2> TAKE k \in Kind
  <2> QED BY <1>1, EntryTypes, PlusEntries
<1>3. \A k \in Kind : pending'[k] = IF k \in kinds THEN Plus(pending[k], One(c)) ELSE pending[k]
  BY DEF Add
<1>4. \A k \in Kind, d \in Call :
        pending'[k][d] = IF k \in kinds /\ d = c THEN pending[k][d] + 1 ELSE pending[k][d]
  <2> TAKE k \in Kind, d \in Call
  <2>1. pending[k][d] \in Nat BY EntryTypes
  <2>2. CASE k \in kinds
    <3>1. pending'[k][d] = pending[k][d] + One(c)[d] BY <1>2, <1>3, <2>2
    <3> QED BY <1>1, <2>1, <2>2, <3>1
  <2>3. CASE k \notin kinds BY <1>3, <2>3
  <2> QED BY <2>2, <2>3
<1>5. pending' \in Tally
  <2>1. \A k \in Kind : (IF k \in kinds THEN Plus(pending[k], One(c)) ELSE pending[k]) \in [Call -> Nat]
    BY <1>2, EntryTypes
  <2> QED BY <2>1 DEF Add, Tally
<1>6. owed' \in [Kind -> SUBSET Call] /\ \A k \in Kind :
        owed'[k] = IF k \in kinds /\ ~Missing(c) THEN owed[k] \cup {c} ELSE owed[k]
  BY DEF Add, TypeOK
<1> QED BY <1>4, <1>5, <1>6

\* Merging a batch back.
LEMMA RestoredEntries ==
  ASSUME TypeOK, NEW kinds \in SUBSET Kind, Restore(kinds)
  PROVE  /\ pending' \in Tally
         /\ \A k \in Kind, c \in Call :
              pending'[k][c] = IF k \in kinds THEN pending[k][c] + batch[k][c] ELSE pending[k][c]
<1>1. \A k \in Kind : /\ Plus(pending[k], batch[k]) \in [Call -> Nat]
                       /\ \A c \in Call : Plus(pending[k], batch[k])[c] = pending[k][c] + batch[k][c]
  BY EntryTypes, PlusEntries
<1>2. \A k \in Kind : pending'[k] = IF k \in kinds THEN Plus(pending[k], batch[k]) ELSE pending[k]
  BY DEF Restore
<1>3. pending' \in Tally
  <2>1. \A k \in Kind : (IF k \in kinds THEN Plus(pending[k], batch[k]) ELSE pending[k]) \in [Call -> Nat]
    BY <1>1, EntryTypes
  <2> QED BY <2>1 DEF Restore, Tally
<1> QED BY <1>1, <1>2, <1>3

\* Writing a batch.
LEMMA CommittedEntries ==
  ASSUME TypeOK, NEW s \in Step, Commit(s)
  PROVE  /\ db' \in Tally
         /\ \A k \in Kind, c \in Call :
              db'[k][c] = IF k \notin Writes(s) THEN db[k][c]
                          ELSE IF k # "events" THEN db[k][c] + batch[k][c]
                          ELSE IF db[k][c] + batch[k][c] > 0 THEN 1 ELSE 0
<1>1. \A k \in Kind, c \in Call :
        /\ Inserted(k)[c] = IF k # "events" THEN db[k][c] + batch[k][c]
                            ELSE IF db[k][c] + batch[k][c] > 0 THEN 1 ELSE 0
        /\ Inserted(k)[c] \in Nat
  BY EntryTypes DEF Inserted
<1>2. \A k \in Kind : Inserted(k) \in [Call -> Nat]
  <2> TAKE k \in Kind
  <2>1. \A c \in Call : Inserted(k)[c] \in Nat BY <1>1
  <2> QED BY <2>1 DEF Inserted
<1>3. \A k \in Kind : db'[k] = IF k \in Writes(s) THEN Inserted(k) ELSE db[k]
  BY DEF Commit
<1>4. db' \in Tally
  <2>1. \A k \in Kind : (IF k \in Writes(s) THEN Inserted(k) ELSE db[k]) \in [Call -> Nat]
    BY <1>2, EntryTypes
  <2> QED BY <2>1 DEF Commit, Tally
<1> QED BY <1>1, <1>3, <1>4

\* Dropping ledgers.
LEMMA ForgottenEntries ==
  ASSUME NEW ledger \in Tally, NEW kinds
  PROVE  /\ Forget(ledger, kinds) \in Tally
         /\ \A k \in Kind, c \in Call :
              Forget(ledger, kinds)[k][c] = IF k \in kinds THEN 0 ELSE ledger[k][c]
<1>1. \A k \in Kind : ledger[k] \in [Call -> Nat] /\ Empty[k] \in [Call -> Nat]
  BY EmptyEntries DEF Tally
<1>2. \A k \in Kind : Forget(ledger, kinds)[k] = IF k \in kinds THEN Empty[k] ELSE ledger[k]
  BY DEF Forget
<1>3. Forget(ledger, kinds) \in Tally
  <2>1. \A k \in Kind : (IF k \in kinds THEN Empty[k] ELSE ledger[k]) \in [Call -> Nat] BY <1>1
  <2> QED BY <2>1 DEF Forget, Tally
<1> QED BY <1>2, <1>3, EmptyEntries

\* One transaction that is written.
LEMMA WrittenEntries ==
  ASSUME TypeOK, NEW s \in Step, Written(s)
  PROVE  /\ batch' \in Tally
         /\ \A k \in Kind, c \in Call :
              batch'[k][c] = IF s = "events" \/ (s = "buckets" /\ k = "refusals") THEN batch[k][c] ELSE 0
         /\ flush' = CASE s = "events" -> "buckets" [] s = "buckets" -> "refusals" [] OTHER -> "idle"
<1>1. CASE s = "refusals"
  <2>1. batch' = Empty /\ flush' = "idle" BY <1>1 DEF Written
  <2> QED BY <1>1, <2>1, EmptyEntries
<1>2. CASE s # "refusals"
  <2> DEFINE kept == Restored(After(s))
  <2>1. /\ batch' = [k \in Kind |-> IF k \in kept THEN batch[k] ELSE Empty[k]]
        /\ flush' = After(s)
    BY <1>2 DEF Written
  <2>2. \A k \in Kind : k \in kept <=> (s = "events" \/ k = "refusals")
    BY <1>2 DEF Restored, After, Step
  <2>3. \A k \in Kind : batch[k] \in [Call -> Nat] /\ Empty[k] \in [Call -> Nat]
    BY EntryTypes, EmptyEntries DEF Tally
  <2>4. \A k \in Kind : (IF k \in kept THEN batch[k] ELSE Empty[k]) \in [Call -> Nat] BY <2>3
  <2>5. batch' \in Tally BY <2>1, <2>4 DEF Tally
  <2>6. \A k \in Kind, c \in Call :
          batch'[k][c] = IF s = "events" \/ k = "refusals" THEN batch[k][c] ELSE 0
    BY <2>1, <2>2, EmptyEntries
  <2>7. flush' = IF s = "events" THEN "buckets" ELSE "refusals" BY <2>1 DEF After
  <2>8. s = "events" \/ s = "buckets" BY <1>2 DEF Step
  <2> QED BY <2>5, <2>6, <2>7, <2>8
<1> QED BY <1>1, <1>2

\* What a flush detaches.
LEMMA DetachedEntries ==
  ASSUME TypeOK, Detach
  PROVE  /\ batch' \in Tally /\ pending' \in Tally /\ flush' = "events"
         /\ \A k \in Kind, c \in Call :
              batch'[k][c] = pending[k][c] /\ pending'[k][c] = 0 /\ batch[k][c] = 0
<1>1. batch = Empty BY DEF TypeOK, Detach, FlushMuFree
<1> QED BY <1>1, EmptyEntries DEF TypeOK, Detach

\* What deleting an account takes along.
LEMMA DeletedEntries ==
  ASSUME TypeOK, NEW i \in RowId, DeleteAccount(i)
  PROVE  /\ db' \in Tally /\ owed' \in [Kind -> SUBSET Call]
         /\ \A k \in Kind, c \in Call :
              /\ db'[k][c] = IF k # "ingress" /\ row[c] = i THEN 0 ELSE db[k][c]
              /\ c \in owed'[k] <=> c \in owed[k] /\ ~(k # "ingress" /\ row[c] = i)
<1> DEFINE left(k) == [c \in Call |-> IF row[c] = i THEN 0 ELSE db[k][c]]
<1>1. \A k \in Kind : left(k) \in [Call -> Nat]
  <2> TAKE k \in Kind
  <2>1. \A c \in Call : (IF row[c] = i THEN 0 ELSE db[k][c]) \in Nat BY EntryTypes
  <2> QED BY <2>1
<1>2. db' = [k \in Kind |-> IF k \in PerAccount THEN left(k) ELSE db[k]] BY DEF DeleteAccount
<1>3. \A k \in Kind : k \in PerAccount <=> k # "ingress" BY DEF PerAccount
<1>4. \A k \in Kind : (IF k \in PerAccount THEN left(k) ELSE db[k]) \in [Call -> Nat]
  BY <1>1, EntryTypes
<1>5. db' \in Tally BY <1>2, <1>4 DEF Tally
<1>6. \A k \in Kind, c \in Call :
        db'[k][c] = IF k # "ingress" /\ row[c] = i THEN 0 ELSE db[k][c]
  BY <1>2, <1>3
<1>7. owed' = [k \in Kind |-> IF k \in PerAccount THEN {c \in owed[k] : row[c] # i} ELSE owed[k]]
  BY DEF DeleteAccount
<1>8. owed' \in [Kind -> SUBSET Call] BY <1>7 DEF TypeOK
<1>9. \A k \in Kind, c \in Call :
        c \in owed'[k] <=> c \in owed[k] /\ ~(k # "ingress" /\ row[c] = i)
  BY <1>3, <1>7
<1> QED BY <1>5, <1>6, <1>8, <1>9

\* What a restart leaves.
LEMMA LostEntries ==
  ASSUME TypeOK, Lose
  PROVE  /\ pending' \in Tally /\ batch' \in Tally /\ owed' \in [Kind -> SUBSET Call]
         /\ call' \in [Call -> {"new", "done"}]
         /\ \A c \in Call : call'[c] = "new" <=> call[c] = "new"
         /\ \A k \in Kind, c \in Call :
              /\ pending'[k][c] = 0 /\ batch'[k][c] = 0
              /\ c \in owed'[k] <=> c \in owed[k] /\ db[k][c] > 0
BY EmptyEntries DEF Lose, TypeOK
-----------------------------------------------------------------------------
\* Every step keeps the types.
LEMMA TypeStep == TypeOK /\ [Next]_vars => TypeOK'
<1> SUFFICES ASSUME TypeOK, [Next]_vars PROVE TypeOK'
  OBVIOUS
<1> USE LedgerConstants
<1> USE DEF TypeOK
<1>1. ASSUME NEW c \in Call, Serve(c) PROVE TypeOK'
  BY <1>1 DEF Serve, manager
<1>2. ASSUME NEW c \in Call, RecordRefusal(c) PROVE TypeOK'
  <2>1. Add({"refusals"}, c) BY <1>2 DEF RecordRefusal
  <2>2. pending' \in Tally /\ owed' \in [Kind -> SUBSET Call]
    BY <2>1, Added DEF Kind
  <2> QED BY <1>2, <2>2 DEF RecordRefusal
<1>3. ASSUME NEW c \in Call, Record(c) PROVE TypeOK'
  <2>1. PICK kinds \in {{"events"}, {"events", "usage", "ingress"}} : Add(kinds, c)
    BY <1>3 DEF Record
  <2>2. kinds \in SUBSET Kind BY DEF Kind
  <2>3. pending' \in Tally /\ owed' \in [Kind -> SUBSET Call]
    BY <2>1, <2>2, Added
  <2> QED BY <1>3, <2>3 DEF Record
<1>4. ASSUME NEW c \in Call, Abandon(c) PROVE TypeOK'
  BY <1>4 DEF Abandon, manager
<1>5. ASSUME Flush PROVE TypeOK'
  <2>1. batch' \in Tally /\ pending' \in Tally /\ flush' = "events"
    BY <1>5, DetachedEntries DEF Flush
  <2> QED BY <1>5, <2>1 DEF Flush, Detach, serving
<1>6. ASSUME FinalFlush PROVE TypeOK'
  <2>1. CASE Detach
    <3>1. batch' \in Tally /\ pending' \in Tally /\ flush' = "events"
      BY <2>1, DetachedEntries
    <3>2. phase' \in {"flushing", "breaking", "stopped", "failed"} BY <1>6 DEF FinalFlush
    <3> QED BY <2>1, <3>1, <3>2 DEF Detach, serving
  <2>2. CASE UNCHANGED <<account, db, failures, manager, serving, owed, cleared>>
    <3>1. phase' \in {"flushing", "breaking", "stopped", "failed"} BY <1>6 DEF FinalFlush
    <3> QED BY <2>2, <3>1 DEF manager, serving
  <2> QED BY <1>6, <2>1, <2>2 DEF FinalFlush
<1>7. ASSUME FinishClear PROVE TypeOK'
  <2>1. db' \in Tally /\ failures' \in 0..MaxFailures BY <1>7, ForgottenEntries DEF FinishClear
  <2>2. cleared' \in [Kind -> SUBSET Call] BY <1>7 DEF FinishClear, Finished
  <2> QED BY <1>7, <2>1, <2>2 DEF FinishClear, serving
<1>8. ASSUME NEW s \in Step, Written(s) PROVE TypeOK'
  <2>1. db' \in Tally BY <1>8, CommittedEntries DEF Written
  <2>2. batch' \in Tally /\ flush' \in {"idle", "buckets", "refusals"}
    BY <1>8, WrittenEntries DEF Step
  <2>3. flush' = "idle" => batch' = Empty BY <1>8 DEF Written, After
  <2>4. phase' \in {phase, "stopped", "failed"} BY <1>8 DEF Written, Return
  <2> QED BY <1>8, <2>1, <2>2, <2>3, <2>4 DEF Written, serving
<1>9. ASSUME NEW s \in Step, WriteFails(s) PROVE TypeOK'
  <2>1. Restored(s) \in SUBSET Kind BY DEF Restored, Kind
  <2>2. pending' \in Tally BY <1>9, <2>1, RestoredEntries DEF WriteFails
  <2>3. phase' \in {phase, "stopped", "failed"} BY <1>9 DEF WriteFails, Return
  <2>4. failures' \in 0..MaxFailures BY <1>9 DEF WriteFails
  <2> QED BY <1>9, <2>2, <2>3, <2>4, EmptyEntries DEF WriteFails, serving
<1>10. ASSUME NEW kinds \in {{"usage", "ingress"}, {"events"}}, StartClear(kinds) PROVE TypeOK'
  <2>1. pending' \in Tally BY <1>10, ForgottenEntries DEF StartClear
  <2>2. owed' \in [Kind -> SUBSET Call] BY <1>10 DEF StartClear
  <2> QED BY <1>10, <2>1, <2>2 DEF StartClear, serving
<1>11. ASSUME NEW i \in RowId, DeleteAccount(i) PROVE TypeOK'
  <2>1. db' \in Tally /\ owed' \in [Kind -> SUBSET Call] BY <1>11, DeletedEntries
  <2> QED BY <1>11, <2>1 DEF DeleteAccount, manager, serving
<1>12. ASSUME NEW u \in Identity, ImportAccount(u) PROVE TypeOK'
  BY <1>12 DEF ImportAccount, manager, serving
<1>13. ASSUME Interrupt \/ ListenFails \/ Drained \/ ShutdownTimesOut PROVE TypeOK'
  BY <1>13 DEF Interrupt, ListenFails, Drained, ShutdownTimesOut, manager, serving
<1>14. ASSUME Crash \/ Restart PROVE TypeOK'
  <2>1. Lose BY <1>14 DEF Crash, Restart
  <2>2. /\ pending' \in Tally /\ batch' \in Tally /\ owed' \in [Kind -> SUBSET Call]
        /\ call' \in [Call -> {"new", "done"}] /\ \A c \in Call : call'[c] = "new" <=> call[c] = "new"
    BY <2>1, LostEntries
  <2> QED BY <2>1, <2>2 DEF Lose
<1>15. ASSUME UNCHANGED vars PROVE TypeOK'
  BY <1>15 DEF vars, manager, serving
<1> QED
  BY <1>1, <1>2, <1>3, <1>4, <1>5, <1>6, <1>7, <1>8, <1>9, <1>10, <1>11, <1>12, <1>13, <1>14, <1>15
     DEF Next, Handle, Work, Console, Stop

\* What a recording call changes.
Records(kinds, c) ==
  /\ \A k \in Kind, d \in Call :
       pending'[k][d] = IF k \in kinds /\ d = c THEN pending[k][d] + 1 ELSE pending[k][d]
  /\ \A k \in Kind :
       owed'[k] = IF k \in kinds /\ ~Missing(c) THEN owed[k] \cup {c} ELSE owed[k]
  /\ call' = [call EXCEPT ![c] = IF "refusals" \in kinds THEN "refused" ELSE "done"]
  /\ call[c] = "open" \/ (call[c] = "refused" /\ "refusals" \notin kinds)
  /\ UNCHANGED <<db, batch, flush, clearing, phase, cleared>>
Sorts == {{"refusals"}, {"events"}, {"events", "usage", "ingress"}}

\* Both recording steps add one call to the ledgers of one sort of answer.
LEMMA RecordedEntries ==
  ASSUME TypeOK, NEW c \in Call, RecordRefusal(c) \/ Record(c)
  PROVE  \E kinds \in Sorts : Records(kinds, c)
<1>1. PICK kinds \in Sorts :
        /\ Add(kinds, c)
        /\ call' = [call EXCEPT ![c] = IF "refusals" \in kinds THEN "refused" ELSE "done"]
        /\ call[c] = "open" \/ (call[c] = "refused" /\ "refusals" \notin kinds)
        /\ UNCHANGED <<db, batch, flush, clearing, phase, cleared>>
  <2>1. CASE RecordRefusal(c)
    <3>1. Add({"refusals"}, c) BY <2>1 DEF RecordRefusal
    <3> QED BY <2>1, <3>1 DEF RecordRefusal, Sorts
  <2>2. CASE Record(c)
    <3>1. PICK kinds \in {{"events"}, {"events", "usage", "ingress"}} : Add(kinds, c)
      BY <2>2 DEF Record
    <3> QED BY <2>2, <3>1 DEF Record, Sorts
  <2> QED BY <2>1, <2>2
<1>2. kinds \in SUBSET Kind BY DEF Kind, Sorts
<1>3. /\ \A k \in Kind, d \in Call :
           pending'[k][d] = IF k \in kinds /\ d = c THEN pending[k][d] + 1 ELSE pending[k][d]
      /\ \A k \in Kind :
           owed'[k] = IF k \in kinds /\ ~Missing(c) THEN owed[k] \cup {c} ELSE owed[k]
  <2>1. Add(kinds, c) BY <1>1
  <2>2. \A k \in Kind, d \in Call :
          pending'[k][d] = IF k \in kinds /\ d = c THEN pending[k][d] + 1 ELSE pending[k][d]
    BY <1>2, <2>1, Added
  <2>3. \A k \in Kind :
          owed'[k] = IF k \in kinds /\ ~Missing(c) THEN owed[k] \cup {c} ELSE owed[k]
    BY <1>2, <2>1, Added
  <2> QED BY <2>2, <2>3
<1>4. Records(kinds, c) BY <1>1, <1>3 DEF Records
<1> QED BY <1>4

\* What a failed transaction changes.
LEMMA FailedEntries ==
  ASSUME TypeOK, Detached, NEW s \in Step, WriteFails(s)
  PROVE  /\ flush' = "idle" /\ UNCHANGED <<db, clearing, call, row, owed, cleared, account>>
         /\ \A k \in Kind, c \in Call :
              pending'[k][c] = pending[k][c] + batch[k][c] /\ batch'[k][c] = 0
<1>1. Restored(s) \in SUBSET Kind BY DEF Restored, Kind
<1>2. \A k \in Kind, c \in Call :
        pending'[k][c] = IF k \in Restored(s) THEN pending[k][c] + batch[k][c] ELSE pending[k][c]
  BY <1>1, RestoredEntries DEF WriteFails
<1>3. \A k \in Kind, c \in Call : k \notin Restored(s) => batch[k][c] = 0
  <2>1. CASE s = "refusals"
    <3>1. flush = "refusals" /\ Restored(s) = {"refusals"} BY <2>1 DEF WriteFails, Restored
    <3> QED BY <3>1 DEF Detached
  <2>2. CASE s # "refusals" BY <2>2 DEF Restored
  <2> QED BY <2>1, <2>2
<1>4. \A k \in Kind, c \in Call : pending'[k][c] = pending[k][c] + batch[k][c]
  <2> TAKE k \in Kind, c \in Call
  <2>1. pending[k][c] \in Nat /\ batch[k][c] \in Nat BY EntryTypes
  <2> QED BY <1>2, <1>3, <2>1
<1> QED BY <1>4, EmptyEntries DEF WriteFails, serving

\* A flush and a clear exclude one another.
LEMMA DetachedStep == TypeOK /\ Detached /\ [Next]_vars => Detached'
<1> SUFFICES ASSUME TypeOK, Detached, [Next]_vars PROVE Detached'
  OBVIOUS
<1> USE LedgerConstants
<1> USE DEF Detached
<1>1. ASSUME NEW c \in Call, Serve(c) PROVE Detached'
  BY <1>1 DEF Serve, manager
<1>2. ASSUME NEW c \in Call, RecordRefusal(c) PROVE Detached'
  BY <1>2 DEF RecordRefusal
<1>3. ASSUME NEW c \in Call, Record(c) PROVE Detached'
  BY <1>3 DEF Record
<1>4. ASSUME NEW c \in Call, Abandon(c) PROVE Detached'
  BY <1>4 DEF Abandon, manager
<1>5. ASSUME Flush PROVE Detached'
  BY <1>5 DEF Flush, Detach, FlushMuFree
<1>6. ASSUME FinalFlush PROVE Detached'
  BY <1>6 DEF FinalFlush, Detach, FlushMuFree, manager
<1>7. ASSUME FinishClear PROVE Detached'
  BY <1>7 DEF FinishClear, serving
<1>8. ASSUME NEW s \in Step, Written(s) PROVE Detached'
  <2>1. clearing = {} /\ clearing' = {} BY <1>8 DEF Written, Step
  <2>2. flush' = "refusals" => s = "buckets" BY <1>8, WrittenEntries DEF Step
  <2>3. s = "buckets" => \A k \in Kind \ {"refusals"}, c \in Call : batch'[k][c] = 0
    BY <1>8, WrittenEntries
  <2> QED BY <2>1, <2>2, <2>3
<1>9. ASSUME NEW s \in Step, WriteFails(s) PROVE Detached'
  BY <1>9 DEF WriteFails
<1>10. ASSUME NEW kinds \in {{"usage", "ingress"}, {"events"}}, StartClear(kinds) PROVE Detached'
  BY <1>10 DEF StartClear, FlushMuFree
<1>11. ASSUME NEW i \in RowId, DeleteAccount(i) PROVE Detached'
  BY <1>11 DEF DeleteAccount, manager
<1>12. ASSUME NEW u \in Identity, ImportAccount(u) PROVE Detached'
  BY <1>12 DEF ImportAccount, manager, serving
<1>13. ASSUME Interrupt \/ ListenFails \/ Drained \/ ShutdownTimesOut PROVE Detached'
  BY <1>13 DEF Interrupt, ListenFails, Drained, ShutdownTimesOut, manager, serving
<1>14. ASSUME Crash \/ Restart PROVE Detached'
  BY <1>14 DEF Crash, Restart, Lose
<1>15. ASSUME UNCHANGED vars PROVE Detached'
  BY <1>15 DEF vars, manager, serving
<1> QED
  BY <1>1, <1>2, <1>3, <1>4, <1>5, <1>6, <1>7, <1>8, <1>9, <1>10, <1>11, <1>12, <1>13, <1>14, <1>15
     DEF Next, Handle, Work, Console, Stop

\* A step that leaves the ledgers alone.
LEMMA SameEntries ==
  ASSUME TypeOK, Entries, UNCHANGED <<pending, batch, db, flush, clearing, owed, cleared>>,
         \A d \in Call :
           call'[d] = call[d] \/ (call[d] = "new" /\ call'[d] = "open") \/ call'[d] = "done"
  PROVE  Entries'
BY DEF Entries, Entry, Unrecorded, Queued

\* Detaching only moves entries.
LEMMA DetachKeepsEntries == ASSUME TypeOK, Entries, Detach PROVE Entries'
<1> SUFFICES ASSUME NEW k \in Kind, NEW d \in Call PROVE Entry(k, d)'
  BY DEF Entries
<1>1. pending[k][d] \in Nat /\ batch[k][d] \in Nat /\ db[k][d] \in Nat /\ Entry(k, d)
  BY EntryTypes DEF Entries
<1>2. batch'[k][d] = pending[k][d] /\ pending'[k][d] = 0 /\ batch[k][d] = 0
  BY DetachedEntries
<1>3. UNCHANGED <<db, owed, cleared, clearing, call>> /\ clearing = {} /\ flush' = "events"
  BY DEF Detach, serving, FlushMuFree
<1> QED BY <1>1, <1>2, <1>3 DEF Entry, Queued, Unrecorded

\* No step of anyone adds an entry twice or drops one.
LEMMA EntriesStep == TypeOK /\ Detached /\ Entries /\ [Next]_vars => Entries'
<1> SUFFICES ASSUME TypeOK, Detached, Entries, [Next]_vars PROVE Entries'
  OBVIOUS
<1> USE DEF Kind
<1>1. ASSUME NEW c \in Call, Serve(c) PROVE Entries'
  <2>1. /\ UNCHANGED <<pending, batch, db, flush, clearing, owed, cleared>>
        /\ \A d \in Call : call'[d] = call[d] \/ (call[d] = "new" /\ call'[d] = "open") \/ call'[d] = "done"
    BY <1>1 DEF Serve, manager, TypeOK
  <2> QED BY <2>1, SameEntries
<1>2. ASSUME NEW c \in Call, RecordRefusal(c) PROVE Entries'
  <2> SUFFICES ASSUME NEW k \in Kind, NEW d \in Call PROVE Entry(k, d)'
    BY DEF Entries
  <2>0. /\ pending[k][d] \in Nat /\ batch[k][d] \in Nat /\ db[k][d] \in Nat
        /\ Entry(k, d)
    BY EntryTypes DEF Entries
  <2>1. PICK kinds \in Sorts : Records(kinds, c) BY <1>2, RecordedEntries
  <2>2. d # c => call'[d] = call[d] BY <2>1 DEF Records
  <2>3. /\ call'[c] = IF "refusals" \in kinds THEN "refused" ELSE "done"
        /\ "refusals" \in kinds => kinds = {"refusals"}
    BY <2>1 DEF TypeOK, Records, Sorts
  <2>4. CASE d # c BY <2>0, <2>1, <2>2, <2>4 DEF Entry, Queued, Unrecorded, Records
  <2>5. CASE d = c /\ k \in kinds
    <3>1. Unrecorded(k, d) BY <2>1, <2>3, <2>5 DEF Records, Unrecorded
    <3>2. /\ pending[k][d] = 0 /\ batch[k][d] = 0 /\ db[k][d] = 0
          /\ d \notin owed[k] /\ d \notin cleared[k]
      BY <2>0, <3>1 DEF Entry, Queued
    <3>3. pending'[k][d] = 1 /\ batch'[k][d] = 0 /\ db'[k][d] = 0 /\ d \notin cleared'[k]
      BY <2>1, <2>5, <3>2 DEF Records
    <3>4. ~Unrecorded(k, d)' BY <2>3, <2>5 DEF Unrecorded
    <3> QED BY <3>3, <3>4 DEF Entry, Queued
  <2>6. CASE d = c /\ k \notin kinds BY <2>0, <2>1, <2>3, <2>6 DEF Entry, Queued, Unrecorded, Records
  <2> QED BY <2>0, <2>4, <2>5, <2>6 DEF Entry, Queued, Unrecorded
<1>3. ASSUME NEW c \in Call, Record(c) PROVE Entries'
  <2> SUFFICES ASSUME NEW k \in Kind, NEW d \in Call PROVE Entry(k, d)'
    BY DEF Entries
  <2>0. /\ pending[k][d] \in Nat /\ batch[k][d] \in Nat /\ db[k][d] \in Nat
        /\ Entry(k, d)
    BY EntryTypes DEF Entries
  <2>1. PICK kinds \in Sorts : Records(kinds, c) BY <1>3, RecordedEntries
  <2>2. d # c => call'[d] = call[d] BY <2>1 DEF Records
  <2>3. /\ call'[c] = IF "refusals" \in kinds THEN "refused" ELSE "done"
        /\ "refusals" \in kinds => kinds = {"refusals"}
    BY <2>1 DEF TypeOK, Records, Sorts
  <2>4. CASE d # c BY <2>0, <2>1, <2>2, <2>4 DEF Entry, Queued, Unrecorded, Records
  <2>5. CASE d = c /\ k \in kinds
    <3>1. Unrecorded(k, d) BY <2>1, <2>3, <2>5 DEF Records, Unrecorded
    <3>2. /\ pending[k][d] = 0 /\ batch[k][d] = 0 /\ db[k][d] = 0
          /\ d \notin owed[k] /\ d \notin cleared[k]
      BY <2>0, <3>1 DEF Entry, Queued
    <3>3. pending'[k][d] = 1 /\ batch'[k][d] = 0 /\ db'[k][d] = 0 /\ d \notin cleared'[k]
      BY <2>1, <2>5, <3>2 DEF Records
    <3>4. ~Unrecorded(k, d)' BY <2>3, <2>5 DEF Unrecorded
    <3> QED BY <3>3, <3>4 DEF Entry, Queued
  <2>6. CASE d = c /\ k \notin kinds BY <2>0, <2>1, <2>3, <2>6 DEF Entry, Queued, Unrecorded, Records
  <2> QED BY <2>0, <2>4, <2>5, <2>6 DEF Entry, Queued, Unrecorded
<1>4. ASSUME NEW c \in Call, Abandon(c) PROVE Entries'
  <2>1. /\ UNCHANGED <<pending, batch, db, flush, clearing, owed, cleared>>
        /\ \A d \in Call : call'[d] = call[d] \/ (call[d] = "new" /\ call'[d] = "open") \/ call'[d] = "done"
    BY <1>4 DEF Abandon, manager, TypeOK
  <2> QED BY <2>1, SameEntries
<1>5. ASSUME Flush PROVE Entries'
  BY <1>5, DetachKeepsEntries DEF Flush
<1>6. ASSUME FinalFlush PROVE Entries'
  <2>1. CASE Detach BY <2>1, DetachKeepsEntries
  <2>2. CASE UNCHANGED <<account, db, failures, manager, serving, owed, cleared>>
    BY <2>2, SameEntries DEF manager, serving
  <2> QED BY <1>6, <2>1, <2>2 DEF FinalFlush
<1>7. ASSUME FinishClear PROVE Entries'
  <2> SUFFICES ASSUME NEW k \in Kind, NEW d \in Call PROVE Entry(k, d)'
    BY DEF Entries
  <2>0. /\ pending[k][d] \in Nat /\ batch[k][d] \in Nat /\ db[k][d] \in Nat
        /\ Entry(k, d)
    BY EntryTypes DEF Entries
  <2>1. UNCHANGED <<pending, batch, flush, owed, call>> /\ clearing' = {} BY <1>7 DEF FinishClear, serving
  <2>2. batch[k][d] = 0
    <3>1. flush = "idle" BY <1>7 DEF FinishClear, Detached
    <3> QED BY <3>1, EmptyEntries DEF TypeOK
  <2>3. CASE UNCHANGED <<db, cleared>> BY <2>0, <2>1, <2>3 DEF Entry, Queued, Unrecorded
  <2>4. CASE ~UNCHANGED <<db, cleared>>
    <3>1. /\ db' = Forget(db, clearing)
          /\ cleared'[k] = cleared[k] \cup
               (IF k \in clearing THEN {c \in Finished : pending[k][c] = 0} ELSE {})
      BY <1>7, <2>4 DEF FinishClear
    <3>2. db'[k][d] = IF k \in clearing THEN 0 ELSE db[k][d] BY <3>1, ForgottenEntries DEF TypeOK
    <3>3. clearing' = {} BY <1>7 DEF FinishClear
    <3>4. d \in Finished <=> call[d] = "done" BY DEF Finished
    <3> QED BY <2>0, <2>1, <2>2, <3>1, <3>2, <3>3, <3>4 DEF Entry, Queued, Unrecorded
  <2> QED BY <2>0, <2>3, <2>4 DEF Entry, Queued, Unrecorded
<1>8. ASSUME NEW s \in Step, Written(s) PROVE Entries'
  <2> SUFFICES ASSUME NEW k \in Kind, NEW d \in Call PROVE Entry(k, d)'
    BY DEF Entries
  <2>0. /\ pending[k][d] \in Nat /\ batch[k][d] \in Nat /\ db[k][d] \in Nat
        /\ Entry(k, d)
    BY EntryTypes DEF Entries
  <2>1. UNCHANGED <<pending, owed, cleared, clearing, call>> BY <1>8 DEF Written, serving
  <2>2. db'[k][d] = IF k \notin Writes(s) THEN db[k][d]
                    ELSE IF k # "events" THEN db[k][d] + batch[k][d]
                    ELSE IF db[k][d] + batch[k][d] > 0 THEN 1 ELSE 0
    BY <1>8, CommittedEntries DEF Written
  <2>3. batch'[k][d] = IF s = "events" \/ (s = "buckets" /\ k = "refusals") THEN batch[k][d] ELSE 0
    BY <1>8, WrittenEntries
  <2>4. clearing = {} BY <1>8 DEF Written, Detached, Step
  <2>5. s = "refusals" /\ k # "refusals" => batch[k][d] = 0 BY <1>8 DEF Written, Detached
  <2>6. k \in Writes(s) <=> \/ s = "events" /\ k = "events"
                            \/ s = "buckets" /\ k \in {"usage", "ingress"}
                            \/ s = "refusals" /\ k = "refusals"
    BY DEF Writes, Step
  <2>9. flush = s /\ flush' = CASE s = "events" -> "buckets" [] s = "buckets" -> "refusals" [] OTHER -> "idle"
    BY <1>8, WrittenEntries DEF Written
  <2>7. CASE k = "events"
    <3>1. CASE s = "events"
      <4>1. /\ flush' = "buckets" /\ batch'[k][d] = batch[k][d]
            /\ db'[k][d] = IF db[k][d] + batch[k][d] > 0 THEN 1 ELSE 0
        BY <2>2, <2>3, <2>6, <2>7, <2>9, <3>1
      <4>2. CASE batch[k][d] = 0 /\ db[k][d] = 0
        BY <2>0, <2>1, <2>4, <2>7, <4>1, <4>2 DEF Entry, Queued, Unrecorded
      <4>3. CASE batch[k][d] + db[k][d] > 0
        <5>1. d \notin cleared[k] /\ ~Unrecorded(k, d) BY <2>0, <4>3 DEF Entry, Queued
        <5>2. db'[k][d] = 1
          <6>1. db[k][d] + batch[k][d] > 0 BY <2>0, <4>3
          <6> QED BY <4>1, <6>1
        <5> QED BY <2>0, <2>1, <2>4, <2>7, <4>1, <5>1, <5>2 DEF Entry, Queued, Unrecorded
      <4> QED BY <2>0, <4>2, <4>3
    <3>2. CASE s # "events"
      <4>1. flush # "events" /\ batch'[k][d] = 0 /\ db'[k][d] = db[k][d]
        BY <2>2, <2>3, <2>6, <2>7, <2>9, <3>2
      <4> QED BY <2>0, <2>1, <2>4, <2>7, <4>1 DEF Entry, Queued, Unrecorded
    <3> QED BY <3>1, <3>2
  <2>8. CASE k # "events" BY <2>0, <2>1, <2>2, <2>3, <2>4, <2>5, <2>6, <2>8, <2>9 DEF Entry, Queued, Unrecorded, Step
  <2> QED BY <2>0, <2>7, <2>8 DEF Entry, Queued, Unrecorded
<1>9. ASSUME NEW s \in Step, WriteFails(s) PROVE Entries'
  <2> SUFFICES ASSUME NEW k \in Kind, NEW d \in Call PROVE Entry(k, d)'
    BY DEF Entries
  <2>0. /\ pending[k][d] \in Nat /\ batch[k][d] \in Nat /\ db[k][d] \in Nat
        /\ Entry(k, d)
    BY EntryTypes DEF Entries
  <2>1. UNCHANGED <<db, clearing, owed, cleared, call>> /\ flush' = "idle" BY <1>9, FailedEntries
  <2>2. pending'[k][d] = pending[k][d] + batch[k][d] /\ batch'[k][d] = 0 BY <1>9, FailedEntries
  <2> QED BY <2>0, <2>1, <2>2 DEF Entry, Queued, Unrecorded
<1>10. ASSUME NEW kinds \in {{"usage", "ingress"}, {"events"}}, StartClear(kinds) PROVE Entries'
  <2> SUFFICES ASSUME NEW k \in Kind, NEW d \in Call PROVE Entry(k, d)'
    BY DEF Entries
  <2>0. /\ pending[k][d] \in Nat /\ batch[k][d] \in Nat /\ db[k][d] \in Nat
        /\ Entry(k, d)
    BY EntryTypes DEF Entries
  <2>1. UNCHANGED <<db, batch, flush, cleared, call>> /\ clearing' = kinds BY <1>10 DEF StartClear, serving
  <2>2. pending'[k][d] = IF k \in kinds THEN 0 ELSE pending[k][d]
    BY <1>10, ForgottenEntries DEF StartClear, TypeOK
  <2>3. owed'[k] = IF k \in kinds THEN {} ELSE owed[k] BY <1>10 DEF StartClear
  <2> QED BY <2>0, <2>1, <2>2, <2>3 DEF Entry, Queued, Unrecorded
<1>11. ASSUME NEW i \in RowId, DeleteAccount(i) PROVE Entries'
  <2> SUFFICES ASSUME NEW k \in Kind, NEW d \in Call PROVE Entry(k, d)'
    BY DEF Entries
  <2>0. /\ pending[k][d] \in Nat /\ batch[k][d] \in Nat /\ db[k][d] \in Nat
        /\ Entry(k, d)
    BY EntryTypes DEF Entries
  <2>1. UNCHANGED <<pending, batch, cleared, flush, clearing, call>> BY <1>11 DEF DeleteAccount, manager, serving
  <2>2. /\ db'[k][d] = IF k # "ingress" /\ row[d] = i THEN 0 ELSE db[k][d]
        /\ d \in owed'[k] <=> d \in owed[k] /\ ~(k # "ingress" /\ row[d] = i)
    BY <1>11, DeletedEntries
  <2> QED BY <2>0, <2>1, <2>2 DEF Entry, Queued, Unrecorded
<1>12. ASSUME NEW u \in Identity, ImportAccount(u) PROVE Entries'
  <2>1. /\ UNCHANGED <<pending, batch, db, flush, clearing, owed, cleared>>
        /\ \A d \in Call : call'[d] = call[d] \/ (call[d] = "new" /\ call'[d] = "open") \/ call'[d] = "done"
    BY <1>12 DEF ImportAccount, manager, serving
  <2> QED BY <2>1, SameEntries
<1>13. ASSUME Interrupt \/ ListenFails \/ Drained \/ ShutdownTimesOut PROVE Entries'
  <2>1. /\ UNCHANGED <<pending, batch, db, flush, clearing, owed, cleared>>
        /\ \A d \in Call : call'[d] = call[d] \/ (call[d] = "new" /\ call'[d] = "open") \/ call'[d] = "done"
    BY <1>13 DEF Interrupt, ListenFails, Drained, ShutdownTimesOut, manager, serving
  <2> QED BY <2>1, SameEntries
<1>14. ASSUME Crash \/ Restart PROVE Entries'
  <2> SUFFICES ASSUME NEW k \in Kind, NEW d \in Call PROVE Entry(k, d)'
    BY DEF Entries
  <2>0. /\ pending[k][d] \in Nat /\ batch[k][d] \in Nat /\ db[k][d] \in Nat
        /\ Entry(k, d)
    BY EntryTypes DEF Entries
  <2>1. /\ pending'[k][d] = 0 /\ batch'[k][d] = 0
        /\ d \in owed'[k] <=> d \in owed[k] /\ db[k][d] > 0
        /\ call'[d] = "new" <=> call[d] = "new"
        /\ call'[d] \in {"new", "done"}
    BY <1>14, LostEntries DEF Crash, Restart
  <2>2. UNCHANGED <<db, cleared>> /\ clearing' = {} BY <1>14 DEF Crash, Restart, Lose
  <2>3. d \in cleared'[k] => db[k][d] = 0 /\ call'[d] = "done"
    <3> SUFFICES ASSUME d \in cleared[k] PROVE db[k][d] = 0 /\ call'[d] = "done"
      BY <2>2
    <3>1. pending[k][d] + batch[k][d] + db[k][d] = 0 /\ call[d] = "done" BY <2>0 DEF Entry, Queued
    <3>2. db[k][d] = 0 BY <2>0, <3>1
    <3>3. call'[d] # "new" BY <2>1, <3>1
    <3> QED BY <2>1, <3>2, <3>3
  <2>4. Unrecorded(k, d)' => db[k][d] = 0 /\ d \notin owed'[k] /\ d \notin cleared'[k]
    BY <2>0, <2>1, <2>2 DEF Entry, Queued, Unrecorded
  <2>5. db'[k][d] = db[k][d] /\ db[k][d] <= 1 BY <2>0, <2>2 DEF Entry
  <2> QED BY <2>0, <2>1, <2>2, <2>3, <2>4, <2>5 DEF Entry, Queued
<1>15. ASSUME UNCHANGED vars PROVE Entries'
  <2>1. /\ UNCHANGED <<pending, batch, db, flush, clearing, owed, cleared>>
        /\ \A d \in Call : call'[d] = call[d] \/ (call[d] = "new" /\ call'[d] = "open") \/ call'[d] = "done"
    BY <1>15 DEF vars, manager, serving
  <2> QED BY <2>1, SameEntries
<1> QED
  BY <1>1, <1>2, <1>3, <1>4, <1>5, <1>6, <1>7, <1>8, <1>9, <1>10, <1>11, <1>12, <1>13, <1>14, <1>15
     DEF Next, Handle, Work, Console, Stop
-----------------------------------------------------------------------------
\* No step separates a call's two totals.
LEMMA PairsStep == TypeOK /\ Detached /\ Entries /\ Pairs /\ [Next]_vars => Pairs'
<1> SUFFICES ASSUME TypeOK, Detached, Entries, Pairs, [Next]_vars, NEW d \in Call PROVE Pair(d)'
  BY DEF Pairs
<1>0. /\ Pair(d) /\ Entry("usage", d) /\ Entry("ingress", d)
      /\ "usage" \in Kind /\ "ingress" \in Kind
      /\ pending["usage"][d] \in Nat /\ batch["usage"][d] \in Nat /\ db["usage"][d] \in Nat
      /\ pending["ingress"][d] \in Nat /\ batch["ingress"][d] \in Nat /\ db["ingress"][d] \in Nat
  <2>1. "usage" \in Kind /\ "ingress" \in Kind BY DEF Kind
  <2> QED BY <2>1, EntryTypes DEF Pairs, Entries
<1>1. ASSUME NEW c \in Call, Serve(c) \/ Abandon(c) PROVE Pair(d)'
  BY <1>0, <1>1 DEF Serve, Abandon, manager, Pair
<1>2. ASSUME NEW c \in Call, RecordRefusal(c) \/ Record(c) PROVE Pair(d)'
  <2>1. PICK kinds \in Sorts : Records(kinds, c) BY <1>2, RecordedEntries
  <2>2. "usage" \in kinds <=> "ingress" \in kinds BY DEF Sorts
  <2>3. CASE d = c /\ "usage" \in kinds
    <3>1. Unrecorded("usage", d) /\ Unrecorded("ingress", d)
      BY <2>1, <2>3 DEF Records, Unrecorded, Sorts
    <3>2. /\ pending["usage"][d] = 0 /\ batch["usage"][d] = 0 /\ db["usage"][d] = 0
          /\ pending["ingress"][d] = 0 /\ batch["ingress"][d] = 0 /\ db["ingress"][d] = 0
      <4>1. ASSUME NEW k \in Kind, Unrecorded(k, d)
            PROVE  pending[k][d] = 0 /\ batch[k][d] = 0 /\ db[k][d] = 0
        <5>1. pending[k][d] \in Nat /\ batch[k][d] \in Nat /\ db[k][d] \in Nat /\ Entry(k, d)
          BY EntryTypes DEF Entries
        <5> QED BY <4>1, <5>1 DEF Entry, Queued
      <4> QED BY <1>0, <3>1, <4>1
    <3>3. /\ pending'["usage"][d] = 1 /\ pending'["ingress"][d] = 1
          /\ batch' = batch /\ db' = db
      BY <1>0, <2>1, <2>2, <2>3, <3>2 DEF Records
    <3> QED BY <3>2, <3>3 DEF Pair
  <2>4. CASE ~(d = c /\ "usage" \in kinds)
    BY <1>0, <2>1, <2>2, <2>4 DEF Pair, Records
  <2> QED BY <2>3, <2>4
<1>3. ASSUME Flush \/ FinalFlush PROVE Pair(d)'
  <2>1. CASE Detach
    <3>1. UNCHANGED <<db, owed>> BY <2>1 DEF Detach
    <3> QED BY <1>0, <2>1, <3>1, DetachedEntries DEF Pair
  <2>2. CASE ~Detach BY <1>0, <1>3, <2>2 DEF Flush, FinalFlush, manager, Pair
  <2> QED BY <2>1, <2>2
<1>4. ASSUME FinishClear PROVE Pair(d)'
  <2>1. UNCHANGED <<pending, batch, owed>> BY <1>4 DEF FinishClear
  <2>2. "usage" \in clearing <=> "ingress" \in clearing BY DEF TypeOK
  <2>3. CASE db' = Forget(db, clearing)
    <3>1. \A k \in Kind : db'[k][d] = IF k \in clearing THEN 0 ELSE db[k][d]
      BY <2>3, ForgottenEntries DEF TypeOK
    <3> QED BY <1>0, <2>1, <2>2, <3>1 DEF Pair
  <2>4. CASE db' = db BY <1>0, <2>1, <2>4 DEF Pair
  <2> QED BY <1>4, <2>3, <2>4 DEF FinishClear
<1>5. ASSUME NEW s \in Step, Written(s) PROVE Pair(d)'
  <2>1. UNCHANGED <<pending, owed>> BY <1>5 DEF Written
  <2>2. \A k \in Kind :
          db'[k][d] = IF k \notin Writes(s) THEN db[k][d]
                      ELSE IF k # "events" THEN db[k][d] + batch[k][d]
                      ELSE IF db[k][d] + batch[k][d] > 0 THEN 1 ELSE 0
    BY <1>5, CommittedEntries DEF Written
  <2>3. \A k \in Kind :
          batch'[k][d] = IF s = "events" \/ (s = "buckets" /\ k = "refusals") THEN batch[k][d] ELSE 0
    BY <1>5, WrittenEntries
  <2>4. "usage" \in Writes(s) <=> "ingress" \in Writes(s) BY DEF Writes, Step
  <2> QED BY <1>0, <2>1, <2>2, <2>3, <2>4 DEF Pair
<1>6. ASSUME NEW s \in Step, WriteFails(s) PROVE Pair(d)'
  <2>1. /\ UNCHANGED <<db, owed>>
        /\ \A k \in Kind : pending'[k][d] = pending[k][d] + batch[k][d] /\ batch'[k][d] = 0
    BY <1>6, FailedEntries
  <2> QED BY <1>0, <2>1 DEF Pair
<1>7. ASSUME NEW kinds \in {{"usage", "ingress"}, {"events"}}, StartClear(kinds) PROVE Pair(d)'
  <2>1. UNCHANGED <<db, batch>> BY <1>7 DEF StartClear
  <2>2. \A k \in Kind : /\ pending'[k][d] = IF k \in kinds THEN 0 ELSE pending[k][d]
                        /\ owed'[k] = IF k \in kinds THEN {} ELSE owed[k]
    BY <1>7, ForgottenEntries DEF StartClear, TypeOK
  <2>3. "usage" \in kinds <=> "ingress" \in kinds OBVIOUS
  <2> QED BY <1>0, <2>1, <2>2, <2>3 DEF Pair
<1>8. ASSUME NEW i \in RowId, DeleteAccount(i) PROVE Pair(d)'
  <2>1. UNCHANGED <<pending, batch>> BY <1>8 DEF DeleteAccount, manager
  <2>2. \A k \in Kind :
          /\ db'[k][d] = IF k # "ingress" /\ row[d] = i THEN 0 ELSE db[k][d]
          /\ d \in owed'[k] <=> d \in owed[k] /\ ~(k # "ingress" /\ row[d] = i)
    BY <1>8, DeletedEntries
  <2> QED BY <1>0, <2>1, <2>2 DEF Pair
<1>9. ASSUME NEW u \in Identity, ImportAccount(u) PROVE Pair(d)'
  BY <1>0, <1>9 DEF ImportAccount, manager, Pair
<1>10. ASSUME Interrupt \/ ListenFails \/ Drained \/ ShutdownTimesOut PROVE Pair(d)'
  BY <1>0, <1>10 DEF Interrupt, ListenFails, Drained, ShutdownTimesOut, manager, Pair
<1>11. ASSUME Crash \/ Restart PROVE Pair(d)'
  <2>1. /\ db' = db
        /\ \A k \in Kind : /\ pending'[k][d] = 0 /\ batch'[k][d] = 0
                           /\ d \in owed'[k] => d \in owed[k]
    BY <1>11, LostEntries DEF Crash, Restart, Lose
  <2> QED BY <1>0, <2>1 DEF Pair
<1>12. ASSUME UNCHANGED vars PROVE Pair(d)'
  BY <1>0, <1>12 DEF vars, manager, Pair
<1> QED
  BY <1>1, <1>2, <1>3, <1>4, <1>5, <1>6, <1>7, <1>8, <1>9, <1>10, <1>11, <1>12
     DEF Next, Handle, Work, Console, Stop
-----------------------------------------------------------------------------
\* Once the handlers returned, the last flush finds all there is.
LEMMA StoppingStep == TypeOK /\ Stopping /\ [Next]_vars => Stopping'
<1> SUFFICES ASSUME TypeOK, Stopping, [Next]_vars PROVE Stopping'
  OBVIOUS
<1> USE DEF Stopping
<1>1. ASSUME NEW c \in Call, Serve(c) PROVE Stopping'
  BY <1>1 DEF Serve
<1>2. ASSUME NEW c \in Call, Handle(c) PROVE Stopping'
  BY <1>2 DEF Handle, RecordRefusal, Record, Abandon, Alive
<1>3. ASSUME Flush PROVE Stopping'
  BY <1>3 DEF Flush, Detach, serving
<1>4. ASSUME FinalFlush PROVE Stopping'
  BY <1>4 DEF FinalFlush, Detach, FlushMuFree, serving, manager
<1>5. ASSUME FinishClear PROVE Stopping'
  BY <1>5 DEF FinishClear, Alive
<1>6. ASSUME NEW s \in Step, Written(s) PROVE Stopping'
  <2>1. UNCHANGED <<pending, clearing, call>> /\ flush = s BY <1>6 DEF Written, serving
  <2>2. s # "refusals" => phase' = phase /\ flush' # "idle" BY <1>6 DEF Written, After
  <2>3. s = "refusals" => flush' = "idle" /\ Return("stopped") BY <1>6 DEF Written
  <2>4. phase' = phase \/ (phase = "flushing" /\ phase' = "stopped")
        \/ (phase = "breaking" /\ phase' = "failed")
    BY <2>2, <2>3 DEF Return
  <2>5. phase # "stopped" BY <2>1 DEF Step
  <2>6. phase' = "flushing" => s # "refusals" BY <2>3 DEF Return
  <2>7. phase' = "stopped" => s = "refusals" BY <2>2, <2>5
  <2> QED BY <2>1, <2>2, <2>3, <2>4, <2>5, <2>6, <2>7
<1>7. ASSUME NEW s \in Step, WriteFails(s) PROVE Stopping'
  <2>1. UNCHANGED <<clearing, call>> /\ flush = s /\ Return("failed") BY <1>7 DEF WriteFails, serving
  <2>2. phase # "stopped" BY <2>1 DEF Step
  <2>3. (phase' = phase /\ phase # "flushing") \/ phase' = "failed" BY <2>1 DEF Return
  <2> QED BY <2>1, <2>2, <2>3
<1>8. ASSUME Console PROVE Stopping'
  BY <1>8 DEF Console, StartClear, DeleteAccount, ImportAccount, Handling, manager, serving
<1>9. ASSUME Interrupt \/ ListenFails \/ Drained \/ ShutdownTimesOut PROVE Stopping'
  BY <1>9 DEF Interrupt, ListenFails, Drained, ShutdownTimesOut, manager, serving
<1>10. ASSUME Crash \/ Restart PROVE Stopping'
  BY <1>10 DEF Crash, Restart, Lose
<1>11. ASSUME UNCHANGED vars PROVE Stopping'
  BY <1>11 DEF vars, manager, serving
<1> QED
  BY <1>1, <1>2, <1>3, <1>4, <1>5, <1>6, <1>7, <1>8, <1>9, <1>10, <1>11
     DEF Next, Work, Stop
-----------------------------------------------------------------------------
\* Nothing is recorded at the start.
LEMMA InitIInv == Init => IInv
<1> SUFFICES ASSUME Init PROVE IInv
  OBVIOUS
<1>1. TypeOK BY EmptyEntries, LedgerConstants DEF Init, TypeOK
<1>2. Entries
  <2> SUFFICES ASSUME NEW k \in Kind, NEW c \in Call PROVE Entry(k, c)
    BY DEF Entries
  <2>1. /\ pending[k][c] = 0 /\ batch[k][c] = 0 /\ db[k][c] = 0 /\ owed[k] = {} /\ cleared[k] = {}
    BY EmptyEntries DEF Init
  <2> QED BY <2>1 DEF Init, Entry, Queued
<1>3. Detached /\ Stopping /\ Pairs
  <2>1. "usage" \in Kind BY DEF Kind
  <2> QED BY <2>1 DEF Init, Detached, Stopping, Pairs, Pair
<1> QED BY <1>1, <1>2, <1>3 DEF IInv

\* The inductive invariant of the specification.
THEOREM LedgerInvariant == Spec => []IInv
<1>1. Init => IInv BY InitIInv
<1>2. IInv /\ [Next]_vars => IInv'
  BY TypeStep, DetachedStep, EntriesStep, PairsStep, StoppingStep DEF IInv
<1> QED BY <1>1, <1>2, PTL DEF Spec

\* Ledgers, flush and shutdown keep their type, and an idle flush holds no batch.
THEOREM LedgerTypes == Spec => []TypeOK
<1>1. IInv => TypeOK BY DEF IInv
<1> QED BY <1>1, LedgerInvariant, PTL

\* Failures, retries, clears and restarts never count a call twice, and none is lost
\* that was not cleared, deleted or in memory when the process died.
THEOREM CallsCountedOnce == Spec => []CountedOnce
<1>1. IInv => CountedOnce
  <2> SUFFICES ASSUME IInv, NEW k \in Kind \ {"events"}, NEW c \in Call
               PROVE  /\ Queued(k, c) + db[k][c] <= 1
                      /\ c \in owed[k] => Queued(k, c) + db[k][c] = 1
    BY DEF CountedOnce
  <2>1. Entry(k, c) /\ pending[k][c] \in Nat /\ batch[k][c] \in Nat /\ db[k][c] \in Nat
    BY EntryTypes DEF IInv, Entries
  <2> QED BY <2>1 DEF Entry, Queued
<1> QED BY <1>1, LedgerInvariant, PTL

\* An event is stored once however often its batch was tried, and never dropped.
THEOREM EventsAreKept == Spec => []EventsKept
<1>1. IInv => EventsKept
  <2>1. "events" \in Kind BY DEF Kind
  <2> QED BY <2>1 DEF IInv, Entries, Entry, EventsKept
<1> QED BY <1>1, LedgerInvariant, PTL

\* The totals of accounts and ingresses agree about every call both account for.
THEOREM TotalsAlwaysAgree == Spec => []TotalsAgree
<1>1. IInv => TotalsAgree
  <2> SUFFICES ASSUME IInv, NEW c \in owed["usage"] \cap owed["ingress"]
               PROVE  db["usage"][c] = db["ingress"][c]
    BY DEF TotalsAgree
  <2>1. c \in Call BY DEF IInv, TypeOK, Kind
  <2> QED BY <2>1 DEF IInv, Pairs, Pair
<1> QED BY <1>1, LedgerInvariant, PTL

\* A batch detached before a clear does not bring back what was cleared.
THEOREM ClearsAreFinal == Spec => []ClearedStaysAway
<1>1. IInv => ClearedStaysAway
  <2> SUFFICES ASSUME IInv, NEW k \in Kind, NEW c \in cleared[k] PROVE Queued(k, c) + db[k][c] = 0
    BY DEF ClearedStaysAway
  <2>1. c \in Call BY DEF IInv, TypeOK
  <2> QED BY <2>1 DEF IInv, Entries, Entry
<1> QED BY <1>1, LedgerInvariant, PTL

\* A run that ends without an error has written every call that is accounted for.
THEOREM CleanStopsAreComplete == Spec => []CleanStopWritesAll
<1>1. IInv => CleanStopWritesAll
  <2> SUFFICES ASSUME IInv, phase = "stopped", NEW k \in Kind, NEW c \in owed[k] PROVE db[k][c] = 1
    BY DEF CleanStopWritesAll
  <2>1. c \in Call BY DEF IInv, TypeOK
  <2>2. pending = Empty /\ batch = Empty BY DEF IInv, Stopping, TypeOK
  <2>3. pending[k][c] = 0 /\ batch[k][c] = 0 BY <2>1, <2>2, EmptyEntries
  <2>4. Entry(k, c) /\ db[k][c] \in Nat BY <2>1, EntryTypes DEF IInv, Entries
  <2> QED BY <2>3, <2>4 DEF Entry, Queued
<1> QED BY <1>1, LedgerInvariant, PTL

\* A list holds models, newest first.
ListOf(s) == s \in Seq(Catalog!Model) /\ Catalog!Descending(s)

-----------------------------------------------------------------------------
(* Lists of models.                                                          *)

\* Models are numbers, and none is 0.
LEMMA ModelNumbers ==
  /\ \A m \in Catalog!Model : m \in Nat /\ m > 0
  /\ Limit \in Nat /\ Limit > 0 /\ MaxPages \in Nat /\ MaxPages > 0
  /\ MaxModel \in Nat /\ MaxModel > 0 /\ MaxChanges \in Nat
  /\ Catalog!NoModel = 0 /\ Catalog!NoModel \notin Catalog!Model
BY CatalogConstants DEF Catalog!Model, Catalog!NoModel

\* The instance's cardinality is that of the standard module.
LEMMA CatalogCardinality == \A S : Catalog!Cardinality(S) = Cardinality(S)
BY DEF Catalog!Cardinality, Cardinality, Catalog!IsFiniteSet, IsFiniteSet

\* No two models have equally many newer ones, so that each has a place of its own.
LEMMA Ranks ==
  ASSUME NEW S \in SUBSET Catalog!Model
  PROVE  /\ IsFiniteSet(S) /\ Cardinality(S) \in Nat
         /\ \A m \in S : Cardinality({n \in S : n > m}) \in 0..Cardinality(S) - 1
         /\ \A m, k \in S : m < k
              => Cardinality({n \in S : n > k}) < Cardinality({n \in S : n > m})
         /\ \A r \in 0..Cardinality(S) - 1 : \E m \in S : Cardinality({n \in S : n > m}) = r
<1> DEFINE newer(m) == {n \in S : n > m}
           rank == [m \in S |-> Cardinality(newer(m))]
           places == 0..Cardinality(S) - 1
<1>1. IsFiniteSet(Catalog!Model) BY ModelNumbers, FS_Interval DEF Catalog!Model
<1>2. IsFiniteSet(S) BY <1>1, FS_Subset
<1>3. Cardinality(S) \in Nat BY <1>2, FS_CardinalityType
<1>4. \A m \in S : m \in Nat BY ModelNumbers
<1>5. \A m \in S : IsFiniteSet(newer(m)) /\ Cardinality(newer(m)) \in Nat
  <2> SUFFICES ASSUME NEW m \in S PROVE IsFiniteSet(newer(m)) /\ Cardinality(newer(m)) \in Nat
    OBVIOUS
  <2>1. newer(m) \in SUBSET S OBVIOUS
  <2> HIDE DEF newer
  <2>2. IsFiniteSet(newer(m)) BY <1>2, <2>1, FS_Subset
  <2> QED BY <2>2, FS_CardinalityType
<1>6. \A m \in S : Cardinality(newer(m)) \in places
  <2> SUFFICES ASSUME NEW m \in S PROVE Cardinality(newer(m)) \in places
    OBVIOUS
  <2>1. newer(m) \in SUBSET (S \ {m}) BY <1>4
  <2>2. IsFiniteSet(S \ {m}) /\ Cardinality(S \ {m}) = Cardinality(S) - 1
    BY <1>2, FS_RemoveElement
  <2> HIDE DEF newer
  <2>3. Cardinality(newer(m)) <= Cardinality(S \ {m}) BY <2>1, <2>2, FS_Subset
  <2>4. Cardinality(newer(m)) \in Nat BY <1>5
  <2> QED BY <1>3, <2>2, <2>3, <2>4
<1>7. \A m, k \in S : m < k => Cardinality(newer(k)) < Cardinality(newer(m))
  <2> SUFFICES ASSUME NEW m \in S, NEW k \in S, m < k
               PROVE  Cardinality(newer(k)) < Cardinality(newer(m))
    OBVIOUS
  <2>1. newer(k) \in SUBSET newer(m)
    <3>1. \A n \in S : n > k => n > m BY <1>4
    <3> QED BY <3>1
  <2>2. k \in newer(m) /\ k \notin newer(k) BY <1>4
  <2>3. IsFiniteSet(newer(m)) /\ Cardinality(newer(m)) \in Nat /\ Cardinality(newer(k)) \in Nat
    BY <1>5
  <2> HIDE DEF newer
  <2>4. Cardinality(newer(k)) <= Cardinality(newer(m)) BY <2>1, <2>3, FS_Subset
  <2>5. Cardinality(newer(k)) # Cardinality(newer(m)) BY <2>1, <2>2, <2>3, FS_Subset
  <2> QED BY <2>3, <2>4, <2>5
<1>8. \A r \in places : \E m \in S : rank[m] = r
  <2>1. rank \in [S -> places] BY <1>6
  <2>2. \A m, k \in S : rank[m] = rank[k] => m = k
    <3> SUFFICES ASSUME NEW m \in S, NEW k \in S, rank[m] = rank[k], m # k PROVE FALSE
      OBVIOUS
    <3>1. rank[m] = Cardinality(newer(m)) /\ rank[k] = Cardinality(newer(k)) OBVIOUS
    <3> HIDE DEF rank, newer
    <3>2. Cardinality(newer(m)) \in Nat /\ Cardinality(newer(k)) \in Nat BY <1>5
    <3>3. m < k \/ k < m BY <1>4
    <3>4. m < k => Cardinality(newer(k)) < Cardinality(newer(m)) BY <1>7
    <3>5. k < m => Cardinality(newer(m)) < Cardinality(newer(k)) BY <1>7
    <3>6. Cardinality(newer(m)) = Cardinality(newer(k)) BY <3>1
    <3> QED BY <3>2, <3>3, <3>4, <3>5, <3>6
  <2>3. rank \in Injection(S, places) BY <2>1, <2>2 DEF Injection, IsInjective
  <2>4. IsFiniteSet(places) /\ Cardinality(places) = Cardinality(S)
    <3> HIDE DEF places
    <3>1. IsFiniteSet(0..Cardinality(S) - 1) BY <1>3, FS_Interval
    <3>2. Cardinality(0..Cardinality(S) - 1) = IF 0 > Cardinality(S) - 1 THEN 0 ELSE (Cardinality(S) - 1) - 0 + 1
      BY <1>3, FS_Interval
    <3> QED BY <1>3, <3>1, <3>2 DEF places
  <2> HIDE DEF rank, places
  <2>5. rank \in Surjection(S, places) BY <2>3, <2>4, FS_Injection
  <2> QED BY <2>5 DEF Surjection
<1> QED BY <1>2, <1>3, <1>6, <1>7, <1>8

\* Of any models there is a list.
LEMMA NewestIsList ==
  ASSUME NEW S \in SUBSET Catalog!Model
  PROVE  /\ ListOf(Catalog!Newest[S])
         /\ \A m \in S : \E i \in DOMAIN Catalog!Newest[S] : Catalog!Newest[S][i] = m
         /\ \A i \in DOMAIN Catalog!Newest[S] : Catalog!Newest[S][i] \in S
<1> DEFINE n == Cardinality(S)
           rank(m) == Cardinality({x \in S : x > m})
           there(m) == Catalog!Cardinality({x \in S : x > m})
           s == Catalog!Newest[S]
<1>1. n \in Nat /\ \A m \in S : rank(m) \in 0..n - 1 BY Ranks
<1>2. \A m, k \in S : m < k => rank(k) < rank(m) BY Ranks
<1>3. \A r \in 0..n - 1 : \E m \in S : rank(m) = r BY Ranks
<1>4. s = [i \in 1..n |-> CHOOSE m \in S : there(m) = i - 1]
  <2>1. Catalog!Cardinality(S) = n BY CatalogCardinality
  <2>2. s = [i \in 1..Catalog!Cardinality(S) |-> CHOOSE m \in S : there(m) = i - 1]
    BY DEF Catalog!Newest
  <2> HIDE DEF s, n, there
  <2> QED BY <2>1, <2>2
<1>0. \A m \in S : there(m) = rank(m) BY CatalogCardinality
<1> HIDE DEF s, n, rank, there
<1>5. \A i \in 1..n : s[i] \in S /\ rank(s[i]) = i - 1
  <2> SUFFICES ASSUME NEW i \in 1..n PROVE s[i] \in S /\ rank(s[i]) = i - 1
    OBVIOUS
  <2>1. i - 1 \in 0..n - 1 BY <1>1
  <2>2. \E m \in S : there(m) = i - 1 BY <1>0, <1>3, <2>1
  <2>3. s[i] = CHOOSE m \in S : there(m) = i - 1 BY <1>4
  <2>4. s[i] \in S /\ there(s[i]) = i - 1 BY <2>2, <2>3
  <2> QED BY <1>0, <2>4
<1>6. DOMAIN s = 1..n /\ s \in [1..n -> Catalog!Model] BY <1>4, <1>5
<1>7. s \in Seq(Catalog!Model) BY <1>1, <1>6
<1>8. \A m \in S : m \in Nat BY ModelNumbers
<1>9. ASSUME NEW i \in 1..n, NEW j \in 1..n, i < j PROVE s[i] > s[j]
  <2>1. s[i] \in Nat /\ s[j] \in Nat /\ s[i] \in S /\ s[j] \in S BY <1>5, <1>8
  <2>2. rank(s[i]) = i - 1 /\ rank(s[j]) = j - 1 BY <1>5
  <2>3. s[i] # s[j] BY <1>1, <1>9, <2>2
  <2>4. ~(s[i] < s[j]) BY <1>1, <1>2, <1>9, <2>1, <2>2
  <2> QED BY <2>1, <2>3, <2>4
<1>10. ASSUME NEW m \in S PROVE \E i \in 1..n : s[i] = m
  <2>1. rank(m) \in 0..n - 1 BY <1>1
  <2>2. rank(m) + 1 \in 1..n BY <1>1, <2>1
  <2>3. PICK i \in 1..n : i = rank(m) + 1 BY <2>2
  <2>4. s[i] \in S /\ rank(s[i]) = rank(m) BY <1>1, <1>5, <2>1, <2>3
  <2>5. s[i] = m
    <3>1. s[i] \in Nat /\ m \in Nat /\ rank(m) \in Nat BY <1>8, <2>1, <2>4
    <3>2. ~(s[i] < m) /\ ~(m < s[i]) BY <1>2, <2>4, <3>1
    <3> QED BY <3>1, <3>2
  <2> QED BY <2>5
<1> QED BY <1>5, <1>6, <1>7, <1>9, <1>10 DEF ListOf, Catalog!Descending, s

\* What it means to be in a list.
LEMMA Members ==
  ASSUME NEW s, ListOf(s)
  PROVE  /\ Len(s) \in Nat /\ DOMAIN s = 1..Len(s)
         /\ \A i \in 1..Len(s) : s[i] \in Catalog!Model /\ s[i] \in Nat
         /\ \A i, j \in 1..Len(s) : i < j => s[i] > s[j]
         /\ \A m : m \in Catalog!ToSet(s) <=> \E i \in 1..Len(s) : s[i] = m
         /\ Catalog!ToSet(s) \in SUBSET Catalog!Model
         /\ \A m : Catalog!Contains(s, m) <=> m \in Catalog!ToSet(s)
         /\ s = <<>> <=> Len(s) = 0
<1>1. Len(s) \in Nat /\ DOMAIN s = 1..Len(s) /\ s \in Seq(Catalog!Model) BY DEF ListOf
<1>2. \A i \in 1..Len(s) : s[i] \in Catalog!Model BY <1>1
<1>3. \A i \in 1..Len(s) : s[i] \in Nat BY <1>2, ModelNumbers
<1>4. \A i, j \in 1..Len(s) : i < j => s[i] > s[j] BY <1>1 DEF ListOf, Catalog!Descending
<1>5. \A m : m \in Catalog!ToSet(s) <=> \E i \in 1..Len(s) : s[i] = m
  BY <1>1 DEF Catalog!ToSet
<1>6. \A m : Catalog!Contains(s, m) <=> \E i \in 1..Len(s) : s[i] = m
  BY <1>1 DEF Catalog!Contains
<1>7. s = <<>> <=> Len(s) = 0 BY <1>1
<1>8. Catalog!ToSet(s) \in SUBSET Catalog!Model BY <1>2, <1>5
<1> QED BY <1>1, <1>2, <1>3, <1>4, <1>5, <1>6, <1>7, <1>8

\* A part of a list is a list.
LEMMA Slice ==
  ASSUME NEW s, ListOf(s), NEW b \in Nat, NEW e \in Int, b > 0, e <= Len(s), b <= e + 1
  PROVE  LET q == SubSeq(s, b, e)
         IN  /\ ListOf(q) /\ Len(q) = e - b + 1
             /\ \A i \in 1..Len(q) : q[i] = s[b + i - 1] /\ b + i - 1 \in b..e
             /\ \A k \in b..e : s[k] \in Catalog!ToSet(q)
<1> DEFINE q == SubSeq(s, b, e)
<1>1. s \in Seq(Catalog!Model) /\ Len(s) \in Nat BY Members DEF ListOf
<1>2. Len(q) = e - b + 1 /\ q \in Seq(Catalog!Model) /\ Len(q) \in Nat
  <2>1. \A i \in b..e : i \in 1..Len(s) BY <1>1
  <2>2. q = [i \in 1..(e - b + 1) |-> s[b + i - 1]] BY <1>1
  <2>3. e - b + 1 \in Nat OBVIOUS
  <2>4. \A i \in 1..(e - b + 1) : s[b + i - 1] \in Catalog!Model
    <3>1. \A i \in 1..(e - b + 1) : b + i - 1 \in 1..Len(s) BY <1>1
    <3> QED BY <3>1, Members
  <2> HIDE DEF q
  <2>5. q \in [1..(e - b + 1) -> Catalog!Model] BY <2>2, <2>4
  <2>6. q \in Seq(Catalog!Model) BY <2>3, <2>5
  <2>7. DOMAIN q = 1..(e - b + 1) BY <2>2
  <2>8. Len(q) = e - b + 1 BY <2>3, <2>6, <2>7
  <2> QED BY <2>3, <2>6, <2>8
<1>3. \A i \in 1..Len(q) : q[i] = s[b + i - 1] /\ b + i - 1 \in b..e
  <2>1. q = [i \in 1..(e - b + 1) |-> s[b + i - 1]] BY <1>1
  <2> HIDE DEF q
  <2> QED BY <1>2, <2>1
<1> HIDE DEF q
<1>4. DOMAIN q = 1..Len(q) BY <1>2
<1>5. ListOf(q)
  <2>1. ASSUME NEW i \in 1..Len(q), NEW j \in 1..Len(q), i < j PROVE q[i] > q[j]
    <3>1. /\ b + i - 1 \in 1..Len(s) /\ b + j - 1 \in 1..Len(s) /\ b + i - 1 < b + j - 1
      BY <1>1, <1>2, <2>1
    <3>2. s[b + i - 1] > s[b + j - 1] BY <3>1, Members
    <3> QED BY <1>3, <3>2
  <2> QED BY <1>2, <1>4, <2>1 DEF ListOf, Catalog!Descending
<1>6. \A k \in b..e : s[k] \in Catalog!ToSet(q)
  <2> SUFFICES ASSUME NEW k \in b..e PROVE \E i \in 1..Len(q) : q[i] = s[k]
    BY <1>5, Members
  <2>1. k - b + 1 \in 1..Len(q) /\ b + (k - b + 1) - 1 = k BY <1>2
  <2>2. q[k - b + 1] = s[k] BY <1>3, <2>1
  <2> QED BY <2>1, <2>2
<1> QED BY <1>2, <1>3, <1>5, <1>6 DEF q

\* Two lists, the second of older models, are one.
LEMMA Join ==
  ASSUME NEW p, NEW q, ListOf(p), ListOf(q),
         \A m \in Catalog!ToSet(p), n \in Catalog!ToSet(q) : m > n
  PROVE  /\ ListOf(p \o q)
         /\ Catalog!ToSet(p \o q) = Catalog!ToSet(p) \cup Catalog!ToSet(q)
         /\ Len(p \o q) = Len(p) + Len(q)
         /\ \A i \in 1..Len(p \o q) : (p \o q)[i] = IF i <= Len(p) THEN p[i] ELSE q[i - Len(p)]
<1> DEFINE s == p \o q
<1>1. /\ p \in Seq(Catalog!Model) /\ Len(p) \in Nat
      /\ q \in Seq(Catalog!Model) /\ Len(q) \in Nat
  BY Members DEF ListOf
<1>2. s \in Seq(Catalog!Model) /\ Len(s) = Len(p) + Len(q) BY <1>1
<1>3. \A i \in 1..Len(s) : s[i] = IF i <= Len(p) THEN p[i] ELSE q[i - Len(p)] BY <1>1
<1> HIDE DEF s
<1>4. DOMAIN s = 1..Len(s) BY <1>2
<1>5. ASSUME NEW i \in 1..Len(s), NEW j \in 1..Len(s), i < j PROVE s[i] > s[j]
  <2>1. CASE j <= Len(p)
    <3>1. i \in 1..Len(p) /\ j \in 1..Len(p) BY <1>1, <1>5, <2>1
    <3>2. p[i] > p[j] BY <1>5, <3>1, Members
    <3>3. s[i] = p[i] /\ s[j] = p[j] BY <1>3, <3>1
    <3> QED BY <3>2, <3>3
  <2>2. CASE i > Len(p)
    <3>1. /\ i - Len(p) \in 1..Len(q) /\ j - Len(p) \in 1..Len(q) /\ i - Len(p) < j - Len(p)
      BY <1>1, <1>2, <1>5, <2>2
    <3>2. q[i - Len(p)] > q[j - Len(p)] BY <3>1, Members
    <3>3. s[i] = q[i - Len(p)] /\ s[j] = q[j - Len(p)] BY <1>1, <1>2, <1>3, <1>5, <2>2
    <3> QED BY <3>2, <3>3
  <2>3. CASE i <= Len(p) /\ j > Len(p)
    <3>1. i \in 1..Len(p) /\ j - Len(p) \in 1..Len(q) BY <1>1, <1>2, <2>3
    <3>2. s[i] = p[i] /\ s[j] = q[j - Len(p)] BY <1>1, <1>3, <2>3
    <3>3. p[i] \in Catalog!ToSet(p) /\ q[j - Len(p)] \in Catalog!ToSet(q) BY <3>1, Members
    <3> QED BY <3>2, <3>3
  <2> QED BY <1>1, <1>2, <2>1, <2>2, <2>3
<1>6. ListOf(s) BY <1>2, <1>4, <1>5 DEF ListOf, Catalog!Descending
<1>7. \A m : m \in Catalog!ToSet(s) <=> m \in Catalog!ToSet(p) \/ m \in Catalog!ToSet(q)
  <2>1. ASSUME NEW m, m \in Catalog!ToSet(s) PROVE m \in Catalog!ToSet(p) \/ m \in Catalog!ToSet(q)
    <3>1. PICK i \in 1..Len(s) : s[i] = m BY <1>6, <2>1, Members
    <3>2. CASE i <= Len(p)
      <4>1. i \in 1..Len(p) /\ p[i] = m BY <1>1, <1>3, <3>1, <3>2
      <4> QED BY <4>1, Members
    <3>3. CASE i > Len(p)
      <4>1. i - Len(p) \in 1..Len(q) /\ q[i - Len(p)] = m BY <1>1, <1>2, <1>3, <3>1, <3>3
      <4> QED BY <4>1, Members
    <3> QED BY <1>1, <3>2, <3>3
  <2>2. ASSUME NEW m, m \in Catalog!ToSet(p) PROVE m \in Catalog!ToSet(s)
    <3>1. PICK i \in 1..Len(p) : p[i] = m BY <2>2, Members
    <3>2. i \in 1..Len(s) /\ s[i] = m BY <1>1, <1>2, <1>3, <3>1
    <3> QED BY <1>6, <3>2, Members
  <2>3. ASSUME NEW m, m \in Catalog!ToSet(q) PROVE m \in Catalog!ToSet(s)
    <3>1. PICK i \in 1..Len(q) : q[i] = m BY <2>3, Members
    <3>2. /\ i + Len(p) \in 1..Len(s) /\ ~(i + Len(p) <= Len(p)) /\ i + Len(p) - Len(p) = i
      BY <1>1, <1>2
    <3>3. s[i + Len(p)] = m BY <1>3, <3>1, <3>2
    <3> QED BY <1>6, <3>2, <3>3, Members
  <2> QED BY <2>1, <2>2, <2>3
<1>8. Catalog!ToSet(s) = Catalog!ToSet(p) \cup Catalog!ToSet(q) BY <1>7
<1> QED BY <1>2, <1>3, <1>6, <1>8 DEF s

\* The place of a model in a list.
LEMMA Index ==
  ASSUME NEW s, ListOf(s), NEW id
  PROVE  /\ id \in Catalog!ToSet(s) => /\ Catalog!modelIndex(s, id) \in 1..Len(s)
                                       /\ s[Catalog!modelIndex(s, id)] = id
         /\ id \notin Catalog!ToSet(s) => Catalog!modelIndex(s, id) = 0
<1>1. DOMAIN s = 1..Len(s) BY Members
<1>2. ASSUME id \in Catalog!ToSet(s)
      PROVE  /\ Catalog!modelIndex(s, id) \in 1..Len(s) /\ s[Catalog!modelIndex(s, id)] = id
  <2>1. \E i \in 1..Len(s) : s[i] = id BY <1>2, Members
  <2>2. Catalog!Contains(s, id) BY <1>2, Members
  <2>3. Catalog!modelIndex(s, id) = CHOOSE i \in 1..Len(s) : s[i] = id
    BY <1>1, <2>2 DEF Catalog!modelIndex
  <2> QED BY <2>1, <2>3
<1>3. ASSUME id \notin Catalog!ToSet(s) PROVE Catalog!modelIndex(s, id) = 0
  <2>1. ~Catalog!Contains(s, id) BY <1>3, Members
  <2> QED BY <2>1 DEF Catalog!modelIndex, Catalog!NoModel
<1> QED BY <1>2, <1>3

\* A page towards older models begins behind its cursor, and is followed by another unless
\* it reaches the end of the list.
LEMMA OlderPage ==
  ASSUME NEW s, ListOf(s), NEW after, after # 0 => after \in Catalog!ToSet(s),
         NEW page, page = Catalog!pageModels(s, after, 0)
  PROVE  \E b \in 0..Len(s) : \E e \in b..Len(s) :
           /\ IF after = 0 THEN b = 0 ELSE b > 0 /\ s[b] = after
           /\ page.models = SubSeq(s, b + 1, e) /\ page.more \in BOOLEAN
           /\ b < Len(s) => e > b
           /\ page.more => e > b
           /\ ~page.more => e = Len(s)
<1> DEFINE b == Catalog!modelIndex(s, after)
           n == Len(s)
           more == n - b > Limit
           e == IF more THEN b + Limit ELSE n
<1>1. n \in Nat /\ Limit \in Nat /\ Limit > 0 BY Members, ModelNumbers
<1>2. 0 \notin Catalog!ToSet(s) BY Members, ModelNumbers
<1>3. b \in 0..n /\ IF after = 0 THEN b = 0 ELSE b > 0 /\ s[b] = after
  BY <1>1, <1>2, Index
<1>4. page = [more |-> more,
              models |-> IF ~more THEN SubSeq(s, b + 1, n) ELSE SubSeq(s, b + 1, b + Limit)]
  BY DEF Catalog!pageModels, Catalog!NoModel
<1> HIDE DEF b, n
<1>5. page.models = SubSeq(s, b + 1, e) /\ page.more = more BY <1>4
<1>6. e \in b..n /\ (b < n => e > b) /\ (more => e > b) /\ (~more => e = n) BY <1>1, <1>3
<1>7. more \in BOOLEAN OBVIOUS
<1> HIDE DEF e, more
<1>8. page.more \in BOOLEAN BY <1>5, <1>7
<1> QED BY <1>3, <1>5, <1>6, <1>8 DEF n

\* A page towards newer models ends before its cursor, and is followed by another unless it
\* reaches the beginning.
EndsBefore(page, s, before, b, e) ==
  /\ e \in 0..Len(s) - 1 /\ b \in 1..e + 1 /\ s[e + 1] = before
  /\ page.models = SubSeq(s, b, e) /\ page.more \in BOOLEAN
  /\ page.more => b <= e
  /\ ~page.more => b = 1

LEMMA NewerPage ==
  ASSUME NEW s, ListOf(s), NEW before, before \in Catalog!ToSet(s)
  PROVE  \E b, e : EndsBefore(Catalog!pageModels(s, 0, before), s, before, b, e)
<1> DEFINE page == Catalog!pageModels(s, 0, before)
           e == Catalog!modelIndex(s, before) - 1
           more == e - 0 > Limit
           b == IF more THEN e - Limit + 1 ELSE 1
<1>1. Len(s) \in Nat /\ Limit \in Nat /\ Limit > 0 BY Members, ModelNumbers
<1>2. 0 \notin Catalog!ToSet(s) /\ before # 0 BY Members, ModelNumbers
<1>3. Catalog!modelIndex(s, 0) = 0 BY <1>2, Index
<1>4. e \in 0..Len(s) - 1 /\ s[e + 1] = before
  <2>1. Catalog!modelIndex(s, before) \in 1..Len(s) /\ s[Catalog!modelIndex(s, before)] = before
    BY Index
  <2>2. e + 1 = Catalog!modelIndex(s, before) BY <1>1, <2>1
  <2> QED BY <1>1, <2>1, <2>2
<1>5. page = [more |-> more,
              models |-> IF ~more THEN SubSeq(s, 0 + 1, e) ELSE SubSeq(s, e - Limit + 1, e)]
  BY <1>2, <1>3 DEF Catalog!pageModels, Catalog!NoModel
<1> HIDE DEF e, page, more
<1>6. page.models = SubSeq(s, b, e) /\ page.more = more
  <2>1. page.more = more BY <1>5
  <2>2. 0 + 1 = 1 OBVIOUS
  <2>3. page.models = SubSeq(s, b, e) BY <1>5, <2>2
  <2> QED BY <2>1, <2>3
<1> USE DEF more
<1>7. b \in 1..e + 1 /\ (more => b <= e) /\ (~more => b = 1) BY <1>1, <1>4
<1>8. more \in BOOLEAN OBVIOUS
<1> HIDE DEF b, more
<1>9. page.more \in BOOLEAN BY <1>6, <1>8
<1>10. EndsBefore(page, s, before, b, e) BY <1>4, <1>6, <1>7, <1>9 DEF EndsBefore
<1> QED BY <1>10 DEF page

-----------------------------------------------------------------------------
(* Walks.                                                                    *)

\* What a walk has got is a list; while it goes on it lacks none of the models that every
\* list had between its beginning and the edge of what it got, and when it has ended none.
WalkRecord ==
  [to : {"older", "newer", "one"}, from : Catalog!Model \cup {0},
   got : Seq(Catalog!Model), common : SUBSET Catalog!Model, more : BOOLEAN]
Walk(w) ==
  /\ w \in WalkRecord
  /\ ListOf(w.got)
  /\ IF w.to = "older" THEN w.from = 0 ELSE w.from \in Catalog!Model
  /\ w.to = "newer" => \A m \in Catalog!ToSet(w.got) : m > w.from
  /\ w.more /\ w.to = "older" /\ w.got # <<>> =>
       \A m \in w.common : m >= w.got[Len(w.got)] => m \in Catalog!ToSet(w.got)
  /\ w.more /\ w.to = "newer" /\ w.got # <<>> =>
       \A m \in w.common : m > w.from /\ m <= w.got[1] => m \in Catalog!ToSet(w.got)
  /\ ~w.more => Catalog!Beyond(w) \cap w.common \subseteq Catalog!ToSet(w.got)

\* The walk after it was served a page of some list.
Served(w, s, got, more) ==
  [w EXCEPT !.got = got, !.common = w.common \cap Catalog!ToSet(s), !.more = more]

LEMMA ServedFields ==
  ASSUME NEW w, Walk(w), NEW s, ListOf(s), NEW got, ListOf(got), NEW more \in BOOLEAN
  PROVE  LET v == Served(w, s, got, more)
         IN  /\ v \in WalkRecord
             /\ v.to = w.to /\ v.from = w.from /\ v.got = got /\ v.more = more
             /\ \A m : m \in v.common <=> m \in w.common /\ m \in Catalog!ToSet(s)
BY Members DEF Walk, WalkRecord, Served, ListOf

LEMMA OlderServed ==
  ASSUME NEW w, Walk(w), w.more, w.to = "older", NEW s, ListOf(s),
         NEW after, after = IF w.got = <<>> THEN w.from ELSE w.got[Len(w.got)],
         after # 0 => after \in Catalog!ToSet(s),
         NEW page, page = Catalog!pageModels(s, after, 0)
  PROVE  Walk(Served(w, s, w.got \o page.models, page.more))
<1> DEFINE p == w.got
           q == page.models
           got == p \o q
           v == Served(w, s, got, page.more)
<1>1. ListOf(p) /\ w.from = 0 BY DEF Walk
<1>2. PICK b \in 0..Len(s) : \E e \in b..Len(s) :
         /\ IF after = 0 THEN b = 0 ELSE b > 0 /\ s[b] = after
         /\ q = SubSeq(s, b + 1, e) /\ page.more \in BOOLEAN
         /\ page.more => e > b
         /\ ~page.more => e = Len(s)
  BY OlderPage
<1>3. PICK e \in b..Len(s) :
         /\ IF after = 0 THEN b = 0 ELSE b > 0 /\ s[b] = after
         /\ q = SubSeq(s, b + 1, e) /\ page.more \in BOOLEAN
         /\ page.more => e > b
         /\ ~page.more => e = Len(s)
  BY <1>2
<1>4. Len(s) \in Nat /\ Len(p) \in Nat BY <1>1, Members
<1>5. /\ b + 1 \in Nat /\ b + 1 > 0 /\ e \in Int /\ e <= Len(s) /\ b + 1 <= e + 1
      /\ b \in Nat
  BY <1>4
<1>6. /\ ListOf(q) /\ Len(q) = e - (b + 1) + 1
      /\ \A i \in 1..Len(q) : q[i] = s[b + 1 + i - 1] /\ b + 1 + i - 1 \in b + 1..e
      /\ \A k \in b + 1..e : s[k] \in Catalog!ToSet(q)
  <2>1. q = SubSeq(s, b + 1, e) BY <1>3
  <2> DEFINE r == SubSeq(s, b + 1, e)
  <2>2. /\ ListOf(r) /\ Len(r) = e - (b + 1) + 1
        /\ \A i \in 1..Len(r) : r[i] = s[b + 1 + i - 1] /\ b + 1 + i - 1 \in b + 1..e
        /\ \A k \in b + 1..e : s[k] \in Catalog!ToSet(r)
    BY <1>5, Slice
  <2> HIDE DEF r
  <2>3. q = r BY <2>1 DEF r
  <2> HIDE DEF q
  <2> QED BY <2>2, <2>3
<1>7. p # <<>> => /\ Len(p) \in 1..Len(p) /\ after = p[Len(p)] /\ after \in Nat /\ after # 0
                  /\ b \in 1..Len(s) /\ s[b] = after
                  /\ \A m \in Catalog!ToSet(p) : m >= after
  <2> SUFFICES ASSUME p # <<>>
               PROVE  /\ Len(p) \in 1..Len(p) /\ after = p[Len(p)] /\ after \in Nat /\ after # 0
                      /\ b \in 1..Len(s) /\ s[b] = after
                      /\ \A m \in Catalog!ToSet(p) : m >= after
    OBVIOUS
  <2>1. Len(p) \in 1..Len(p) BY <1>1, <1>4, Members
  <2>2. after = p[Len(p)] /\ after \in Catalog!Model BY <1>1, <2>1, Members
  <2>3. after \in Nat /\ after > 0 BY <2>2, ModelNumbers
  <2>4. b \in 1..Len(s) /\ s[b] = after BY <1>3, <1>4, <2>3
  <2>5. ASSUME NEW m \in Catalog!ToSet(p) PROVE m >= after
    <3>1. PICK i \in 1..Len(p) : p[i] = m BY <1>1, Members
    <3>2. CASE i = Len(p) BY <2>2, <2>3, <3>1, <3>2
    <3>3. CASE i < Len(p)
      <4>1. p[i] > p[Len(p)] BY <1>1, <2>1, <3>3, Members
      <4>2. p[i] \in Nat BY <1>1, Members
      <4> QED BY <2>2, <2>3, <3>1, <4>1, <4>2
    <3> QED BY <1>4, <3>2, <3>3
  <2> QED BY <2>1, <2>2, <2>3, <2>4, <2>5
<1>8. \A k \in 1..Len(s) : s[k] \in Nat BY Members
<1>9. \A m \in Catalog!ToSet(p), n \in Catalog!ToSet(q) : m > n
  <2> SUFFICES ASSUME NEW m \in Catalog!ToSet(p), NEW n \in Catalog!ToSet(q) PROVE m > n
    OBVIOUS
  <2>1. p # <<>>
    <3>1. \E i \in 1..Len(p) : p[i] = m BY <1>1, Members
    <3> QED BY <1>1, <1>4, <3>1, Members
  <2>2. m >= after /\ after \in Nat /\ b \in 1..Len(s) /\ s[b] = after BY <1>7, <2>1
  <2>3. m \in Nat BY <1>1, Members, ModelNumbers
  <2> HIDE DEF q
  <2>4. PICK i \in 1..Len(q) : q[i] = n BY <1>6, Members
  <2>5. PICK k \in b + 1..e : s[k] = n BY <1>6, <2>4
  <2>6. k \in 1..Len(s) /\ b < k BY <1>4, <1>5
  <2>7. s[b] > s[k] BY <2>2, <2>6, Members
  <2>8. n \in Nat BY <1>8, <2>5, <2>6
  <2> QED BY <2>2, <2>3, <2>5, <2>7, <2>8
<1>10. /\ ListOf(got) /\ Len(got) = Len(p) + Len(q)
       /\ Catalog!ToSet(got) = Catalog!ToSet(p) \cup Catalog!ToSet(q)
       /\ \A i \in 1..Len(got) : got[i] = IF i <= Len(p) THEN p[i] ELSE q[i - Len(p)]
  <2>1. ListOf(p) /\ ListOf(q) BY <1>1, <1>6
  <2> HIDE DEF p, q
  <2> QED BY <1>9, <2>1, Join
<1> HIDE DEF got, p, q
\* What lies at or above the e-th model of the list and is in all lists was got.
<1>11. ASSUME NEW m \in w.common, NEW k \in 1..Len(s), s[k] = m, k <= e
       PROVE  m \in Catalog!ToSet(got)
  <2>1. CASE p # <<>> /\ k <= b
    <3>1. s[k] >= s[b]
      <4>1. CASE k = b BY <1>8, <4>1
      <4>2. CASE k < b
        <5>1. b \in 1..Len(s) BY <1>7, <2>1
        <5>2. s[k] > s[b] /\ s[k] \in Nat /\ s[b] \in Nat BY <4>2, <5>1, Members
        <5> QED BY <5>2
      <4> QED BY <1>5, <2>1, <4>1, <4>2
    <3>2. m >= p[Len(p)] BY <1>7, <1>11, <2>1, <3>1
    <3>3. m \in Catalog!ToSet(p) BY <2>1, <3>2 DEF Walk, p
    <3> QED BY <1>10, <3>3
  <2>2. CASE k > b
    <3>1. k \in b + 1..e BY <1>5, <1>11, <2>2
    <3> QED BY <1>6, <1>10, <1>11, <3>1
  <2>3. CASE p = <<>> /\ k <= b
    <3>1. after = 0 BY <1>1, <2>3 DEF p
    <3>2. b = 0 BY <1>3, <3>1
    <3> QED BY <2>3, <3>2
  <2> QED BY <1>5, <2>1, <2>2, <2>3
<1>12. page.more \in BOOLEAN BY <1>3
<1>13. /\ v \in WalkRecord
       /\ v.to = w.to /\ v.from = w.from /\ v.got = got /\ v.more = page.more
       /\ \A m : m \in v.common <=> m \in w.common /\ m \in Catalog!ToSet(s)
  BY <1>10, <1>12, ServedFields
<1> HIDE DEF v
<1>14. ASSUME page.more, NEW m \in v.common, m >= got[Len(got)] PROVE m \in Catalog!ToSet(got)
  <2>1. PICK k \in 1..Len(s) : s[k] = m BY <1>13, Members
  <2>2. e > b BY <1>3, <1>14
  <2>3. Len(q) \in 1..Len(q) /\ Len(q) > 0 BY <1>5, <1>6, <2>2
  <2>4. got[Len(got)] = q[Len(q)]
    <3>1. /\ Len(got) \in 1..Len(got) /\ ~(Len(got) <= Len(p)) /\ Len(got) - Len(p) = Len(q)
      BY <1>4, <1>10, <2>3
    <3> QED BY <1>10, <3>1
  <2>5. q[Len(q)] = s[e]
    <3>1. b + 1 + Len(q) - 1 = e BY <1>5, <1>6
    <3> QED BY <1>6, <2>3, <3>1
  <2>6. e \in 1..Len(s) BY <1>4, <1>5, <2>2
  <2>7. k <= e
    <3>1. ASSUME e < k PROVE FALSE
      <4>1. s[e] > s[k] /\ s[e] \in Nat /\ s[k] \in Nat BY <2>6, <3>1, Members
      <4> QED BY <1>14, <2>1, <2>4, <2>5, <4>1
    <3> QED BY <1>5, <3>1
  <2> QED BY <1>11, <1>13, <2>1, <2>7
<1>15. ASSUME ~page.more, NEW m \in v.common PROVE m \in Catalog!ToSet(got)
  <2>1. PICK k \in 1..Len(s) : s[k] = m BY <1>13, Members
  <2>2. k <= e BY <1>3, <1>4, <1>15
  <2> QED BY <1>11, <1>13, <2>1, <2>2
<1>16. Walk(v) BY <1>1, <1>10, <1>13, <1>14, <1>15 DEF Walk
<1> QED BY <1>16 DEF v, got, p, q

LEMMA NewerServed ==
  ASSUME NEW w, Walk(w), w.more, w.to = "newer", NEW s, ListOf(s),
         NEW before, before = IF w.got = <<>> THEN w.from ELSE w.got[1],
         before \in Catalog!ToSet(s),
         NEW page, page = Catalog!pageModels(s, 0, before)
  PROVE  Walk(Served(w, s, page.models \o w.got, page.more))
<1> DEFINE p == w.got
           q == page.models
           got == q \o p
           v == Served(w, s, got, page.more)
<1>1. ListOf(p) /\ w.from \in Catalog!Model /\ \A m \in Catalog!ToSet(p) : m > w.from
  BY DEF Walk
<1>2. PICK b, e : EndsBefore(page, s, before, b, e) BY NewerPage
<1>3. /\ e \in 0..Len(s) - 1 /\ b \in 1..e + 1 /\ s[e + 1] = before
      /\ q = SubSeq(s, b, e) /\ page.more \in BOOLEAN
      /\ page.more => b <= e
      /\ ~page.more => b = 1
  BY <1>2 DEF EndsBefore
<1>4. Len(s) \in Nat /\ Len(p) \in Nat BY <1>1, Members
<1>5. /\ b \in Nat /\ b > 0 /\ e \in Int /\ e <= Len(s) /\ b <= e + 1
      /\ e + 1 \in 1..Len(s) /\ e \in Nat
  BY <1>3, <1>4
<1>6. /\ ListOf(q) /\ Len(q) = e - b + 1
      /\ \A i \in 1..Len(q) : q[i] = s[b + i - 1] /\ b + i - 1 \in b..e
      /\ \A k \in b..e : s[k] \in Catalog!ToSet(q)
  <2>1. q = SubSeq(s, b, e) BY <1>3
  <2> DEFINE r == SubSeq(s, b, e)
  <2>2. /\ ListOf(r) /\ Len(r) = e - b + 1
        /\ \A i \in 1..Len(r) : r[i] = s[b + i - 1] /\ b + i - 1 \in b..e
        /\ \A k \in b..e : s[k] \in Catalog!ToSet(r)
    BY <1>5, Slice
  <2> HIDE DEF r
  <2>3. q = r BY <2>1 DEF r
  <2> HIDE DEF q
  <2> QED BY <2>2, <2>3
<1>7. \A k \in 1..Len(s) : s[k] \in Nat BY Members
<1>8. before \in Nat /\ w.from \in Nat /\ s[e + 1] = before BY <1>1, <1>3, <1>5, <1>7, ModelNumbers
<1>9. p = <<>> \/ 1 \in 1..Len(p) BY <1>1, <1>4, Members
<1>10. before >= w.from /\ \A m \in Catalog!ToSet(p) : before >= m
  <2>1. CASE p = <<>>
    <3>1. before = w.from BY <2>1
    <3>2. Len(p) = 0 BY <1>1, <2>1, Members
    <3>3. \A m : m \notin Catalog!ToSet(p) BY <1>1, <3>2, Members
    <3> QED BY <1>8, <3>1, <3>3
  <2>2. CASE 1 \in 1..Len(p)
    <3>1. p # <<>> BY <1>1, <2>2, Members
    <3>2. before = p[1] /\ p[1] \in Catalog!ToSet(p) BY <1>1, <2>2, <3>1, Members
    <3>3. before > w.from BY <1>1, <3>2
    <3>4. ASSUME NEW m \in Catalog!ToSet(p) PROVE before >= m
      <4>1. PICK i \in 1..Len(p) : p[i] = m BY <1>1, Members
      <4>2. i = 1 \/ 1 < i BY <1>4
      <4>3. 1 < i => p[1] > p[i] BY <1>1, <2>2, Members
      <4>4. p[i] \in Nat BY <1>1, Members
      <4> QED BY <1>8, <3>2, <4>1, <4>2, <4>3, <4>4
    <3> QED BY <1>8, <3>3, <3>4
  <2> QED BY <1>9, <2>1, <2>2
\* A page lies beyond its cursor.
<1>11. \A m \in Catalog!ToSet(q) : m \in Nat /\ m > before
  <2> SUFFICES ASSUME NEW m \in Catalog!ToSet(q) PROVE m \in Nat /\ m > before
    OBVIOUS
  <2> HIDE DEF q
  <2>1. PICK i \in 1..Len(q) : q[i] = m BY <1>6, Members
  <2>2. PICK k \in b..e : s[k] = m BY <1>6, <2>1
  <2>3. k \in 1..Len(s) /\ k < e + 1 BY <1>4, <1>5
  <2>4. s[k] > s[e + 1] /\ s[k] \in Nat BY <1>5, <2>3, Members
  <2> QED BY <1>8, <2>2, <2>4
<1>12. \A m \in Catalog!ToSet(q), n \in Catalog!ToSet(p) : m > n
  <2> SUFFICES ASSUME NEW m \in Catalog!ToSet(q), NEW n \in Catalog!ToSet(p) PROVE m > n
    OBVIOUS
  <2>1. m \in Nat /\ m > before BY <1>11
  <2>2. n \in Nat /\ before >= n BY <1>1, <1>10, Members, ModelNumbers
  <2> QED BY <1>8, <2>1, <2>2
<1>13. /\ ListOf(got) /\ Len(got) = Len(q) + Len(p)
       /\ Catalog!ToSet(got) = Catalog!ToSet(q) \cup Catalog!ToSet(p)
       /\ \A i \in 1..Len(got) : got[i] = IF i <= Len(q) THEN q[i] ELSE p[i - Len(q)]
  <2>1. ListOf(p) /\ ListOf(q) BY <1>1, <1>6
  <2> HIDE DEF p, q
  <2> QED BY <1>12, <2>1, Join
<1>14. \A m \in Catalog!ToSet(got) : m > w.from
  <2> SUFFICES ASSUME NEW m \in Catalog!ToSet(got) PROVE m > w.from
    OBVIOUS
  <2> HIDE DEF got, p, q
  <2>1. m \in Catalog!ToSet(q) => m \in Nat /\ m > before BY <1>11
  <2>2. m \in Catalog!ToSet(q) => m > w.from BY <1>8, <1>10, <2>1
  <2> QED BY <1>1, <1>13, <2>2
<1> HIDE DEF got, q
\* What lies at or below the b-th model of the list and is in all lists was got.
<1>15. ASSUME NEW m \in w.common, NEW k \in 1..Len(s), s[k] = m, k >= b, m > w.from
       PROVE  m \in Catalog!ToSet(got)
  <2>1. CASE k <= e
    <3>1. k \in b..e BY <1>5, <1>15, <2>1
    <3> QED BY <1>6, <1>13, <1>15, <3>1
  <2>2. CASE k > e
    <3>1. m \in Nat /\ m <= before
      <4>1. s[k] \in Nat /\ s[e + 1] \in Nat BY <1>5, <1>7
      <4>2. k = e + 1 \/ e + 1 < k BY <1>5, <2>2
      <4>3. e + 1 < k => s[e + 1] > s[k] BY <1>5, Members
      <4> QED BY <1>8, <1>15, <4>1, <4>2, <4>3
    <3>2. p # <<>> BY <1>8, <1>15, <3>1
    <3>3. before = p[1] BY <3>2
    <3>4. m \in Catalog!ToSet(p) BY <1>15, <3>1, <3>2, <3>3 DEF Walk
    <3> QED BY <1>13, <3>4
  <2> QED BY <1>5, <2>1, <2>2
<1>16. page.more \in BOOLEAN BY <1>3
<1>17. /\ v \in WalkRecord
       /\ v.to = w.to /\ v.from = w.from /\ v.got = got /\ v.more = page.more
       /\ \A m : m \in v.common <=> m \in w.common /\ m \in Catalog!ToSet(s)
  BY <1>13, <1>16, ServedFields
<1> HIDE DEF v, p
<1>18. ASSUME page.more, NEW m \in v.common, m > w.from, m <= got[1]
       PROVE  m \in Catalog!ToSet(got)
  <2>1. PICK k \in 1..Len(s) : s[k] = m BY <1>17, Members
  <2>2. b <= e BY <1>3, <1>18
  <2>3. 1 \in 1..Len(q) BY <1>5, <1>6, <2>2
  <2>4. got[1] = q[1]
    <3>1. 1 \in 1..Len(got) /\ 1 <= Len(q) BY <1>4, <1>13, <2>3
    <3> QED BY <1>13, <3>1
  <2>5. q[1] = s[b]
    <3>1. b + 1 - 1 = b BY <1>5
    <3> QED BY <1>6, <2>3, <3>1
  <2>6. b \in 1..Len(s) BY <1>4, <1>5, <2>2
  <2>7. k >= b
    <3>1. ASSUME k < b PROVE FALSE
      <4>1. s[k] > s[b] /\ s[b] \in Nat /\ s[k] \in Nat BY <2>6, <3>1, Members
      <4> QED BY <1>18, <2>1, <2>4, <2>5, <4>1
    <3> QED BY <1>5, <3>1
  <2> QED BY <1>15, <1>17, <1>18, <2>1, <2>7
<1>19. ASSUME ~page.more, NEW m \in v.common, m > w.from PROVE m \in Catalog!ToSet(got)
  <2>1. PICK k \in 1..Len(s) : s[k] = m BY <1>17, Members
  <2>2. k >= b BY <1>3, <1>4, <1>19
  <2> QED BY <1>15, <1>17, <1>19, <2>1, <2>2
<1>20. ASSUME ~v.more PROVE Catalog!Beyond(v) \cap v.common \subseteq Catalog!ToSet(v.got)
  <2>1. Catalog!Beyond(v) = {m \in Catalog!Model : m > w.from}
    BY <1>17 DEF Catalog!Beyond
  <2> QED BY <1>17, <1>19, <1>20, <2>1
<1>21. Walk(v) BY <1>1, <1>13, <1>14, <1>17, <1>18, <1>20 DEF Walk
<1> QED BY <1>21 DEF v, got, p, q

\* A walk for one model gets it or finds that it is not there, and has ended.
LEMMA OneServed ==
  ASSUME NEW w, Walk(w), w.to = "one", NEW s, ListOf(s),
         NEW got, got = IF w.from \in Catalog!ToSet(s) THEN <<w.from>> ELSE <<>>,
         NEW more \in BOOLEAN, ~more
  PROVE  Walk(Served(w, s, got, more))
<1> DEFINE v == Served(w, s, got, more)
<1>1. w.from \in Catalog!Model BY DEF Walk
<1>2. got \in Seq(Catalog!Model) /\ Len(got) \in 0..1 BY <1>1
<1>3. ListOf(got) BY <1>2 DEF ListOf, Catalog!Descending
<1>4. w.from \in Catalog!ToSet(s) => w.from \in Catalog!ToSet(got)
  <2> SUFFICES ASSUME w.from \in Catalog!ToSet(s) PROVE w.from \in Catalog!ToSet(got)
    OBVIOUS
  <2>1. 1 \in 1..Len(got) /\ got[1] = w.from OBVIOUS
  <2> QED BY <1>3, <2>1, Members
<1>5. /\ v \in WalkRecord
      /\ v.to = w.to /\ v.from = w.from /\ v.got = got /\ v.more = more
      /\ \A m : m \in v.common <=> m \in w.common /\ m \in Catalog!ToSet(s)
  BY <1>3, ServedFields
<1> HIDE DEF v
<1>6. Catalog!Beyond(v) = {w.from} BY <1>5 DEF Catalog!Beyond
<1>7. Walk(v) BY <1>1, <1>3, <1>4, <1>5, <1>6 DEF Walk
<1> QED BY <1>7 DEF v

\* A call that is served takes its walk on or, when the cursor is refused, ends it.
LEMMA ServeKeepsWalks ==
  ASSUME NEW c \in Client, NEW s, ListOf(s), Walk(walk[c]), walk[c].more,
         walk \in [Client -> WalkRecord \cup {None}], Catalog!Serve(c, s)
  PROVE  /\ walk' \in [Client -> WalkRecord \cup {None}]
         /\ \A d \in Client : d # c => walk'[d] = walk[d]
         /\ walk'[c] # None => Walk(walk'[c])
<1> DEFINE w == walk[c]
           edge == IF w.got = <<>> THEN w.from
                   ELSE IF w.to = "newer" THEN Catalog!Head(w.got) ELSE Catalog!Last(w.got)
           after == IF w.to = "older" THEN edge ELSE 0
           before == IF w.to = "newer" THEN edge ELSE 0
           page == Catalog!pageModels(s, after, before)
           got == CASE w.to = "older" -> w.got \o page.models
                    [] w.to = "newer" -> page.models \o w.got
                    [] w.to = "one" ->
                         IF Catalog!modelIndex(s, w.from) = 0 THEN <<>> ELSE <<w.from>>
           more == w.to # "one" /\ page.more
           v == Served(w, s, got, more)
<1>1. walk' = [walk EXCEPT ![c] = IF Catalog!Refused(s, after, before) THEN None ELSE v]
  BY DEF Catalog!Serve, Catalog!NoModel, Served
<1>2. ListOf(w.got) /\ w \in WalkRecord BY DEF Walk
<1>3. w.to \in {"older", "newer", "one"} BY <1>2 DEF WalkRecord
<1>4. ASSUME ~Catalog!Refused(s, after, before), NEW id \in {after, before}, id # 0
      PROVE  id \in Catalog!ToSet(s)
  <2>1. id \in {after, before} \ {0} BY <1>4
  <2> HIDE DEF after, before
  <2>2. Catalog!Contains(s, id) BY <1>4, <2>1 DEF Catalog!Refused, Catalog!NoModel
  <2> QED BY <2>2, Members
<1>5. ASSUME ~Catalog!Refused(s, after, before) PROVE Walk(v)
  <2>1. CASE w.to = "older"
    <3>1. after = IF w.got = <<>> THEN w.from ELSE w.got[Len(w.got)]
      BY <2>1 DEF Catalog!Last
    <3>2. after # 0 => after \in Catalog!ToSet(s) BY <1>4, <1>5
    <3>3. page = Catalog!pageModels(s, after, 0) BY <2>1
    <3>4. got = w.got \o page.models BY <2>1
    <3>5. page.more \in BOOLEAN
      <4> HIDE DEF page, after
      <4> QED BY <3>2, <3>3, OlderPage
    <3>6. more = page.more BY <2>1, <3>5
    <3> HIDE DEF w, after, before, page, got, more
    <3>7. Walk(Served(w, s, w.got \o page.models, page.more))
      BY <2>1, <3>1, <3>2, <3>3, OlderServed DEF w
    <3> QED BY <3>4, <3>6, <3>7
  <2>2. CASE w.to = "newer"
    <3>1. before = IF w.got = <<>> THEN w.from ELSE w.got[1]
      BY <1>2, <2>2 DEF Walk
    <3>2. before # 0
      <4>1. w.from \in Catalog!Model BY <2>2 DEF Walk
      <4>2. w.got # <<>> => w.got[1] \in Catalog!Model
        <5>1. w.got # <<>> => 1 \in 1..Len(w.got) BY <1>2, Members
        <5> QED BY <1>2, <5>1, Members
      <4> QED BY <3>1, <4>1, <4>2, ModelNumbers
    <3>3. before \in Catalog!ToSet(s) BY <1>4, <1>5, <3>2
    <3>4. page = Catalog!pageModels(s, 0, before) BY <2>2
    <3>5. got = page.models \o w.got BY <2>2
    <3>6. page.more \in BOOLEAN
      <4> HIDE DEF page, before
      <4>1. PICK b, e : EndsBefore(page, s, before, b, e) BY <3>3, <3>4, NewerPage
      <4> QED BY <4>1 DEF EndsBefore
    <3>7. more = page.more BY <2>2, <3>6
    <3> HIDE DEF w, after, before, page, got, more
    <3>8. Walk(Served(w, s, page.models \o w.got, page.more))
      BY <2>2, <3>1, <3>3, <3>4, NewerServed DEF w
    <3> QED BY <3>5, <3>7, <3>8
  <2>3. CASE w.to = "one"
    <3>1. got = IF w.from \in Catalog!ToSet(s) THEN <<w.from>> ELSE <<>>
      BY <2>3, Index
    <3>2. more = FALSE BY <2>3
    <3>3. more \in BOOLEAN /\ ~more BY <3>2
    <3> HIDE DEF w, got, more
    <3> QED BY <2>3, <3>1, <3>3, OneServed DEF w
  <2> QED BY <1>3, <2>1, <2>2, <2>3
<1> HIDE DEF w, after, before, v
<1>6. ~Catalog!Refused(s, after, before) => v \in WalkRecord BY <1>5 DEF Walk
<1>7. walk'[c] = IF Catalog!Refused(s, after, before) THEN None ELSE v BY <1>1
<1> QED BY <1>1, <1>5, <1>6, <1>7

-----------------------------------------------------------------------------
(* Reading.                                                                  *)

\* The last model of a list is the oldest.
LEMMA Oldest ==
  ASSUME NEW s, ListOf(s), s # <<>>
  PROVE  /\ Catalog!Last(s) = s[Len(s)] /\ Len(s) \in 1..Len(s)
         /\ Catalog!Last(s) \in Catalog!Model
         /\ \A m \in Catalog!ToSet(s) : m >= Catalog!Last(s)
<1>1. Len(s) \in 1..Len(s) BY Members
<1>2. Catalog!Last(s) = s[Len(s)] BY DEF Catalog!Last
<1>3. s[Len(s)] \in Catalog!Model /\ s[Len(s)] \in Nat BY <1>1, Members
<1>4. ASSUME NEW m \in Catalog!ToSet(s) PROVE m >= s[Len(s)]
  <2>1. PICK i \in 1..Len(s) : s[i] = m BY Members
  <2>2. i = Len(s) \/ i < Len(s) BY <1>1
  <2>3. i < Len(s) => s[i] > s[Len(s)] BY <1>1, Members
  <2>4. s[i] \in Nat BY Members
  <2> QED BY <1>3, <2>1, <2>2, <2>3, <2>4
<1> QED BY <1>1, <1>2, <1>3, <1>4

\* A page that is read continues the list, and there is a model in what was read.
LEMMA CollectIsList ==
  ASSUME NEW models, ListOf(models), published \in SUBSET Catalog!Model, published # {},
         Catalog!CursorKnown(models)
  PROVE  LET longer == Catalog!Collect(models, Catalog!UpstreamPage(models).models)
         IN  ListOf(longer) /\ longer # <<>>
<1> DEFINE s == Catalog!Newest[published]
           after == IF models = <<>> THEN 0 ELSE Catalog!Last(models)
           page == Catalog!pageModels(s, after, 0)
           news == Catalog!ToSet(page.models) \ Catalog!ToSet(models)
           q == Catalog!Newest[news]
<1>1. Catalog!UpstreamPage(models) = page BY DEF Catalog!UpstreamPage, Catalog!NoModel
<1>2. /\ ListOf(s) /\ \A m \in published : \E i \in DOMAIN s : s[i] = m
      /\ \A i \in DOMAIN s : s[i] \in published
  BY NewestIsList
<1> HIDE DEF s
<1>3. \A m \in published : m \in Catalog!ToSet(s) BY <1>2, Members
<1>4. after # 0 => after \in Catalog!ToSet(s) BY <1>3 DEF Catalog!CursorKnown
<1> HIDE DEF after
<1>5. PICK b \in 0..Len(s) : \E e \in b..Len(s) :
         /\ IF after = 0 THEN b = 0 ELSE b > 0 /\ s[b] = after
         /\ page.models = SubSeq(s, b + 1, e)
         /\ b < Len(s) => e > b
  BY <1>2, <1>4, OlderPage
<1>6. PICK e \in b..Len(s) :
         /\ IF after = 0 THEN b = 0 ELSE b > 0 /\ s[b] = after
         /\ page.models = SubSeq(s, b + 1, e)
         /\ b < Len(s) => e > b
  BY <1>5
<1> HIDE DEF page
<1> DEFINE p == SubSeq(s, b + 1, e)
<1>7. Len(s) \in Nat /\ Len(s) > 0 /\ DOMAIN s = 1..Len(s)
  <2>1. PICK i \in 1..Len(s) : s[i] \in published BY <1>2, Members
  <2> QED BY <1>2, Members
<1>8. /\ b + 1 \in Nat /\ b + 1 > 0 /\ e \in Int /\ e <= Len(s) /\ b + 1 <= e + 1
      /\ b \in Nat
  BY <1>7
<1>9. /\ ListOf(p) /\ Len(p) = e - (b + 1) + 1
      /\ \A i \in 1..Len(p) : p[i] = s[b + 1 + i - 1] /\ b + 1 + i - 1 \in b + 1..e
  BY <1>2, <1>8, Slice
<1>10. page.models = p BY <1>6
<1> HIDE DEF p
<1>11. after = 0 \/ \A m \in Catalog!ToSet(p) : m < after
  <2> SUFFICES ASSUME after # 0, NEW m \in Catalog!ToSet(p) PROVE m < after
    OBVIOUS
  <2>1. PICK i \in 1..Len(p) : p[i] = m BY <1>9, Members
  <2>2. PICK k \in b + 1..e : s[k] = m BY <1>9, <2>1
  <2>3. b \in 1..Len(s) /\ k \in 1..Len(s) /\ b < k /\ s[b] = after BY <1>6, <1>7, <1>8
  <2>4. s[b] > s[k] /\ s[b] \in Nat /\ s[k] \in Nat BY <1>2, <2>3, Members
  <2> QED BY <2>2, <2>3, <2>4
<1>12. news \in SUBSET Catalog!Model BY <1>9, <1>10, Members
<1>13. /\ ListOf(q) /\ \A m \in news : \E i \in DOMAIN q : q[i] = m
       /\ \A i \in DOMAIN q : q[i] \in news
  <2> HIDE DEF news
  <2> QED BY <1>12, NewestIsList
<1>14. \A m \in Catalog!ToSet(q) : m \in Catalog!ToSet(p)
  <2> SUFFICES ASSUME NEW m \in Catalog!ToSet(q) PROVE m \in Catalog!ToSet(p)
    OBVIOUS
  <2> HIDE DEF q
  <2>1. PICK i \in DOMAIN q : q[i] = m BY <1>13, Members
  <2>2. m \in news BY <1>13, <2>1
  <2> QED BY <1>10, <2>2
<1>15. \A m \in Catalog!ToSet(models), n \in Catalog!ToSet(q) : m > n
  <2> SUFFICES ASSUME NEW m \in Catalog!ToSet(models), NEW n \in Catalog!ToSet(q) PROVE m > n
    OBVIOUS
  <2>1. models # <<>>
    <3>1. PICK i \in 1..Len(models) : models[i] = m BY Members
    <3> QED BY <3>1, Members
  <2>2. after = Catalog!Last(models) /\ after \in Nat /\ after # 0 /\ m >= after
    BY <2>1, Oldest, ModelNumbers DEF after
  <2>3. n \in Catalog!ToSet(p) BY <1>14
  <2>4. n \in Nat /\ m \in Nat BY <1>9, <2>3, Members, ModelNumbers
  <2>5. n < after BY <1>11, <2>2, <2>3
  <2> QED BY <2>2, <2>4, <2>5
<1> HIDE DEF q
<1>16. ListOf(models \o q) /\ Len(models \o q) = Len(models) + Len(q) BY <1>13, <1>15, Join
<1>17. models \o q # <<>>
  <2>1. CASE models # <<>>
    <3>1. Len(models) \in Nat /\ Len(models) # 0 /\ Len(q) \in Nat BY <1>13, <2>1, Members
    <3>2. Len(models \o q) # 0 BY <1>16, <3>1
    <3> QED BY <1>16, <3>2, Members
  <2>2. CASE models = <<>>
    <3>1. b = 0 BY <1>6, <2>2 DEF after
    <3>2. e > 0 BY <1>6, <1>7, <3>1
    <3>3. 1 \in 1..Len(p) BY <1>8, <1>9, <3>1, <3>2
    <3>4. p[1] \in Catalog!ToSet(p) BY <1>9, <3>3, Members
    <3>5. Len(models) = 0 BY <2>2
    <3>6. p[1] \notin Catalog!ToSet(models) BY <3>5, Members
    <3>7. p[1] \in news BY <1>10, <3>4, <3>6
    <3>8. PICK i \in DOMAIN q : q[i] = p[1] BY <1>13, <3>7
    <3>9. Len(q) \in Nat /\ i \in 1..Len(q) BY <1>13, <3>8, Members
    <3>10. Len(models \o q) # 0 BY <1>16, <3>5, <3>9
    <3> QED BY <1>16, <3>10, Members
  <2> QED BY <2>1, <2>2
<1>18. Catalog!Collect(models, page.models) = models \o q BY DEF Catalog!Collect, q
<1> QED BY <1>1, <1>16, <1>17, <1>18

-----------------------------------------------------------------------------
(* The inductive invariant of the catalogue.                                 *)

ReadRecord == [left : 0..2, pages : 0..MaxPages, models : Seq(Catalog!Model)]

CatalogTypes ==
  /\ published \in SUBSET Catalog!Model /\ usable \in [Access -> 0..2]
  /\ trouble \in BOOLEAN /\ changes \in 0..MaxChanges
  /\ entries \in [Access -> Seq(Catalog!Model)] /\ fresh \in [Access -> BOOLEAN]
  /\ failedAt \in [Access -> {"none", "recent", "old"}] /\ lastErr \in [Access -> BOOLEAN]
  /\ inflight \in [Access -> BOOLEAN] /\ read \in [Access -> ReadRecord \cup {None}]
  /\ pc \in [Client -> {"idle", "wait", "again"}] /\ policy \in [Client -> Access]
  /\ walk \in [Client -> WalkRecord \cup {None}]
  /\ answer \in [Client -> {"none", "list", "error"}]

\* What is cached is a list, there is one when it is fresh, and a failure that holds the
\* next read back is told of.
Cached(a) ==
  /\ ListOf(entries[a])
  /\ fresh[a] => entries[a] # <<>>
  /\ failedAt[a] = "recent" => lastErr[a]
\* A goroutine has its channel on record and a list so far.
Reading(a) == read[a] # None => inflight[a] /\ ListOf(read[a].models)
\* A call belongs to a walk that goes on; when it looks again there is a list or an error.
Waiting(c) ==
  /\ walk[c] # None => Walk(walk[c])
  /\ pc[c] # "idle" => walk[c] # None /\ walk[c].more
  /\ pc[c] = "again" => entries[policy[c]] # <<>> \/ lastErr[policy[c]]

CatalogInv ==
  /\ CatalogTypes
  /\ \A a \in Access : Cached(a) /\ Reading(a)
  /\ \A c \in Client : Waiting(c)

LEMMA EmptyList == ListOf(<<>>)
BY DEF ListOf, Catalog!Descending

LEMMA CatalogInit == Catalog!Init => CatalogInv
<1> SUFFICES ASSUME Catalog!Init PROVE CatalogInv
  OBVIOUS
<1> USE DEF Catalog!Init
<1>1. CatalogTypes
  <2>1. published \in SUBSET Catalog!Model BY ModelNumbers DEF Catalog!Model
  <2>2. 0 \in 0..MaxChanges BY ModelNumbers
  <2>3. <<>> \in Seq(Catalog!Model) OBVIOUS
  <2>4. /\ usable \in [Access -> 0..2] /\ trouble \in BOOLEAN /\ changes \in 0..MaxChanges
        /\ fresh \in [Access -> BOOLEAN] /\ lastErr \in [Access -> BOOLEAN]
        /\ inflight \in [Access -> BOOLEAN]
    <3>1. usable \in [Access -> 0..2] OBVIOUS
    <3>2. trouble \in BOOLEAN OBVIOUS
    <3>3. changes \in 0..MaxChanges BY <2>2
    <3>4. fresh \in [Access -> BOOLEAN] OBVIOUS
    <3>5. lastErr \in [Access -> BOOLEAN] OBVIOUS
    <3>6. inflight \in [Access -> BOOLEAN] OBVIOUS
    <3> QED BY <3>1, <3>2, <3>3, <3>4, <3>5, <3>6
  <2>5. /\ entries \in [Access -> Seq(Catalog!Model)]
        /\ failedAt \in [Access -> {"none", "recent", "old"}]
        /\ read \in [Access -> ReadRecord \cup {None}]
    BY <2>3
  <2>6. /\ pc \in [Client -> {"idle", "wait", "again"}] /\ policy \in [Client -> Access]
        /\ walk \in [Client -> WalkRecord \cup {None}]
        /\ answer \in [Client -> {"none", "list", "error"}]
    OBVIOUS
  <2> QED BY <2>1, <2>4, <2>5, <2>6 DEF CatalogTypes
<1>2. \A a \in Access : Cached(a) /\ Reading(a) BY EmptyList DEF Cached, Reading
<1>3. \A c \in Client : Waiting(c) BY DEF Waiting
<1> QED BY <1>1, <1>2, <1>3 DEF CatalogInv

\* The world and the callers change the catalogue in nothing.
LEMMA BeginKeeps ==
  ASSUME CatalogInv, NEW c \in Client, Catalog!Begin(c) PROVE CatalogInv'
<1> USE DEF Catalog!Begin, Catalog!world, Catalog!catalog
<1>1. PICK to \in {"older", "newer", "one"}, id \in Catalog!Model :
        walk' = [walk EXCEPT ![c] = [to |-> to, from |-> IF to = "older" THEN Catalog!NoModel ELSE id,
                                     got |-> <<>>, common |-> Catalog!Model, more |-> TRUE]]
  OBVIOUS
<1> DEFINE w == [to |-> to, from |-> IF to = "older" THEN Catalog!NoModel ELSE id,
                 got |-> <<>>, common |-> Catalog!Model, more |-> TRUE]
<1>2. w \in WalkRecord BY DEF WalkRecord, Catalog!NoModel
<1>3. Walk(w)
  <2>1. Catalog!ToSet(<<>>) = {} BY DEF Catalog!ToSet
  <2>2. IF w.to = "older" THEN w.from = 0 ELSE w.from \in Catalog!Model BY DEF Catalog!NoModel
  <2>3. ListOf(w.got) /\ w.got = <<>> /\ w.more BY EmptyList
  <2> HIDE DEF w
  <2> QED BY <1>2, <2>1, <2>2, <2>3 DEF Walk
<1> HIDE DEF w
<1>4. walk \in [Client -> WalkRecord \cup {None}] BY DEF CatalogInv, CatalogTypes
<1>5. walk' = [walk EXCEPT ![c] = w] BY <1>1 DEF w
<1>6. walk' \in [Client -> WalkRecord \cup {None}] /\ walk'[c] = w
      /\ \A d \in Client : d # c => walk'[d] = walk[d]
  BY <1>2, <1>4, <1>5
<1>7. CatalogTypes' BY <1>6 DEF CatalogInv, CatalogTypes
<1>8. \A a \in Access : Cached(a)' /\ Reading(a)' BY DEF CatalogInv, Cached, Reading
<1>9. \A d \in Client : Waiting(d)'
  <2> SUFFICES ASSUME NEW d \in Client PROVE Waiting(d)'
    OBVIOUS
  <2>1. CASE d = c BY <1>3, <1>6, <2>1 DEF CatalogInv, Waiting
  <2>2. CASE d # c BY <1>6, <2>2 DEF CatalogInv, Waiting
  <2> QED BY <2>1, <2>2
<1> QED BY <1>7, <1>8, <1>9 DEF CatalogInv

\* Serving a list that is there, or one of no models while a read has failed.
LEMMA ServeStep ==
  ASSUME CatalogInv, NEW c \in Client, NEW s, ListOf(s), s # <<>>, Catalog!Serve(c, s),
         walk[c] # None, walk[c].more
  PROVE  /\ walk' \in [Client -> WalkRecord \cup {None}]
         /\ answer' \in [Client -> {"none", "list", "error"}]
         /\ pc' \in [Client -> {"idle", "wait", "again"}]
         /\ \A d \in Client : d # c => walk'[d] = walk[d] /\ pc'[d] = pc[d]
         /\ pc'[c] = "idle" /\ (walk'[c] # None => Walk(walk'[c]))
<1>1. /\ walk \in [Client -> WalkRecord \cup {None}] /\ Walk(walk[c])
      /\ answer \in [Client -> {"none", "list", "error"}]
      /\ pc \in [Client -> {"idle", "wait", "again"}]
  BY DEF CatalogInv, CatalogTypes, Waiting
<1>2. /\ answer' = [answer EXCEPT ![c] = IF s = <<>> THEN "nothing" ELSE "list"]
      /\ pc' = [pc EXCEPT ![c] = "idle"]
  BY DEF Catalog!Serve
<1>3. /\ walk' \in [Client -> WalkRecord \cup {None}]
      /\ \A d \in Client : d # c => walk'[d] = walk[d]
      /\ walk'[c] # None => Walk(walk'[c])
  BY <1>1, ServeKeepsWalks
<1> QED BY <1>1, <1>2, <1>3

\* A step that leaves the lists and goroutines alone and answers, begins or drops calls
\* keeps the invariant when the calls it leaves waiting may wait.
LEMMA CatalogUntouched ==
  ASSUME CatalogInv, UNCHANGED <<entries, fresh, failedAt, lastErr, inflight, read>>
  PROVE  \A a \in Access : Cached(a)' /\ Reading(a)'
BY DEF CatalogInv, Cached, Reading

LEMMA CallersUntouched ==
  ASSUME CatalogInv, UNCHANGED <<pc, policy, walk>>,
         \A a \in Access : entries[a] # <<>> \/ lastErr[a] => entries'[a] # <<>> \/ lastErr'[a]
  PROVE  \A c \in Client : Waiting(c)'
<1> SUFFICES ASSUME NEW c \in Client PROVE Waiting(c)'
  OBVIOUS
<1>1. policy[c] \in Access /\ Waiting(c) BY DEF CatalogInv, CatalogTypes
<1> QED BY <1>1 DEF Waiting

\* The goroutine starts with no models.
LEMMA Asked == ASSUME CatalogConstants, NEW n \in 0..2
  PROVE Catalog!Asking(n) \in ReadRecord /\ ListOf(Catalog!Asking(n).models)
BY ModelNumbers, EmptyList DEF Catalog!Asking, ReadRecord

LEMMA ReadStarts ==
  ASSUME CatalogInv, NEW a \in Access, Catalog!refreshLocked(a), UNCHANGED lastErr,
         failedAt' \in {failedAt, [failedAt EXCEPT ![a] = "none"]}
  PROVE  /\ inflight' \in [Access -> BOOLEAN] /\ read' \in [Access -> ReadRecord \cup {None}]
         /\ failedAt' \in [Access -> {"none", "recent", "old"}]
         /\ inflight'[a] /\ \A b \in Access : Cached(b)' /\ Reading(b)'
<1> USE DEF Catalog!refreshLocked
<1>1. Catalog!Asking(0) \in ReadRecord /\ ListOf(Catalog!Asking(0).models)
  BY CatalogConstants, Asked
<1>2. inflight' = [inflight EXCEPT ![a] = TRUE] /\ read' = [read EXCEPT ![a] = Catalog!Asking(0)]
  OBVIOUS
<1>3. /\ inflight \in [Access -> BOOLEAN] /\ read \in [Access -> ReadRecord \cup {None}]
      /\ failedAt \in [Access -> {"none", "recent", "old"}]
  BY DEF CatalogInv, CatalogTypes
<1>4. inflight' \in [Access -> BOOLEAN] /\ inflight'[a] BY <1>2, <1>3
<1>5. read' \in [Access -> ReadRecord \cup {None}] BY <1>1, <1>2, <1>3
<1>6. failedAt' \in [Access -> {"none", "recent", "old"}] BY <1>3
<1>7. \A b \in Access : Cached(b)' BY <1>3 DEF CatalogInv, Cached
<1>8. \A b \in Access : Reading(b)' BY <1>1, <1>2, <1>3 DEF CatalogInv, Reading
<1> QED BY <1>4, <1>5, <1>6, <1>7, <1>8

LEMMA ListKeeps ==
  ASSUME CatalogInv, NEW c \in Client, Catalog!List(c) PROVE CatalogInv'
<1> DEFINE a == policy[c]
<1> USE DEF Catalog!List, Catalog!world, Catalog!catalog
<1>1. /\ pc[c] = "idle" /\ walk[c] # None /\ walk[c].more
      /\ UNCHANGED <<published, usable, trouble, changes, policy>>
      /\ \/ ~fresh[a] /\ Catalog!Starts(a) /\ Catalog!refreshLocked(a) /\ UNCHANGED <<failedAt, lastErr>>
         \/ ~(~fresh[a] /\ Catalog!Starts(a)) /\ UNCHANGED <<entries, fresh, failedAt, lastErr, inflight, read>>
      /\ UNCHANGED <<entries, fresh, failedAt, lastErr>>
  BY DEF Catalog!refreshLocked
<1>2. a \in Access /\ CatalogTypes /\ Cached(a) BY DEF CatalogInv, CatalogTypes
<1>3. /\ inflight' \in [Access -> BOOLEAN] /\ read' \in [Access -> ReadRecord \cup {None}]
      /\ \A b \in Access : Cached(b)' /\ Reading(b)'
  <2>1. CASE Catalog!refreshLocked(a) BY <1>1, <1>2, <2>1, ReadStarts
  <2>2. CASE UNCHANGED <<entries, fresh, failedAt, lastErr, inflight, read>>
    BY <1>2, <2>2, CatalogUntouched DEF CatalogTypes
  <2> QED BY <1>1, <2>1, <2>2
<1>4. /\ walk' \in [Client -> WalkRecord \cup {None}]
      /\ answer' \in [Client -> {"none", "list", "error"}]
      /\ pc' \in [Client -> {"idle", "wait", "again"}]
      /\ \A d \in Client : d # c => walk'[d] = walk[d] /\ pc'[d] = pc[d]
      /\ walk'[c] # None => Walk(walk'[c])
      /\ pc'[c] # "idle" => walk'[c] # None /\ walk'[c].more
      /\ pc'[c] = "again" => lastErr[a]
  <2>1. CASE entries[a] # <<>>
    <3>1. Catalog!Serve(c, entries[a]) BY <2>1
    <3> QED BY <1>1, <1>2, <2>1, <3>1, ServeStep DEF Cached
  <2>2. CASE entries[a] = <<>>
    <3>1. /\ pc' = [pc EXCEPT ![c] = IF inflight'[a] THEN "wait" ELSE "again"]
          /\ UNCHANGED <<walk, answer>>
      BY <2>2
    <3>2. ASSUME ~inflight'[a] PROVE lastErr[a]
      <4>1. ~Catalog!refreshLocked(a)
        <5>1. ASSUME Catalog!refreshLocked(a) PROVE inflight'[a]
          BY <1>2, <5>1 DEF Catalog!refreshLocked, CatalogTypes
        <5> QED BY <3>2, <5>1
      <4>2. ~(~fresh[a] /\ Catalog!Starts(a)) /\ inflight' = inflight BY <1>1, <4>1
      <4>3. ~fresh[a] BY <1>2, <2>2 DEF Cached
      <4>4. failedAt[a] = "recent" BY <3>2, <4>2, <4>3 DEF Catalog!Starts
      <4> QED BY <1>2, <4>4 DEF Cached
    <3>3. Waiting(c) BY DEF CatalogInv
    <3> QED BY <1>1, <1>2, <3>1, <3>2, <3>3 DEF CatalogTypes, Waiting
  <2> QED BY <2>1, <2>2
<1>5. CatalogTypes' BY <1>1, <1>2, <1>3, <1>4 DEF CatalogTypes
<1>6. \A d \in Client : Waiting(d)'
  <2> SUFFICES ASSUME NEW d \in Client PROVE Waiting(d)'
    OBVIOUS
  <2>1. CASE d = c BY <1>1, <1>4, <2>1 DEF Waiting
  <2>2. CASE d # c
    <3>1. Waiting(d) BY DEF CatalogInv
    <3> QED BY <1>1, <1>4, <2>2, <3>1 DEF Waiting
  <2> QED BY <2>1, <2>2
<1> QED BY <1>3, <1>5, <1>6 DEF CatalogInv

LEMMA GiveUpKeeps ==
  ASSUME CatalogInv, NEW c \in Client, Catalog!GiveUp(c) \/ Catalog!modelListError(c),
         UNCHANGED <<Catalog!world, Catalog!catalog, policy>>
  PROVE  CatalogInv'
<1> USE DEF Catalog!world, Catalog!catalog
<1>1. Catalog!modelListError(c) BY DEF Catalog!GiveUp
<1>2. /\ walk \in [Client -> WalkRecord \cup {None}] /\ pc \in [Client -> {"idle", "wait", "again"}]
      /\ answer \in [Client -> {"none", "list", "error"}]
  BY DEF CatalogInv, CatalogTypes
<1>3. /\ walk' \in [Client -> WalkRecord \cup {None}] /\ pc' \in [Client -> {"idle", "wait", "again"}]
      /\ answer' \in [Client -> {"none", "list", "error"}]
      /\ walk'[c] = None /\ pc'[c] = "idle"
      /\ \A d \in Client : d # c => walk'[d] = walk[d] /\ pc'[d] = pc[d]
  BY <1>1, <1>2 DEF Catalog!modelListError
<1>4. CatalogTypes' BY <1>3 DEF CatalogInv, CatalogTypes
<1>5. \A a \in Access : Cached(a)' /\ Reading(a)' BY CatalogUntouched
<1>6. \A d \in Client : Waiting(d)'
  <2> SUFFICES ASSUME NEW d \in Client PROVE Waiting(d)'
    OBVIOUS
  <2>1. CASE d = c BY <1>3, <2>1 DEF Waiting
  <2>2. CASE d # c BY <1>3, <2>2 DEF CatalogInv, Waiting
  <2> QED BY <2>1, <2>2
<1> QED BY <1>4, <1>5, <1>6 DEF CatalogInv

LEMMA ListAgainKeeps ==
  ASSUME CatalogInv, NEW c \in Client, Catalog!ListAgain(c) PROVE CatalogInv'
<1> DEFINE a == policy[c]
<1>1. /\ pc[c] = "again" /\ UNCHANGED <<Catalog!world, Catalog!catalog, policy>>
      /\ \/ entries[a] = <<>> /\ lastErr[a] /\ Catalog!modelListError(c)
         \/ ~(entries[a] = <<>> /\ lastErr[a]) /\ Catalog!Serve(c, entries[a])
  BY DEF Catalog!ListAgain
<1>2. Waiting(c) /\ a \in Access /\ Cached(a) BY DEF CatalogInv, CatalogTypes
<1>3. CASE Catalog!modelListError(c) BY <1>1, <1>3, GiveUpKeeps
<1>4. CASE ~(entries[a] = <<>> /\ lastErr[a]) /\ Catalog!Serve(c, entries[a])
  <2>1. entries[a] # <<>> BY <1>1, <1>2, <1>4 DEF Waiting
  <2>2. walk[c] # None /\ walk[c].more BY <1>1, <1>2 DEF Waiting
  <2>3. /\ walk' \in [Client -> WalkRecord \cup {None}]
        /\ answer' \in [Client -> {"none", "list", "error"}]
        /\ pc' \in [Client -> {"idle", "wait", "again"}]
        /\ \A d \in Client : d # c => walk'[d] = walk[d] /\ pc'[d] = pc[d]
        /\ pc'[c] = "idle" /\ (walk'[c] # None => Walk(walk'[c]))
    BY <1>2, <1>4, <2>1, <2>2, ServeStep DEF Cached
  <2> USE <1>1 DEF Catalog!world, Catalog!catalog
  <2>4. CatalogTypes' BY <2>3 DEF CatalogInv, CatalogTypes
  <2>5. \A b \in Access : Cached(b)' /\ Reading(b)' BY CatalogUntouched
  <2>6. \A d \in Client : Waiting(d)'
    <3> SUFFICES ASSUME NEW d \in Client PROVE Waiting(d)'
      OBVIOUS
    <3>1. CASE d = c BY <2>3, <3>1 DEF Waiting
    <3>2. CASE d # c BY <2>3, <3>2 DEF CatalogInv, Waiting
    <3> QED BY <3>1, <3>2
  <2> QED BY <2>4, <2>5, <2>6 DEF CatalogInv
<1> QED BY <1>1, <1>3, <1>4

LEMMA ForceKeeps ==
  ASSUME CatalogInv, NEW a \in Access, Catalog!forceRefresh(a) PROVE CatalogInv'
<1> USE DEF Catalog!forceRefresh, Catalog!world, Catalog!clients
<1>1. /\ failedAt' = [failedAt EXCEPT ![a] = "none"]
      /\ UNCHANGED <<published, usable, trouble, changes, lastErr, entries, fresh, pc, policy, walk, answer>>
      /\ UNCHANGED <<inflight, read>> \/ Catalog!refreshLocked(a)
  BY DEF Catalog!refreshLocked
<1>2. CatalogTypes BY DEF CatalogInv
<1>3. /\ inflight' \in [Access -> BOOLEAN] /\ read' \in [Access -> ReadRecord \cup {None}]
      /\ failedAt' \in [Access -> {"none", "recent", "old"}]
      /\ \A b \in Access : Cached(b)' /\ Reading(b)'
  <2>1. CASE Catalog!refreshLocked(a) BY <1>1, <2>1, ReadStarts
  <2>2. CASE UNCHANGED <<inflight, read>>
    <3>1. failedAt' \in [Access -> {"none", "recent", "old"}] BY <1>1, <1>2 DEF CatalogTypes
    <3>2. \A b \in Access : failedAt'[b] = "recent" => failedAt[b] = "recent"
      BY <1>1, <1>2 DEF CatalogTypes
    <3> QED BY <1>1, <1>2, <2>2, <3>1, <3>2 DEF CatalogInv, CatalogTypes, Cached, Reading
  <2> QED BY <1>1, <2>1, <2>2
<1>4. CatalogTypes' BY <1>1, <1>2, <1>3 DEF CatalogTypes
<1>5. \A c \in Client : Waiting(c)' BY <1>1, CallersUntouched
<1> QED BY <1>3, <1>4, <1>5 DEF CatalogInv

\* A read that ends leaves a list or an error to those who wait for it.
LEMMA EndKeeps ==
  ASSUME CatalogInv, NEW a \in Access, Catalog!End(a),
         entries' \in [Access -> Seq(Catalog!Model)], fresh' \in [Access -> BOOLEAN],
         failedAt' \in [Access -> {"none", "recent", "old"}], lastErr' \in [Access -> BOOLEAN],
         \A b \in Access : b # a => /\ entries'[b] = entries[b] /\ fresh'[b] = fresh[b]
                                    /\ failedAt'[b] = failedAt[b] /\ lastErr'[b] = lastErr[b],
         Cached(a)', entries'[a] # <<>> \/ lastErr'[a]
  PROVE  CatalogInv'
<1> USE DEF Catalog!End, Catalog!world
<1>1. CatalogTypes BY DEF CatalogInv
<1>2. /\ inflight' = [inflight EXCEPT ![a] = FALSE] /\ read' = [read EXCEPT ![a] = None]
      /\ pc' = [c \in Client |-> IF pc[c] = "wait" /\ policy[c] = a THEN "again" ELSE pc[c]]
      /\ UNCHANGED <<published, usable, trouble, changes, policy, walk, answer>>
  OBVIOUS
<1>3. /\ inflight' \in [Access -> BOOLEAN] /\ read' \in [Access -> ReadRecord \cup {None}]
      /\ pc' \in [Client -> {"idle", "wait", "again"}]
  BY <1>1, <1>2 DEF CatalogTypes
<1>4. CatalogTypes' BY <1>1, <1>2, <1>3 DEF CatalogTypes
<1>5. \A b \in Access : Cached(b)' /\ Reading(b)'
  <2> SUFFICES ASSUME NEW b \in Access PROVE Cached(b)' /\ Reading(b)'
    OBVIOUS
  <2>1. CASE b = a
    <3>1. read'[a] = None BY <1>1, <1>2 DEF CatalogTypes
    <3> QED BY <2>1, <3>1 DEF Reading
  <2>2. CASE b # a
    <3>1. read'[b] = read[b] /\ inflight'[b] = inflight[b] BY <1>1, <1>2, <2>2 DEF CatalogTypes
    <3>2. Cached(b) /\ Reading(b) BY DEF CatalogInv
    <3> QED BY <2>2, <3>1, <3>2 DEF Cached, Reading
  <2> QED BY <2>1, <2>2
<1>6. \A c \in Client : Waiting(c)'
  <2> SUFFICES ASSUME NEW c \in Client PROVE Waiting(c)'
    OBVIOUS
  <2>1. Waiting(c) /\ policy[c] \in Access BY <1>1 DEF CatalogInv, CatalogTypes
  <2>2. CASE policy[c] = a
    <3>1. pc'[c] # "idle" => pc[c] # "idle" BY <1>2
    <3> QED BY <1>2, <2>1, <2>2, <3>1 DEF Waiting
  <2>3. CASE policy[c] # a
    <3>1. pc'[c] = pc[c] BY <1>2, <2>3
    <3> QED BY <1>2, <2>1, <2>3, <3>1 DEF Waiting
  <2> QED BY <2>2, <2>3
<1> QED BY <1>4, <1>5, <1>6 DEF CatalogInv

\* The goroutine goes on with what it has read.
LEMMA ReadKeeps ==
  ASSUME CatalogInv, NEW a \in Access, NEW r \in ReadRecord, ListOf(r.models), inflight[a],
         read' = [read EXCEPT ![a] = r],
         UNCHANGED <<published, usable, trouble, changes, entries, fresh, failedAt, lastErr, inflight,
                     pc, policy, walk, answer>>
  PROVE  CatalogInv'
<1>1. CatalogTypes BY DEF CatalogInv
<1>2. /\ read' \in [Access -> ReadRecord \cup {None}] /\ read'[a] = r
      /\ \A b \in Access : b # a => read'[b] = read[b]
  BY <1>1 DEF CatalogTypes
<1>3. CatalogTypes' BY <1>1, <1>2 DEF CatalogTypes
<1>4. \A b \in Access : Cached(b)' /\ Reading(b)'
  <2> SUFFICES ASSUME NEW b \in Access PROVE Cached(b)' /\ Reading(b)'
    OBVIOUS
  <2>1. Cached(b) /\ Reading(b) BY DEF CatalogInv
  <2>2. CASE b = a BY <1>2, <2>1, <2>2 DEF Cached, Reading
  <2>3. CASE b # a BY <1>2, <2>1, <2>3 DEF Cached, Reading
  <2> QED BY <2>2, <2>3
<1>5. \A c \in Client : Waiting(c)' BY CallersUntouched
<1> QED BY <1>3, <1>4, <1>5 DEF CatalogInv

LEMMA FetchKeeps ==
  ASSUME CatalogInv, NEW a \in Access, Catalog!fetchModelCatalog(a) PROVE CatalogInv'
<1> USE DEF Catalog!fetchModelCatalog, Catalog!world, Catalog!clients
<1>1. CatalogTypes /\ Cached(a) /\ Reading(a) /\ read[a] # None BY DEF CatalogInv
<1>2. CASE usable[a] > 0 /\ Catalog!StartRead(a)
  <2>1. usable[a] \in 0..2 BY <1>1 DEF CatalogTypes
  <2> DEFINE r == Catalog!Asking(usable[a])
  <2>2. r \in ReadRecord /\ ListOf(r.models) BY <2>1, CatalogConstants, Asked
  <2>3. /\ read' = [read EXCEPT ![a] = r]
        /\ UNCHANGED <<published, usable, trouble, changes, entries, fresh, failedAt, lastErr,
                       inflight, pc, policy, walk, answer>>
    BY <1>2 DEF Catalog!StartRead
  <2>4. inflight[a] BY <1>1 DEF Reading
  <2> HIDE DEF r
  <2> QED BY <2>2, <2>3, <2>4, ReadKeeps
<1>3. CASE Catalog!End(a) /\ lastErr' = [lastErr EXCEPT ![a] = TRUE] /\ UNCHANGED <<entries, fresh, failedAt>>
  <2>1. /\ lastErr' \in [Access -> BOOLEAN] /\ lastErr'[a]
        /\ \A b \in Access : b # a => lastErr'[b] = lastErr[b]
    BY <1>1, <1>3 DEF CatalogTypes
  <2>2. Cached(a)' BY <1>1, <1>3, <2>1 DEF Cached
  <2> QED BY <1>1, <1>3, <2>1, <2>2, EndKeeps DEF CatalogTypes
<1> QED BY <1>2, <1>3

LEMMA ReadUpstreamKeeps ==
  ASSUME CatalogInv, NEW a \in Access, Catalog!readUpstreamModels(a) PROVE CatalogInv'
<1> USE DEF Catalog!world, Catalog!clients
<1> DEFINE page == Catalog!UpstreamPage(read[a].models)
           models == Catalog!Collect(read[a].models, page.models)
           pages == read[a].pages + 1
<1>1. /\ read[a] # None /\ published # {} /\ Catalog!CursorKnown(read[a].models)
      /\ \/ /\ page.more /\ pages < MaxPages
            /\ read' = [read EXCEPT ![a].pages = pages, ![a].models = models]
            /\ UNCHANGED <<published, usable, trouble, changes, entries, fresh, failedAt, lastErr,
                           inflight, pc, policy, walk, answer>>
         \/ Catalog!Store(a, models)
  BY DEF Catalog!readUpstreamModels
<1>2. CatalogTypes /\ Reading(a) BY DEF CatalogInv
<1>3. ListOf(read[a].models) /\ inflight[a] BY <1>1, <1>2 DEF Reading
<1>4. ListOf(models) /\ models # <<>> BY <1>1, <1>2, <1>3, CollectIsList DEF CatalogTypes
<1> HIDE DEF models, page
<1>5. CASE /\ pages < MaxPages
           /\ read' = [read EXCEPT ![a].pages = pages, ![a].models = models]
           /\ UNCHANGED <<published, usable, trouble, changes, entries, fresh, failedAt, lastErr,
                          inflight, pc, policy, walk, answer>>
  <2> DEFINE r == [[read[a] EXCEPT !.pages = pages] EXCEPT !.models = models]
  <2>1. read[a] \in ReadRecord BY <1>1, <1>2 DEF CatalogTypes
  <2>2. models \in Seq(Catalog!Model) BY <1>4 DEF ListOf
  <2>3. pages \in 0..MaxPages BY <1>5, <2>1, ModelNumbers DEF ReadRecord
  <2>4. r \in ReadRecord /\ r.models = models
    <3> HIDE DEF pages
    <3> QED BY <2>1, <2>2, <2>3 DEF ReadRecord
  <2>5. read' = [read EXCEPT ![a] = r] BY <1>2, <1>5, <2>1 DEF CatalogTypes
  <2> HIDE DEF r, pages
  <2> QED BY <1>3, <1>4, <1>5, <2>4, <2>5, ReadKeeps
<1>6. CASE Catalog!Store(a, models)
  <2>1. /\ entries' = [entries EXCEPT ![a] = models] /\ fresh' = [fresh EXCEPT ![a] = TRUE]
        /\ failedAt' = [failedAt EXCEPT ![a] = "none"] /\ lastErr' = [lastErr EXCEPT ![a] = FALSE]
        /\ Catalog!End(a)
    BY <1>6 DEF Catalog!Store
  <2>2. models \in Seq(Catalog!Model) BY <1>4 DEF ListOf
  <2>3. /\ entries' \in [Access -> Seq(Catalog!Model)] /\ fresh' \in [Access -> BOOLEAN]
        /\ failedAt' \in [Access -> {"none", "recent", "old"}] /\ lastErr' \in [Access -> BOOLEAN]
        /\ \A b \in Access : b # a => /\ entries'[b] = entries[b] /\ fresh'[b] = fresh[b]
                                      /\ failedAt'[b] = failedAt[b] /\ lastErr'[b] = lastErr[b]
        /\ entries'[a] = models /\ failedAt'[a] = "none"
    BY <1>2, <2>1, <2>2 DEF CatalogTypes
  <2>4. Cached(a)' BY <1>4, <2>3 DEF Cached
  <2> QED BY <1>4, <2>1, <2>3, <2>4, EndKeeps
<1> QED BY <1>1, <1>5, <1>6

LEMMA ReadFailsKeeps ==
  ASSUME CatalogInv, NEW a \in Access, Catalog!ReadFails(a) PROVE CatalogInv'
<1> USE DEF Catalog!ReadFails, Catalog!world, Catalog!clients
<1>1. CatalogTypes /\ Cached(a) /\ Reading(a) /\ read[a] # None BY DEF CatalogInv
<1>2. read[a] \in ReadRecord BY <1>1 DEF CatalogTypes
<1>3. CASE read[a].left > 1
  <2> DEFINE r == Catalog!Asking(read[a].left - 1)
  <2>1. read[a].left - 1 \in 0..2 BY <1>2, <1>3 DEF ReadRecord
  <2>2. r \in ReadRecord /\ ListOf(r.models) BY <2>1, CatalogConstants, Asked
  <2>3. /\ read' = [read EXCEPT ![a] = r]
        /\ UNCHANGED <<published, usable, trouble, changes, entries, fresh, failedAt, lastErr,
                       inflight, pc, policy, walk, answer>>
    BY <1>3
  <2>4. inflight[a] BY <1>1 DEF Reading
  <2> HIDE DEF r
  <2> QED BY <2>2, <2>3, <2>4, ReadKeeps
<1>4. CASE ~(read[a].left > 1)
  <2>1. /\ Catalog!End(a) /\ failedAt' = [failedAt EXCEPT ![a] = "recent"]
        /\ lastErr' = [lastErr EXCEPT ![a] = TRUE] /\ UNCHANGED <<entries, fresh>>
    BY <1>4
  <2>2. /\ lastErr' \in [Access -> BOOLEAN] /\ lastErr'[a]
        /\ failedAt' \in [Access -> {"none", "recent", "old"}]
        /\ \A b \in Access : b # a => lastErr'[b] = lastErr[b] /\ failedAt'[b] = failedAt[b]
    BY <1>1, <2>1 DEF CatalogTypes
  <2>3. Cached(a)' BY <1>1, <2>1, <2>2 DEF Cached
  <2> QED BY <1>1, <2>1, <2>2, <2>3, EndKeeps DEF CatalogTypes
<1> QED BY <1>3, <1>4

LEMMA ClockKeeps ==
  ASSUME CatalogInv, NEW a \in Access, Catalog!Expire(a) \/ Catalog!RetryDelayEnds(a)
  PROVE  CatalogInv'
<1> USE DEF Catalog!Expire, Catalog!RetryDelayEnds, Catalog!world, Catalog!clients
<1>1. /\ UNCHANGED <<published, usable, trouble, changes, entries, lastErr, inflight, read,
                     pc, policy, walk, answer>>
      /\ \/ fresh' = [fresh EXCEPT ![a] = FALSE] /\ UNCHANGED failedAt
         \/ failedAt' = [failedAt EXCEPT ![a] = "old"] /\ UNCHANGED fresh
  OBVIOUS
<1>2. CatalogTypes BY DEF CatalogInv
<1>3. fresh' \in [Access -> BOOLEAN] /\ failedAt' \in [Access -> {"none", "recent", "old"}]
  BY <1>1, <1>2 DEF CatalogTypes
<1>4. CatalogTypes' BY <1>1, <1>2, <1>3 DEF CatalogTypes
<1>5. \A b \in Access : Cached(b)' /\ Reading(b)'
  <2> SUFFICES ASSUME NEW b \in Access PROVE Cached(b)' /\ Reading(b)'
    OBVIOUS
  <2>1. Cached(b) /\ Reading(b) BY DEF CatalogInv
  <2>2. (fresh'[b] => fresh[b]) /\ (failedAt'[b] = "recent" => failedAt[b] = "recent")
    BY <1>1, <1>2 DEF CatalogTypes
  <2> QED BY <1>1, <2>1, <2>2 DEF Cached, Reading
<1>6. \A c \in Client : Waiting(c)' BY <1>1, CallersUntouched
<1> QED BY <1>4, <1>5, <1>6 DEF CatalogInv

LEMMA ChangeKeeps ==
  ASSUME CatalogInv, Catalog!Change PROVE CatalogInv'
<1> USE DEF Catalog!Change, Catalog!catalog, Catalog!clients
<1>1. CatalogTypes BY DEF CatalogInv
<1>2. changes' \in 0..MaxChanges BY <1>1, ModelNumbers DEF CatalogTypes
<1>3. published' \in SUBSET Catalog!Model /\ usable' \in [Access -> 0..2] /\ trouble' \in BOOLEAN
  BY <1>1 DEF CatalogTypes
<1>4. CatalogTypes' BY <1>1, <1>2, <1>3 DEF CatalogTypes
<1>5. \A b \in Access : Cached(b)' /\ Reading(b)' BY CatalogUntouched
<1>6. \A c \in Client : Waiting(c)' BY CallersUntouched
<1> QED BY <1>4, <1>5, <1>6 DEF CatalogInv

LEMMA CatalogNext == CatalogInv /\ (Catalog!Next \/ UNCHANGED catalogVars) => CatalogInv'
<1> SUFFICES ASSUME CatalogInv, Catalog!Next \/ UNCHANGED catalogVars PROVE CatalogInv'
  OBVIOUS
<1>1. CASE UNCHANGED catalogVars
  <2> USE <1>1 DEF catalogVars
  <2>1. CatalogTypes' BY DEF CatalogInv, CatalogTypes
  <2> QED BY <2>1, CatalogUntouched, CallersUntouched DEF CatalogInv
<1>2. ASSUME NEW c \in Client, Catalog!Answering(c) PROVE CatalogInv'
  <2>1. CASE Catalog!Begin(c) BY <2>1, BeginKeeps
  <2>2. CASE Catalog!List(c) BY <2>2, ListKeeps
  <2>3. CASE Catalog!GiveUp(c) BY <2>3, GiveUpKeeps DEF Catalog!GiveUp
  <2>4. CASE Catalog!ListAgain(c) BY <2>4, ListAgainKeeps
  <2> QED BY <1>2, <2>1, <2>2, <2>3, <2>4 DEF Catalog!Answering
<1>3. ASSUME NEW a \in Access, \/ Catalog!forceRefresh(a) \/ Catalog!Goroutine(a)
                               \/ Catalog!Expire(a) \/ Catalog!RetryDelayEnds(a)
      PROVE  CatalogInv'
  <2>1. CASE Catalog!forceRefresh(a) BY <2>1, ForceKeeps
  <2>2. CASE Catalog!fetchModelCatalog(a) BY <2>2, FetchKeeps
  <2>3. CASE Catalog!readUpstreamModels(a) BY <2>3, ReadUpstreamKeeps
  <2>4. CASE Catalog!ReadFails(a) BY <2>4, ReadFailsKeeps
  <2>5. CASE Catalog!Expire(a) \/ Catalog!RetryDelayEnds(a) BY <2>5, ClockKeeps
  <2> QED BY <1>3, <2>1, <2>2, <2>3, <2>4, <2>5 DEF Catalog!Goroutine
<1>4. CASE Catalog!Change BY <1>4, ChangeKeeps
<1> QED BY <1>1, <1>2, <1>3, <1>4 DEF Catalog!Next

LEMMA CatalogFollows ==
  ASSUME CatalogInv PROVE Catalog!TypeOK /\ AnswersAreWhole
<1>1. CatalogTypes BY DEF CatalogInv
<1>2. ASSUME NEW a \in Access, read[a] # None
      PROVE  /\ inflight[a]
             /\ read[a].left \in 0..2 /\ read[a].pages \in 0..MaxPages
             /\ read[a].models \in Seq(Catalog!Model)
  <2>1. read[a] \in ReadRecord /\ Reading(a) BY <1>1, <1>2 DEF CatalogInv, CatalogTypes
  <2> QED BY <1>2, <2>1 DEF ReadRecord, Reading
<1>3. ASSUME NEW c \in Client, walk[c] # None
      PROVE  /\ walk[c].to \in {"older", "newer", "one"}
             /\ walk[c].from \in Catalog!Model \cup {Catalog!NoModel}
             /\ walk[c].got \in Seq(Catalog!Model) /\ walk[c].common \subseteq Catalog!Model
             /\ walk[c].more \in BOOLEAN
  <2>1. walk[c] \in WalkRecord BY <1>1, <1>3 DEF CatalogTypes
  <2> QED BY <2>1 DEF WalkRecord, Catalog!NoModel
<1>4. Catalog!TypeOK BY <1>1, <1>2, <1>3 DEF CatalogTypes, Catalog!TypeOK
<1>5. Catalog!NeverEmptyAnswer BY <1>1 DEF CatalogTypes, Catalog!NeverEmptyAnswer
<1>6. Catalog!WalkComplete
  <2> SUFFICES ASSUME NEW c \in Client, walk[c] # None
               PROVE  /\ Catalog!Descending(walk[c].got)
                      /\ ~walk[c].more =>
                           Catalog!Beyond(walk[c]) \cap walk[c].common
                             \subseteq Catalog!ToSet(walk[c].got)
    BY DEF Catalog!WalkComplete
  <2>1. Walk(walk[c]) BY DEF CatalogInv, Waiting
  <2> QED BY <2>1 DEF Walk, ListOf
<1> QED BY <1>4, <1>5, <1>6 DEF AnswersAreWhole

-----------------------------------------------------------------------------
(* Both parts.                                                               *)

\* The catalogue does not touch the ledger: a behaviour of the composition is one of the
\* ledger, and what is proved of those is true of what the run checks.
THEOREM CompositionIsALedger == PartsSpec => Spec
<1>1. PartsSpec => AnyPart /\ [][OnePart]_<<part, vars, catalogVars>> BY DEF PartsSpec
<1>2. AnyPart => Init BY DEF AnyPart
<1>3. [OnePart]_<<part, vars, catalogVars>> => [Next]_vars BY DEF OnePart
<1> QED BY <1>1, <1>2, <1>3, PTL DEF Spec

\* And one of the catalogue.
LEMMA CatalogInvariant == PartsSpec => []CatalogInv
<1>1. PartsSpec => AnyPart /\ [][OnePart]_<<part, vars, catalogVars>> BY DEF PartsSpec
<1>2. AnyPart => CatalogInv BY CatalogInit DEF AnyPart
<1>3. CatalogInv /\ [OnePart]_<<part, vars, catalogVars>> => CatalogInv'
  <2>1. [OnePart]_<<part, vars, catalogVars>> => Catalog!Next \/ UNCHANGED catalogVars
    BY DEF OnePart
  <2> QED BY <2>1, CatalogNext
<1> QED BY <1>1, <1>2, <1>3, PTL

\* The ledger and the catalogue keep their types: whatever upstream publishes, what is
\* cached and what a walk has got are sequences of its models.
THEOREM PartsKeepTheirTypes == PartsSpec => []PartsTypeOK
<1>1. TypeOK /\ CatalogInv => PartsTypeOK BY CatalogFollows DEF PartsTypeOK
<1> QED BY <1>1, LedgerTypes, CompositionIsALedger, CatalogInvariant, PTL

\* No call ends with neither a list nor an error, and pages of lists read at different
\* times fit together, whatever is published and withdrawn between two calls.
THEOREM AnswersAlwaysWhole == PartsSpec => []AnswersAreWhole
<1>1. CatalogInv => AnswersAreWhole BY CatalogFollows
<1> QED BY <1>1, CatalogInvariant, PTL
===========================================================================
