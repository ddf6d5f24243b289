---------------------------- MODULE SamplesProofs ----------------------------
(***************************************************************************)
(* The live reading never goes back and a forced usage page is new, for    *)
(* any number of calls, answers and samplers.                              *)
(*                                                                         *)
(* The invariant says what a compare-and-swap relies on: the reading to be *)
(* stored is newer than the one that was loaded, so a swap that finds that *)
(* one moves the live reading forward, and a reading that is given up was  *)
(* not newer than what it met.                                             *)
(***************************************************************************)
EXTENDS Samples, TLAPS

\* The clock has room to start, and None is no call.
SampleConstants == MaxTime \in Nat \ {0} /\ MaxSamplers \in Nat /\ None \notin Page

Observing == {"load", "swap"}
\* A reader holds a sampler from its first load on, and what it swaps is newer than
\* what it loaded.
Loaded ==
  \A r \in Reader :
    /\ pc[r] \in Observing => sampler[r] \in Sampler
    /\ pc[r] \notin Observing \cup {"answered"} => sampler[r] = 0
    /\ pc[r] = "swap" => at[r] > previous[r]
\* A view that was forced and read is of a moment after the call.
Asked ==
  \A h \in Page :
    /\ since[h] <= now
    /\ force[h] /\ pc[h] \notin {"idle", "lock", "read"} => at[h] >= since[h]
IInv == TypeOK /\ Loaded /\ Asked /\ LiveIsNewest
-----------------------------------------------------------------------------
LEMMA InitInv == ASSUME SampleConstants, Init PROVE IInv
  BY DEF SampleConstants, Init, IInv, TypeOK, Loaded, Asked, LiveIsNewest, Observing, Instant,
         Reader, Sampler

\* A step of one reader that only moves it and its reading on.
LEMMA AskStep ==
  ASSUME SampleConstants, IInv, NEW h \in Page, Ask(h)
  PROVE IInv'
  <1>1. h \in Reader /\ Page \subseteq Reader
    BY DEF Reader
  <1>2. PICK forced \in BOOLEAN :
          /\ force' = [force EXCEPT ![h] = forced]
          /\ IF ~forced /\ usage # 0
             THEN Goto(h, "answered") /\ at' = [at EXCEPT ![h] = usage]
             ELSE Goto(h, "lock") /\ UNCHANGED at
    BY DEF Ask
  <1>3. /\ pc[h] = "idle" /\ since' = [since EXCEPT ![h] = now]
        /\ UNCHANGED <<now, usage, lock, live, entry, sampler, previous>>
    BY DEF Ask, cache, shown
  <1>4. TypeOK'
    BY <1>1, <1>2, <1>3 DEF IInv, TypeOK, Goto
  <1>5. Loaded'
    BY <1>1, <1>2, <1>3 DEF IInv, TypeOK, Goto, Loaded, Observing
  <1>6. Asked'
    BY <1>1, <1>2, <1>3, SampleConstants
    DEF IInv, TypeOK, Goto, Asked, Instant, SampleConstants
  <1>7. LiveIsNewest'
    BY <1>1, <1>2, <1>3 DEF IInv, TypeOK, Goto, LiveIsNewest, Loaded, Observing
  <1> QED BY <1>4, <1>5, <1>6, <1>7 DEF IInv

LEMMA LockStep ==
  ASSUME SampleConstants, IInv, NEW h \in Page, Lock(h)
  PROVE IInv'
  <1>1. h \in Reader /\ Page \subseteq Reader /\ h # None
    BY DEF Reader, SampleConstants
  <1>2. /\ pc[h] = "lock" /\ lock = None
        /\ UNCHANGED <<now, usage, live, entry, force, since, sampler, previous>>
        /\ IF ~force[h] /\ usage # 0
           THEN Goto(h, "answered") /\ at' = [at EXCEPT ![h] = usage] /\ UNCHANGED lock
           ELSE Goto(h, "read") /\ lock' = h /\ UNCHANGED at
    BY DEF Lock, shown
  <1>3. TypeOK'
    <2>1. CASE ~force[h] /\ usage # 0
      BY <1>1, <1>2, <2>1 DEF IInv, TypeOK, Goto
    <2>2. CASE ~(~force[h] /\ usage # 0)
      <3>1. /\ pc' = [pc EXCEPT ![h] = "read"] /\ lock' = h /\ at' = at
            /\ \A g \in Page : g # h => pc'[g] = pc[g] /\ pc[g] \notin {"read", "keep"}
        BY <1>1, <1>2, <2>2 DEF IInv, TypeOK, Goto, SampleConstants
      <3>2. \A g \in Page : (lock' = g) <=> pc'[g] \in {"read", "keep"}
        BY <1>1, <3>1 DEF IInv, TypeOK
      <3>3. pc' \in [Reader -> {"idle", "lock", "read", "keep", "save", "entry", "load", "swap", "answered"}]
        BY <1>1, <3>1 DEF IInv, TypeOK
      <3> QED BY <1>1, <1>2, <3>1, <3>2, <3>3 DEF IInv, TypeOK
    <2> QED BY <2>1, <2>2
  <1>4. Loaded'
    BY <1>1, <1>2 DEF IInv, TypeOK, Goto, Loaded, Observing
  <1>5. Asked'
    BY <1>1, <1>2 DEF IInv, TypeOK, Goto, Asked
  <1>6. LiveIsNewest'
    BY <1>1, <1>2 DEF IInv, TypeOK, Goto, LiveIsNewest, Loaded, Observing
  <1> QED BY <1>3, <1>4, <1>5, <1>6 DEF IInv

\* A call that returns holds nothing any more.
LEMMA ReturnStep ==
  ASSUME SampleConstants, IInv, NEW r \in Reader, Return(r),
         lock' = IF lock = r THEN None ELSE lock,
         UNCHANGED <<now, usage, live, entry>>
  PROVE IInv'
  <1>1. Page \subseteq Reader /\ None \notin Page /\ 0 \in Instant
    BY DEF Reader, SampleConstants, Instant
  <1>2. TypeOK'
    BY <1>1 DEF IInv, TypeOK, Return
  <1>3. Loaded'
    BY <1>1 DEF IInv, TypeOK, Return, Loaded, Observing
  <1>4. Asked'
    BY <1>1 DEF IInv, TypeOK, Return, Asked, Instant, SampleConstants
  <1>5. LiveIsNewest'
    BY <1>1 DEF IInv, TypeOK, Return, LiveIsNewest
  <1> QED BY <1>2, <1>3, <1>4, <1>5 DEF IInv

LEMMA ReadFailsStep ==
  ASSUME SampleConstants, IInv, NEW h \in Page, ReadFails(h)
  PROVE IInv'
  BY ReturnStep DEF ReadFails, IInv, TypeOK, Reader, shown

LEMMA DoneStep ==
  ASSUME SampleConstants, IInv, NEW r \in Reader, Done(r)
  PROVE IInv'
  <1>1. lock = r => lock = None
    BY DEF Done, IInv, TypeOK, SampleConstants
  <1> QED BY <1>1, ReturnStep DEF Done, cache, shown

LEMMA getJSONStep ==
  ASSUME SampleConstants, IInv, NEW h \in Page, getJSON(h)
  PROVE IInv'
  <1>1. h \in Reader /\ Page \subseteq Reader
    BY DEF Reader
  <1>2. /\ pc[h] = "read" /\ Goto(h, "keep") /\ at' = [at EXCEPT ![h] = now]
        /\ UNCHANGED <<now, usage, lock, live, entry, force, since, sampler, previous>>
    BY DEF getJSON, cache, shown
  <1>3. TypeOK'
    BY <1>1, <1>2 DEF IInv, TypeOK, Goto
  <1>4. Loaded'
    BY <1>1, <1>2 DEF IInv, TypeOK, Goto, Loaded, Observing
  <1>5. Asked'
    BY <1>1, <1>2 DEF IInv, TypeOK, Goto, Asked
  <1>6. LiveIsNewest'
    BY <1>1, <1>2 DEF IInv, TypeOK, Goto, LiveIsNewest
  <1> QED BY <1>3, <1>4, <1>5, <1>6 DEF IInv

LEMMA KeepStep ==
  ASSUME SampleConstants, IInv, NEW h \in Page, Keep(h)
  PROVE IInv'
  <1>1. h \in Reader /\ Page \subseteq Reader /\ None \notin Page
    BY DEF Reader, SampleConstants
  <1>2. /\ pc[h] = "keep" /\ usage' = at[h] /\ lock' = None
        /\ Goto(h, IF force[h] THEN "save" ELSE "answered")
        /\ UNCHANGED <<now, live, entry, force, since, at, sampler, previous>>
    BY DEF Keep, shown
  <1>3. TypeOK'
    BY <1>1, <1>2 DEF IInv, TypeOK, Goto
  <1>4. Loaded'
    BY <1>1, <1>2 DEF IInv, TypeOK, Goto, Loaded, Observing
  <1>5. Asked'
    BY <1>1, <1>2 DEF IInv, TypeOK, Goto, Asked
  <1>6. LiveIsNewest'
    BY <1>1, <1>2 DEF IInv, TypeOK, Goto, LiveIsNewest, Loaded, Observing
  <1> QED BY <1>3, <1>4, <1>5, <1>6 DEF IInv

\* The view is observed, or it is not.
LEMMA SaveStep ==
  ASSUME SampleConstants, IInv, NEW h \in Page,
         NotObserved(h) \/ recordAccountUsageObservation(h)
  PROVE IInv'
  <1>1. h \in Reader /\ Page \subseteq Reader
    BY DEF Reader
  <1>2. /\ pc[h] = "save" /\ (Goto(h, "answered") \/ Goto(h, "entry"))
        /\ UNCHANGED <<now, usage, lock, live, entry, force, since, at, sampler, previous>>
    BY DEF NotObserved, recordAccountUsageObservation, cache, shown
  <1>3. TypeOK'
    BY <1>1, <1>2 DEF IInv, TypeOK, Goto
  <1>4. Loaded'
    BY <1>1, <1>2 DEF IInv, TypeOK, Goto, Loaded, Observing
  <1>5. Asked'
    BY <1>1, <1>2 DEF IInv, TypeOK, Goto, Asked
  <1>6. LiveIsNewest'
    BY <1>1, <1>2 DEF IInv, TypeOK, Goto, LiveIsNewest, Loaded, Observing
  <1> QED BY <1>3, <1>4, <1>5, <1>6 DEF IInv

LEMMA ArriveStep ==
  ASSUME SampleConstants, IInv, NEW r \in Reply, Arrive(r)
  PROVE IInv'
  <1>1. r \in Reader /\ Page \subseteq Reader
    BY DEF Reader
  <1>2. /\ pc[r] = "idle" /\ Goto(r, "entry") /\ at' = [at EXCEPT ![r] = now]
        /\ UNCHANGED <<now, usage, lock, live, entry, force, since, sampler, previous>>
    BY DEF Arrive, cache, shown
  <1>3. TypeOK'
    BY <1>1, <1>2 DEF IInv, TypeOK, Goto
  <1>4. Loaded'
    BY <1>1, <1>2 DEF IInv, TypeOK, Goto, Loaded, Observing
  <1>5. Asked'
    BY <1>1, <1>2 DEF IInv, TypeOK, Goto, Asked, Instant, SampleConstants
  <1>6. LiveIsNewest'
    BY <1>1, <1>2 DEF IInv, TypeOK, Goto, LiveIsNewest
  <1> QED BY <1>3, <1>4, <1>5, <1>6 DEF IInv

\* A load of the live reading ends the loop or prepares a swap.
LEMMA LoadStep ==
  ASSUME SampleConstants, IInv, NEW r \in Reader, NEW s \in Sampler,
         pc[r] \in {"entry", "load"}, sampler' = [sampler EXCEPT ![r] = s],
         previous' = [previous EXCEPT ![r] = live[s]],
         Goto(r, IF at[r] <= live[s] THEN "answered" ELSE "swap"),
         entry' \in Sampler \cup {0},
         UNCHANGED <<now, usage, lock, live, force, since, at>>
  PROVE IInv'
  <1>1. /\ Page \subseteq Reader /\ live[s] \in Instant /\ at[r] \in Instant
        /\ Instant \subseteq Int
    BY DEF Reader, IInv, TypeOK, Instant
  <1>2. TypeOK'
    BY <1>1 DEF IInv, TypeOK, Goto
  <1>3. Loaded'
    <2>1. CASE at[r] <= live[s]
      BY <1>1, <2>1 DEF IInv, TypeOK, Goto, Loaded, Observing
    <2>2. CASE at[r] > live[s]
      <3>1. live[s] \in Int /\ at[r] \in Int
        BY <1>1
      <3>2. ~(at[r] <= live[s])
        BY <2>2, <3>1
      <3>3. pc' = [pc EXCEPT ![r] = "swap"]
        BY <3>2 DEF Goto
      <3>4. ASSUME NEW q \in Reader
            PROVE /\ pc'[q] \in Observing => sampler'[q] \in Sampler
                  /\ pc'[q] \notin Observing \cup {"answered"} => sampler'[q] = 0
                  /\ pc'[q] = "swap" => at'[q] > previous'[q]
        <4>1. CASE q = r
          BY <2>2, <3>3, <4>1 DEF IInv, TypeOK, Observing
        <4>2. CASE q # r
          BY <3>3, <4>2 DEF IInv, TypeOK, Loaded
        <4> QED BY <4>1, <4>2
      <3> QED BY <3>4 DEF Loaded
    <2>3. live[s] \in Int /\ at[r] \in Int
      BY <1>1
    <2> QED BY <2>1, <2>2, <2>3
  <1>4. Asked'
    BY <1>1 DEF IInv, TypeOK, Goto, Asked
  <1>5. LiveIsNewest'
    BY <1>1 DEF IInv, TypeOK, Goto, LiveIsNewest
  <1> QED BY <1>2, <1>3, <1>4, <1>5 DEF IInv

LEMMA ObserveStep ==
  ASSUME SampleConstants, IInv, NEW r \in Reader, Observe(r)
  PROVE IInv'
  <1>1. entry' \in Sampler
    BY DEF Observe, forAccount, IInv, TypeOK
  <1> QED BY <1>1, LoadStep DEF Observe, cache

LEMMA LoadAgainStep ==
  ASSUME SampleConstants, IInv, NEW r \in Reader, LoadAgain(r)
  PROVE IInv'
  <1>1. sampler[r] \in Sampler /\ sampler' = [sampler EXCEPT ![r] = sampler[r]]
    BY DEF LoadAgain, IInv, TypeOK, Loaded, Observing
  <1>2. entry' \in Sampler \cup {0}
    BY DEF LoadAgain, shown, IInv, TypeOK
  <1> QED BY <1>1, <1>2, LoadStep DEF LoadAgain, cache, shown

LEMMA SwapStep ==
  ASSUME SampleConstants, IInv, NEW r \in Reader, CompareAndSwap(r)
  PROVE IInv'
  <1>1. Page \subseteq Reader /\ Instant \subseteq Int /\ Sampler \subseteq Int
    BY DEF Reader, Instant, Sampler
  <1>2. /\ pc[r] = "swap" /\ sampler[r] \in Sampler /\ at[r] > previous[r]
        /\ UNCHANGED <<now, usage, lock, entry, force, since, at, sampler, previous>>
    BY DEF CompareAndSwap, cache, IInv, Loaded, Observing
  <1>3. \/ /\ live[sampler[r]] = previous[r] /\ Goto(r, "answered")
           /\ live' = [live EXCEPT ![sampler[r]] = at[r]]
        \/ live' = live /\ Goto(r, "load")
    BY DEF CompareAndSwap
  <1>4. TypeOK'
    BY <1>1, <1>2, <1>3 DEF IInv, TypeOK, Goto
  <1>5. Loaded'
    BY <1>1, <1>2, <1>3 DEF IInv, TypeOK, Goto, Loaded, Observing
  <1>6. Asked'
    BY <1>1, <1>2, <1>3 DEF IInv, TypeOK, Goto, Asked
  <1>7. ASSUME NEW s \in Sampler PROVE live'[s] >= live[s] /\ live[s] \in Int /\ live'[s] \in Int
    <2>1. live[s] \in Int /\ at[r] \in Int /\ previous[r] \in Int
      BY <1>1 DEF IInv, TypeOK
    <2>2. live'[s] = live[s] \/ (live[s] = previous[r] /\ live'[s] = at[r])
      BY <1>2, <1>3 DEF IInv, TypeOK
    <2> QED BY <1>2, <2>1, <2>2
  <1>8. ASSUME NEW q \in Reader, pc'[q] = "answered", sampler'[q] # 0
        PROVE live'[sampler'[q]] >= at'[q]
    <2>1. sampler'[q] = sampler[q] /\ at'[q] = at[q] /\ at[q] \in Int /\ sampler[q] \in Sampler
      BY <1>1, <1>2, <1>8 DEF IInv, TypeOK
    <2>2. CASE q = r
      BY <1>2, <1>3, <1>8, <2>1, <2>2 DEF IInv, TypeOK, Goto
    <2>3. CASE q # r
      <3>1. pc[q] = "answered"
        BY <1>3, <1>8, <2>3 DEF IInv, TypeOK, Goto
      <3> QED BY <1>7, <1>8, <2>1, <3>1 DEF IInv, LiveIsNewest
    <2> QED BY <2>2, <2>3
  <1>9. LiveIsNewest'
    BY <1>8 DEF LiveIsNewest
  <1> QED BY <1>4, <1>5, <1>6, <1>9 DEF IInv

LEMMA WorldStep ==
  ASSUME SampleConstants, IInv, forget \/ Expire \/ Tick
  PROVE IInv'
  <1>1. /\ UNCHANGED <<lock, live, pc, force, since, at, sampler, previous>>
        /\ entry' \in Sampler \cup {0} /\ usage' \in Instant
        /\ now' \in Instant /\ now' >= now
    BY DEF forget, Expire, Tick, cache, shown, calls, IInv, TypeOK, Instant, SampleConstants
  <1>2. TypeOK'
    BY <1>1 DEF IInv, TypeOK
  <1>3. Asked'
    BY <1>1 DEF IInv, TypeOK, Asked, Instant
  <1> QED BY <1>1, <1>2, <1>3 DEF IInv, Loaded, LiveIsNewest

LEMMA NextInv == ASSUME SampleConstants, IInv, [Next]_vars PROVE IInv'
  <1>1. CASE UNCHANGED vars
    BY <1>1 DEF vars, cache, shown, calls, IInv, TypeOK, Loaded, Asked, LiveIsNewest
  <1> QED BY <1>1, AskStep, LockStep, ReadFailsStep, getJSONStep, KeepStep, SaveStep,
             ArriveStep, ObserveStep, LoadAgainStep, SwapStep, DoneStep, WorldStep DEF Next
-----------------------------------------------------------------------------
LEMMA CurrentFollows == ASSUME IInv PROVE SamplesAreCurrent
  BY DEF IInv, Asked, ForcedIsNew, SamplesAreCurrent

(* However many answers and usage pages are observed at once, in any order *)
(* and without a lock, no reading is lost to an older one; and a forced    *)
(* page shows what upstream said after it was asked for                    *)
(* (accountSampler.observe and accountUsageManager.get).                   *)
THEOREM SamplesStayCurrent == ASSUME SampleConstants PROVE Spec => []SamplesAreCurrent
  <1>1. Init => IInv
    BY InitInv
  <1>2. IInv /\ [Next]_vars => IInv'
    BY NextInv
  <1> QED BY <1>1, <1>2, CurrentFollows, PTL DEF Spec
=============================================================================
