------------------------- MODULE TokenRefreshProofs -------------------------
(* Theorems about TokenRefresh for any number of goroutines, rows,           *)
(* identities and token pairs.                                               *)
EXTENDS TokenRefresh, TLAPS

\* A goroutine past its lock owns the lock of its row.
LocksHeld == \A c \in Caller : Inside(c) => lock[target[c]] = c

\* A goroutine between reading the row and writing it.
Active(c) == pc[c] \in {"exchange", "persist"}

\* Rows, goroutines at work and received answers have different pairs, but for the
\* row and the goroutine that read it; all were given out, and none received is
\* consumed yet.
Chain ==
  /\ consumed \subseteq Issued
  /\ \A i \in Rows : pair[i] \in Issued /\ \A j \in Rows : i # j => pair[i] # pair[j]
  /\ \A c \in Caller : Active(c) =>
       /\ held[c] \in Issued
       /\ \A i \in Rows : pair[i] = held[c] => i = target[c]
       /\ \A d \in Caller : c # d /\ Active(d) => held[c] # held[d]
  /\ \A c \in Caller : pc[c] = "persist" =>
       /\ got[c] \in Issued /\ got[c] \notin consumed
       /\ \A i \in Rows : pair[i] # got[c]
       /\ \A d \in Caller : Active(d) => held[d] # got[c]
       /\ \A d \in Caller : c # d /\ pc[d] = "persist" => got[c] # got[d]

IInv == TypeOK /\ LocksHeld /\ Chain /\ RowsHoldLivePairs /\ NoTokenReplayed
-----------------------------------------------------------------------------
\* Read either returns or takes the pair of the row to upstream.
Takes(c) ==
  /\ pc[c] = "read" /\ Refreshable(c)
  /\ held' = [held EXCEPT ![c] = pair[target[c]]]
  /\ who' = [who EXCEPT ![c] = uuid[target[c]]]
  /\ pc' = [pc EXCEPT ![c] = "exchange"]
  /\ UNCHANGED <<uuid, pair, enabled, issuedTo, consumed, due, lock, kind, target, got, lost>>
Declines(c) ==
  /\ pc[c] = "read" /\ End(c)
  /\ UNCHANGED <<uuid, pair, enabled, issuedTo, consumed, due, lost>>
\* A goroutine that read its row goes on with it or gives up.
LEMMA ReadCases == ASSUME NEW c \in Caller, Read(c) PROVE Takes(c) \/ Declines(c)
BY DEF Read, Takes, Declines, Goto, table, upstream

\* A row that can be refreshed exists and holds a pair.
LEMMA ReadsRow ==
  ASSUME TypeOK, NEW c \in Caller, pc[c] = "read", Refreshable(c)
  PROVE  /\ target[c] \in RowId /\ pair[target[c]] \in Pair
         /\ uuid[target[c]] \in Identity /\ pair[target[c]] # None
  <1>1. /\ target[c] \in RowId \cup {None} /\ target[c] # None
        /\ uuid \in [RowId -> Identity \cup {None}] /\ pair \in [RowId -> Pair \cup {None}]
        /\ \A i \in RowId : uuid[i] = None <=> pair[i] = None
    BY DEF TypeOK
  <1>2. uuid[target[c]] # None
    BY DEF Refreshable
  <1>3. target[c] \in RowId
    BY <1>1
  <1>4. pair[target[c]] # None /\ uuid[target[c]] \in Identity
    BY <1>1, <1>2, <1>3
  <1> QED BY <1>1, <1>3, <1>4

\* The steps of a goroutine and of everything else keep the types.
LEMMA TypeStep == TypeOK /\ [Next]_vars => TypeOK'
<1> SUFFICES ASSUME TypeOK, [Next]_vars PROVE TypeOK'
  OBVIOUS
<1> USE RefreshConstants
<1> USE DEF TypeOK
<1>1. ASSUME NEW c \in Caller, Select(c) PROVE TypeOK'
  BY <1>1 DEF Select, Begin, Goto, table, upstream
<1>2. ASSUME NEW c \in Caller, RefreshNow(c) PROVE TypeOK'
  BY <1>2 DEF RefreshNow, Begin, Goto, table, upstream
<1>3. ASSUME NEW c \in Caller, Reauthorize(c) PROVE TypeOK'
  BY <1>3 DEF Reauthorize, Begin, Goto, table, upstream
<1>4. ASSUME NEW c \in Caller, Check(c) PROVE TypeOK'
  BY <1>4 DEF Check, Leave, Goto, table, upstream
<1>5. ASSUME NEW c \in Caller, Lock(c) PROVE TypeOK'
  BY <1>5 DEF Lock, Goto, table, upstream
<1>6. ASSUME NEW c \in Caller, Read(c) PROVE TypeOK'
  <2>1. CASE Takes(c)
    <3>1. /\ target[c] \in RowId /\ pair[target[c]] \in Pair
          /\ uuid[target[c]] \in Identity /\ pair[target[c]] # None
      BY <2>1, ReadsRow DEF Takes
    <3>2. /\ held' \in [Caller -> Pair \cup {None}] /\ held'[c] # None
          /\ who' \in [Caller -> Identity \cup {None}]
      BY <2>1, <3>1 DEF Takes
    <3>3. pc' \in [Caller -> {"idle", "check", "lock", "read", "exchange", "persist"}]
      BY <2>1 DEF Takes
    <3>4. \A d \in Caller : /\ pc'[d] = "idle" <=> target'[d] = None
                            /\ pc'[d] = "persist" <=> got'[d] # None
                            /\ pc'[d] \in {"check", "exchange", "persist"} => held'[d] # None
      <4>1. SUFFICES ASSUME NEW d \in Caller
                     PROVE  /\ pc'[d] = "idle" <=> target'[d] = None
                            /\ pc'[d] = "persist" <=> got'[d] # None
                            /\ pc'[d] \in {"check", "exchange", "persist"} => held'[d] # None
        OBVIOUS
      <4>2. CASE d = c BY <2>1, <3>1, <3>2, <4>2 DEF Takes
      <4>3. CASE d # c BY <2>1, <4>3 DEF Takes
      <4> QED BY <4>2, <4>3
    <3>5. UNCHANGED <<uuid, pair, enabled, issuedTo, consumed, due, lock, kind, target, got, lost>>
      BY <2>1 DEF Takes
    <3> QED BY <3>2, <3>3, <3>4, <3>5
  <2>2. CASE Declines(c) BY <2>2 DEF Declines, End, Leave, Unlock, Goto
  <2> QED BY <1>6, <2>1, <2>2, ReadCases
<1>7. ASSUME NEW c \in Caller, Refreshed(c) PROVE TypeOK'
  BY <1>7 DEF Refreshed, Rotate, Goto, table
<1>8. ASSUME NEW c \in Caller, ReplyLost(c) PROVE TypeOK'
  BY <1>8 DEF ReplyLost, Rotate, End, Leave, Unlock, Goto, table
<1>9. ASSUME NEW c \in Caller, ExchangeFails(c) PROVE TypeOK'
  BY <1>9 DEF ExchangeFails, End, Leave, Unlock, Goto, table, upstream
<1>10. ASSUME NEW c \in Caller, Login(c) PROVE TypeOK'
  BY <1>10 DEF Login, End, Leave, Unlock, Goto, table
<1>11. ASSUME NEW c \in Caller, Persist(c) PROVE TypeOK'
  BY <1>11 DEF Persist, Writable, End, Leave, Unlock, Goto, upstream
<1>12. ASSUME NEW c \in Caller, PersistFails(c) PROVE TypeOK'
  BY <1>12 DEF PersistFails, End, Leave, Unlock, Goto, table, upstream
<1>13. ASSUME NEW u \in Identity, ImportAccount(u) PROVE TypeOK'
  BY <1>13 DEF ImportAccount, Bring, relay, callers
<1>14. ASSUME NEW i \in RowId, DeleteAccount(i) PROVE TypeOK'
  BY <1>14 DEF DeleteAccount, relay, callers, upstream
<1>15. ASSUME NEW i \in RowId, SetAccountEnabled(i) PROVE TypeOK'
  BY <1>15 DEF SetAccountEnabled, relay, callers, upstream
<1>16. ASSUME NEW i \in RowId, ExpiryNears(i) PROVE TypeOK'
  BY <1>16 DEF ExpiryNears, relay, callers, table
<1>17. ASSUME Crash PROVE TypeOK'
  BY <1>17 DEF Crash, table, upstream
<1>18. ASSUME UNCHANGED vars PROVE TypeOK'
  BY <1>18 DEF vars, table, upstream, callers
<1> QED
  BY <1>1, <1>2, <1>3, <1>4, <1>5, <1>6, <1>7, <1>8, <1>9, <1>10, <1>11, <1>12, <1>13, <1>14,
     <1>15, <1>16, <1>17, <1>18 DEF Next, Enter, Proceed, Operate

\* A goroutine enters with the lock free and leaves by freeing its own.
LEMMA LocksStep == TypeOK /\ LocksHeld /\ [Next]_vars => LocksHeld'
<1> SUFFICES ASSUME TypeOK, LocksHeld, [Next]_vars PROVE LocksHeld'
  OBVIOUS
<1> USE RefreshConstants
<1> USE DEF TypeOK, LocksHeld, Inside
<1>1. ASSUME NEW c \in Caller, Select(c) PROVE LocksHeld'
  BY <1>1 DEF Select, Begin, Goto, table, upstream
<1>2. ASSUME NEW c \in Caller, RefreshNow(c) PROVE LocksHeld'
  BY <1>2 DEF RefreshNow, Begin, Goto, table, upstream
<1>3. ASSUME NEW c \in Caller, Reauthorize(c) PROVE LocksHeld'
  BY <1>3 DEF Reauthorize, Begin, Goto, table, upstream
<1>4. ASSUME NEW c \in Caller, Check(c) PROVE LocksHeld'
  BY <1>4 DEF Check, Leave, Goto, table, upstream
<1>5. ASSUME NEW c \in Caller, Lock(c) PROVE LocksHeld'
  BY <1>5 DEF Lock, Goto, table, upstream
<1>6. ASSUME NEW c \in Caller, Read(c) PROVE LocksHeld'
  <2>1. CASE Takes(c) BY <2>1 DEF Takes, Refreshable
  <2>2. CASE Declines(c) BY <2>2 DEF Declines, End, Leave, Unlock, Goto
  <2> QED BY <1>6, <2>1, <2>2, ReadCases
<1>7. ASSUME NEW c \in Caller, Refreshed(c) PROVE LocksHeld'
  BY <1>7 DEF Refreshed, Rotate, Goto, table
<1>8. ASSUME NEW c \in Caller, ReplyLost(c) PROVE LocksHeld'
  BY <1>8 DEF ReplyLost, Rotate, End, Leave, Unlock, Goto, table
<1>9. ASSUME NEW c \in Caller, ExchangeFails(c) PROVE LocksHeld'
  BY <1>9 DEF ExchangeFails, End, Leave, Unlock, Goto, table, upstream
<1>10. ASSUME NEW c \in Caller, Login(c) PROVE LocksHeld'
  <2>1. CASE End(c) BY <1>10, <2>1 DEF Login, End, Leave, Unlock, Goto, table
  <2>2. CASE ~End(c)
    <3>1. pc[c] = "exchange" /\ pc' = [pc EXCEPT ![c] = "persist"] /\ UNCHANGED <<lock, target>>
      BY <1>10, <2>2 DEF Login, Goto
    <3> QED BY <3>1
  <2> QED BY <2>1, <2>2
<1>11. ASSUME NEW c \in Caller, Persist(c) PROVE LocksHeld'
  BY <1>11 DEF Persist, Writable, End, Leave, Unlock, Goto, upstream
<1>12. ASSUME NEW c \in Caller, PersistFails(c) PROVE LocksHeld'
  BY <1>12 DEF PersistFails, End, Leave, Unlock, Goto, table, upstream
<1>13. ASSUME NEW u \in Identity, ImportAccount(u) PROVE LocksHeld'
  BY <1>13 DEF ImportAccount, Bring, relay, callers
<1>14. ASSUME NEW i \in RowId, DeleteAccount(i) PROVE LocksHeld'
  BY <1>14 DEF DeleteAccount, relay, callers, upstream
<1>15. ASSUME NEW i \in RowId, SetAccountEnabled(i) PROVE LocksHeld'
  BY <1>15 DEF SetAccountEnabled, relay, callers, upstream
<1>16. ASSUME NEW i \in RowId, ExpiryNears(i) PROVE LocksHeld'
  BY <1>16 DEF ExpiryNears, relay, callers, table
<1>17. ASSUME Crash PROVE LocksHeld'
  BY <1>17 DEF Crash, table, upstream
<1>18. ASSUME UNCHANGED vars PROVE LocksHeld'
  BY <1>18 DEF vars, table, upstream, callers
<1> QED
  BY <1>1, <1>2, <1>3, <1>4, <1>5, <1>6, <1>7, <1>8, <1>9, <1>10, <1>11, <1>12, <1>13, <1>14,
     <1>15, <1>16, <1>17, <1>18 DEF Next, Enter, Proceed, Operate

\* A read under the lock takes a pair that no other goroutine has.
LEMMA ChainStep == TypeOK /\ LocksHeld /\ Chain /\ [Next]_vars => Chain'
<1> SUFFICES ASSUME TypeOK, LocksHeld, Chain, [Next]_vars PROVE Chain'
  OBVIOUS
<1> USE RefreshConstants
<1> USE DEF TypeOK, LocksHeld, Inside, Chain, Active, Issued, Rows
<1>1. ASSUME NEW c \in Caller, Select(c) PROVE Chain'
  BY <1>1 DEF Select, Begin, Goto, table, upstream
<1>2. ASSUME NEW c \in Caller, RefreshNow(c) PROVE Chain'
  BY <1>2 DEF RefreshNow, Begin, Goto, table, upstream
<1>3. ASSUME NEW c \in Caller, Reauthorize(c) PROVE Chain'
  BY <1>3 DEF Reauthorize, Begin, Goto, table, upstream
<1>4. ASSUME NEW c \in Caller, Check(c) PROVE Chain'
  BY <1>4 DEF Check, Leave, Goto, table, upstream
<1>5. ASSUME NEW c \in Caller, Lock(c) PROVE Chain'
  BY <1>5 DEF Lock, Goto, table, upstream
<1>6. ASSUME NEW c \in Caller, Read(c) PROVE Chain'
  <2>1. CASE Takes(c)
    <3> DEFINE r == target[c]
    <3>1. r \in Rows /\ pc[c] = "read" BY <2>1 DEF Takes, Refreshable
    <3>2. UNCHANGED <<uuid, pair, issuedTo, consumed, got, target>> /\ held'[c] = pair[r]
      BY <2>1 DEF Takes
    <3>3. \A d \in Caller : d # c => pc'[d] = pc[d] /\ held'[d] = held[d] BY <2>1 DEF Takes
    <3>4. pc'[c] = "exchange" BY <2>1 DEF Takes
    <3>5. \A d \in Caller : d # c /\ Active(d) => held[d] # pair[r]
      <4> SUFFICES ASSUME NEW d \in Caller, d # c, Active(d) PROVE held[d] # pair[r]
        OBVIOUS
      <4>1. target[d] # r BY <3>1
      <4> QED BY <3>1, <4>1
    <3>6. (\A i \in Rows : pair[i] \in Issued /\ \A j \in Rows : i # j => pair[i] # pair[j])'
      BY <3>2
    <3>7. ASSUME NEW d \in Caller, Active(d)'
          PROVE  /\ held'[d] \in Issued'
                 /\ \A i \in Rows' : pair'[i] = held'[d] => i = target'[d]
                 /\ \A e \in Caller : d # e /\ Active(e)' => held'[d] # held'[e]
      <4>1. CASE d = c
        <5>1. held'[d] = pair[r] /\ target'[d] = r BY <4>1, <3>2
        <5>2. ASSUME NEW e \in Caller, d # e, Active(e)' PROVE held'[d] # held'[e]
          <6>1. Active(e) /\ held'[e] = held[e] BY <4>1, <5>2, <3>3
          <6> QED BY <4>1, <5>1, <5>2, <6>1, <3>5
        <5>3. held'[d] \in Issued'
          <6>1. pair[r] \in Issued BY <3>1
          <6> HIDE DEF TypeOK, Chain, LocksHeld, Rows
          <6> QED BY <6>1, <5>1, <3>2
        <5>4. ASSUME NEW i \in Rows', pair'[i] = held'[d] PROVE i = target'[d]
          <6>1. i \in Rows /\ pair[i] = pair[r] BY <5>1, <5>4, <3>2
          <6>2. \A j \in Rows : i # j => pair[i] # pair[j] BY <6>1
          <6> HIDE DEF TypeOK, Chain, LocksHeld, Rows, Issued
          <6> QED BY <5>1, <3>1, <6>1, <6>2
        <5> QED BY <5>2, <5>3, <5>4
      <4>2. CASE d # c
        <5>1. Active(d) /\ held'[d] = held[d] BY <4>2, <3>3, <3>7
        <5>2. held'[d] \in Issued' /\ \A i \in Rows' : pair'[i] = held'[d] => i = target'[d]
          BY <5>1, <3>2
        <5>3. ASSUME NEW e \in Caller, d # e, Active(e)' PROVE held'[d] # held'[e]
          BY <4>2, <5>1, <5>3, <3>2, <3>3, <3>5
        <5> QED BY <5>2, <5>3
      <4> QED BY <4>1, <4>2
    <3>8. ASSUME NEW d \in Caller, pc'[d] = "persist"
          PROVE  /\ got'[d] \in Issued' /\ got'[d] \notin consumed'
                 /\ \A i \in Rows' : pair'[i] # got'[d]
                 /\ \A e \in Caller : Active(e)' => held'[e] # got'[d]
                 /\ \A e \in Caller : d # e /\ pc'[e] = "persist" => got'[d] # got'[e]
      <4>1. d # c /\ pc[d] = "persist" BY <3>3, <3>4, <3>8
      <4>2. got[d] # pair[r]
        <5>1. \A i \in Rows : pair[i] # got[d] BY <4>1
        <5> HIDE DEF TypeOK, Chain, LocksHeld, Rows, Issued
        <5> QED BY <3>1, <5>1
      <4>3. \A e \in Caller : Active(e)' => held'[e] # got'[d] BY <4>1, <4>2, <3>2, <3>3
      <4>4. \A e \in Caller : d # e /\ pc'[e] = "persist" => got'[d] # got'[e]
        BY <4>1, <3>2, <3>3, <3>4
      <4> QED BY <4>1, <4>3, <4>4, <3>2
    <3> QED BY <3>2, <3>6, <3>7, <3>8
  <2>2. CASE Declines(c) BY <2>2 DEF Declines, End, Leave, Unlock, Goto
  <2> QED BY <1>6, <2>1, <2>2, ReadCases
<1>7. ASSUME NEW c \in Caller, Refreshed(c) PROVE Chain'
  BY <1>7 DEF Refreshed, Rotate, Goto, table
<1>8. ASSUME NEW c \in Caller, ReplyLost(c) PROVE Chain'
  BY <1>8 DEF ReplyLost, Rotate, End, Leave, Unlock, Goto, table
<1>9. ASSUME NEW c \in Caller, ExchangeFails(c) PROVE Chain'
  BY <1>9 DEF ExchangeFails, End, Leave, Unlock, Goto, table, upstream
<1>10. ASSUME NEW c \in Caller, Login(c) PROVE Chain'
  BY <1>10 DEF Login, End, Leave, Unlock, Goto, table
<1>11. ASSUME NEW c \in Caller, Persist(c) PROVE Chain'
  BY <1>11 DEF Persist, Writable, End, Leave, Unlock, Goto, upstream
<1>12. ASSUME NEW c \in Caller, PersistFails(c) PROVE Chain'
  BY <1>12 DEF PersistFails, End, Leave, Unlock, Goto, table, upstream
<1>13. ASSUME NEW u \in Identity, ImportAccount(u) PROVE Chain'
  BY <1>13 DEF ImportAccount, Bring, relay, callers
<1>14. ASSUME NEW i \in RowId, DeleteAccount(i) PROVE Chain'
  BY <1>14 DEF DeleteAccount, relay, callers, upstream
<1>15. ASSUME NEW i \in RowId, SetAccountEnabled(i) PROVE Chain'
  BY <1>15 DEF SetAccountEnabled, relay, callers, upstream
<1>16. ASSUME NEW i \in RowId, ExpiryNears(i) PROVE Chain'
  BY <1>16 DEF ExpiryNears, relay, callers, table
<1>17. ASSUME Crash PROVE Chain'
  BY <1>17 DEF Crash, table, upstream
<1>18. ASSUME UNCHANGED vars PROVE Chain'
  BY <1>18 DEF vars, table, upstream, callers
<1> QED
  BY <1>1, <1>2, <1>3, <1>4, <1>5, <1>6, <1>7, <1>8, <1>9, <1>10, <1>11, <1>12, <1>13, <1>14,
     <1>15, <1>16, <1>17, <1>18 DEF Next, Enter, Proceed, Operate

\* A row stays as it is while the goroutines about to write stay as they are.
LEMMA Untouched ==
  ASSUME TypeOK, RowsHoldLivePairs, UNCHANGED <<table, consumed, lost>>,
         \A d \in Caller : pc[d] = "persist" =>
           pc'[d] = "persist" /\ kind'[d] = kind[d] /\ held'[d] = held[d] /\ target'[d] = target[d]
  PROVE  RowsHoldLivePairs'
BY DEF RowsHoldLivePairs, Rows, AwaitsWrite, Refreshing, table

\* A row's pair is consumed by the goroutine that holds the row's lock, which writes
\* the successor or loses it.
LEMMA LiveStep == TypeOK /\ LocksHeld /\ Chain /\ RowsHoldLivePairs /\ [Next]_vars => RowsHoldLivePairs'
<1> SUFFICES ASSUME TypeOK, LocksHeld, Chain, RowsHoldLivePairs, [Next]_vars PROVE RowsHoldLivePairs'
  OBVIOUS
<1> USE RefreshConstants
<1> USE DEF TypeOK, LocksHeld, Inside, Chain, Active, Issued, Rows, RowsHoldLivePairs, AwaitsWrite, Refreshing
<1>1. ASSUME NEW c \in Caller, Select(c) PROVE RowsHoldLivePairs'
  <2>1. PICK k \in {"auto", "manual", "reauth"}, i \in RowId, p \in Pair \cup {None},
             l \in {"check", "lock"} : Begin(c, k, i, p, l)
    BY <1>1 DEF Select
  <2> QED BY <2>1, Untouched DEF Begin, Goto, table, upstream
<1>2. ASSUME NEW c \in Caller, RefreshNow(c) PROVE RowsHoldLivePairs'
  <2>1. PICK k \in {"auto", "manual", "reauth"}, i \in RowId, p \in Pair \cup {None},
             l \in {"check", "lock"} : Begin(c, k, i, p, l)
    BY <1>2 DEF RefreshNow
  <2> QED BY <2>1, Untouched DEF Begin, Goto, table, upstream
<1>3. ASSUME NEW c \in Caller, Reauthorize(c) PROVE RowsHoldLivePairs'
  <2>1. PICK k \in {"auto", "manual", "reauth"}, i \in RowId, p \in Pair \cup {None},
             l \in {"check", "lock"} : Begin(c, k, i, p, l)
    BY <1>3 DEF Reauthorize
  <2> QED BY <2>1, Untouched DEF Begin, Goto, table, upstream
<1>4. ASSUME NEW c \in Caller, Check(c) PROVE RowsHoldLivePairs'
  BY <1>4 DEF Check, Leave, Goto, table, upstream
<1>5. ASSUME NEW c \in Caller, Lock(c) PROVE RowsHoldLivePairs'
  BY <1>5 DEF Lock, Goto, table, upstream
<1>6. ASSUME NEW c \in Caller, Read(c) PROVE RowsHoldLivePairs'
  BY <1>6 DEF Read, Refreshable, End, Leave, Unlock, Goto, table, upstream
<1>7. ASSUME NEW c \in Caller, Refreshed(c) PROVE RowsHoldLivePairs'
  BY <1>7 DEF Refreshed, Rotate, Goto, table
<1>8. ASSUME NEW c \in Caller, ReplyLost(c) PROVE RowsHoldLivePairs'
  BY <1>8 DEF ReplyLost, Rotate, End, Leave, Unlock, Goto, table
<1>9. ASSUME NEW c \in Caller, ExchangeFails(c) PROVE RowsHoldLivePairs'
  BY <1>9 DEF ExchangeFails, End, Leave, Unlock, Goto, table, upstream
<1>10. ASSUME NEW c \in Caller, Login(c) PROVE RowsHoldLivePairs'
  BY <1>10 DEF Login, End, Leave, Unlock, Goto, table
<1>11. ASSUME NEW c \in Caller, Persist(c) PROVE RowsHoldLivePairs'
  BY <1>11 DEF Persist, Writable, End, Leave, Unlock, Goto, upstream
<1>12. ASSUME NEW c \in Caller, PersistFails(c) PROVE RowsHoldLivePairs'
  BY <1>12 DEF PersistFails, End, Leave, Unlock, Goto, table, upstream
<1>13. ASSUME NEW u \in Identity, ImportAccount(u) PROVE RowsHoldLivePairs'
  <2>1. PICK i \in RowId, p \in Pair \ Issued :
          /\ pair' = [pair EXCEPT ![i] = p] /\ uuid' = [uuid EXCEPT ![i] = u]
          /\ UNCHANGED <<consumed, lost, pc, kind, held, target>>
    BY <1>13 DEF ImportAccount, Bring, relay, callers
  <2>2. ASSUME NEW j \in Rows', pair'[j] \in consumed'
        PROVE  \/ pair'[j] \in lost'
               \/ \E c \in Caller : AwaitsWrite(c)' /\ held'[c] = pair'[j] /\ target'[c] = j
    <3>1. j # i BY <2>1, <2>2
    <3>2. j \in Rows /\ pair'[j] = pair[j] BY <2>1, <2>2, <3>1
    <3> QED BY <2>1, <2>2, <3>2
  <2> QED BY <2>2
<1>14. ASSUME NEW i \in RowId, DeleteAccount(i) PROVE RowsHoldLivePairs'
  BY <1>14 DEF DeleteAccount, relay, callers, upstream
<1>15. ASSUME NEW i \in RowId, SetAccountEnabled(i) PROVE RowsHoldLivePairs'
  BY <1>15 DEF SetAccountEnabled, relay, callers, upstream
<1>16. ASSUME NEW i \in RowId, ExpiryNears(i) PROVE RowsHoldLivePairs'
  BY <1>16 DEF ExpiryNears, relay, callers, table
<1>17. ASSUME Crash PROVE RowsHoldLivePairs'
  BY <1>17 DEF Crash, table, upstream
<1>18. ASSUME UNCHANGED vars PROVE RowsHoldLivePairs'
  BY <1>18 DEF vars, table, upstream, callers
<1> QED
  BY <1>1, <1>2, <1>3, <1>4, <1>5, <1>6, <1>7, <1>8, <1>9, <1>10, <1>11, <1>12, <1>13, <1>14,
     <1>15, <1>16, <1>17, <1>18 DEF Next, Enter, Proceed, Operate

\* The pair read under the lock is alive, and no other goroutine consumes it.
LEMMA ReplayStep == TypeOK /\ LocksHeld /\ Chain /\ RowsHoldLivePairs /\ NoTokenReplayed /\ [Next]_vars => NoTokenReplayed'
<1> SUFFICES ASSUME TypeOK, LocksHeld, Chain, RowsHoldLivePairs, NoTokenReplayed, [Next]_vars PROVE NoTokenReplayed'
  OBVIOUS
<1> USE RefreshConstants
<1> USE DEF TypeOK, LocksHeld, Inside, Chain, Active, Issued, Rows, RowsHoldLivePairs, NoTokenReplayed, AwaitsWrite, Refreshing
<1>1. ASSUME NEW c \in Caller, Select(c) PROVE NoTokenReplayed'
  BY <1>1 DEF Select, Begin, Goto, table, upstream
<1>2. ASSUME NEW c \in Caller, RefreshNow(c) PROVE NoTokenReplayed'
  BY <1>2 DEF RefreshNow, Begin, Goto, table, upstream
<1>3. ASSUME NEW c \in Caller, Reauthorize(c) PROVE NoTokenReplayed'
  BY <1>3 DEF Reauthorize, Begin, Goto, table, upstream
<1>4. ASSUME NEW c \in Caller, Check(c) PROVE NoTokenReplayed'
  BY <1>4 DEF Check, Leave, Goto, table, upstream
<1>5. ASSUME NEW c \in Caller, Lock(c) PROVE NoTokenReplayed'
  BY <1>5 DEF Lock, Goto, table, upstream
<1>6. ASSUME NEW c \in Caller, Read(c) PROVE NoTokenReplayed'
  <2>1. CASE Takes(c)
    <3>1. target[c] \in Rows /\ pc[c] = "read" BY <2>1 DEF Takes, Refreshable
    <3>2. \A d \in Caller : AwaitsWrite(d) => target[d] # target[c] BY <3>1
    <3>3. pair[target[c]] \notin consumed \ lost
      <4> SUFFICES ASSUME pair[target[c]] \in consumed, pair[target[c]] \notin lost PROVE FALSE
        OBVIOUS
      <4>1. PICK d \in Caller : AwaitsWrite(d) /\ held[d] = pair[target[c]] /\ target[d] = target[c]
        BY <3>1
      <4> QED BY <3>2, <4>1
    <3> QED BY <2>1, <3>3 DEF Takes
  <2>2. CASE Declines(c) BY <2>2 DEF Declines, End, Leave, Unlock, Goto
  <2> QED BY <1>6, <2>1, <2>2, ReadCases
<1>7. ASSUME NEW c \in Caller, Refreshed(c) PROVE NoTokenReplayed'
  BY <1>7 DEF Refreshed, Rotate, Goto, table
<1>8. ASSUME NEW c \in Caller, ReplyLost(c) PROVE NoTokenReplayed'
  BY <1>8 DEF ReplyLost, Rotate, End, Leave, Unlock, Goto, table
<1>9. ASSUME NEW c \in Caller, ExchangeFails(c) PROVE NoTokenReplayed'
  BY <1>9 DEF ExchangeFails, End, Leave, Unlock, Goto, table, upstream
<1>10. ASSUME NEW c \in Caller, Login(c) PROVE NoTokenReplayed'
  BY <1>10 DEF Login, End, Leave, Unlock, Goto, table
<1>11. ASSUME NEW c \in Caller, Persist(c) PROVE NoTokenReplayed'
  BY <1>11 DEF Persist, Writable, End, Leave, Unlock, Goto, upstream
<1>12. ASSUME NEW c \in Caller, PersistFails(c) PROVE NoTokenReplayed'
  BY <1>12 DEF PersistFails, End, Leave, Unlock, Goto, table, upstream
<1>13. ASSUME NEW u \in Identity, ImportAccount(u) PROVE NoTokenReplayed'
  BY <1>13 DEF ImportAccount, Bring, relay, callers
<1>14. ASSUME NEW i \in RowId, DeleteAccount(i) PROVE NoTokenReplayed'
  BY <1>14 DEF DeleteAccount, relay, callers, upstream
<1>15. ASSUME NEW i \in RowId, SetAccountEnabled(i) PROVE NoTokenReplayed'
  BY <1>15 DEF SetAccountEnabled, relay, callers, upstream
<1>16. ASSUME NEW i \in RowId, ExpiryNears(i) PROVE NoTokenReplayed'
  BY <1>16 DEF ExpiryNears, relay, callers, table
<1>17. ASSUME Crash PROVE NoTokenReplayed'
  BY <1>17 DEF Crash, table, upstream
<1>18. ASSUME UNCHANGED vars PROVE NoTokenReplayed'
  BY <1>18 DEF vars, table, upstream, callers
<1> QED
  BY <1>1, <1>2, <1>3, <1>4, <1>5, <1>6, <1>7, <1>8, <1>9, <1>10, <1>11, <1>12, <1>13, <1>14,
     <1>15, <1>16, <1>17, <1>18 DEF Next, Enter, Proceed, Operate
-----------------------------------------------------------------------------
\* A login holds a pair of the identity its row was read with.
Logins == \A c \in Caller : pc[c] = "persist" /\ ~Refreshing(c) => who[c] = issuedTo[got[c]]

\* The identity of an issued pair stands.
Stands == \A p \in Issued : issuedTo'[p] = issuedTo[p]

LEMMA IssuedStand == TypeOK /\ [Next]_vars => Stands
<1> SUFFICES ASSUME TypeOK, [Next]_vars PROVE Stands
  OBVIOUS
<1> USE DEF Stands
<1>1. ASSUME NEW c \in Caller, Enter(c) \/ Lock(c) PROVE Stands
  BY <1>1 DEF Enter, Select, RefreshNow, Reauthorize, Begin, Lock, upstream
<1>2. ASSUME NEW c \in Caller, Proceed(c) PROVE Stands
  <2>1. CASE UNCHANGED issuedTo
    BY <2>1
  <2>2. CASE issuedTo' # issuedTo
    <3>1. PICK p \in Pair \ Issued, u \in Identity \cup {None} : issuedTo' = [issuedTo EXCEPT ![p] = u]
      <4>1. CASE Login(c)
        BY <4>1 DEF Login
      <4>2. CASE Refreshed(c) \/ ReplyLost(c)
        <5>1. PICK p \in Pair : p \notin Issued /\ issuedTo' = [issuedTo EXCEPT ![p] = issuedTo[held[c]]]
          BY <4>2 DEF Refreshed, ReplyLost, Rotate
        <5>2. held[c] \in Pair
          BY <4>2, RefreshConstants DEF Refreshed, ReplyLost, TypeOK
        <5>3. issuedTo[held[c]] \in Identity \cup {None}
          BY <5>2 DEF TypeOK
        <5> QED BY <5>1, <5>3
      <4> QED BY <1>2, <2>2, <4>1, <4>2
           DEF Proceed, Check, Read, ExchangeFails, Persist, PersistFails, upstream
    <3> QED BY <3>1 DEF TypeOK, Issued
  <2> QED BY <2>1, <2>2
<1>3. ASSUME NEW u \in Identity, ImportAccount(u) PROVE Stands
  BY <1>3 DEF ImportAccount, Bring, TypeOK, Issued
<1>4. CASE Operate /\ ~\E u \in Identity : ImportAccount(u)
  BY <1>4 DEF Operate, DeleteAccount, SetAccountEnabled, ExpiryNears, Crash, upstream
<1>5. CASE UNCHANGED vars
  BY <1>5 DEF vars, upstream
<1> QED BY <1>1, <1>2, <1>3, <1>4, <1>5 DEF Next, Operate

\* A goroutine that awaits its write has just received its pair, or is as it was.
LEMMA AwaitsAsBefore ==
  ASSUME TypeOK, [Next]_vars, NEW c \in Caller, pc'[c] = "persist", ~(\E d \in Caller : Login(d))
  PROVE \/ Refreshing(c)'
        \/ pc[c] = "persist" /\ UNCHANGED <<kind[c], who[c], got[c]>>
<1> USE DEF Goto, TypeOK
<1>1. ASSUME NEW d \in Caller, Enter(d) \/ Lock(d)
      PROVE pc[c] = "persist" /\ UNCHANGED <<kind[c], who[c], got[c]>>
  BY <1>1 DEF Enter, Select, RefreshNow, Reauthorize, Begin, Lock
<1>2. ASSUME NEW d \in Caller, Check(d) \/ Read(d) \/ ExchangeFails(d) \/ ReplyLost(d)
                               \/ Persist(d) \/ PersistFails(d)
      PROVE pc[c] = "persist" /\ UNCHANGED <<kind[c], who[c], got[c]>>
  <2>1. d # c
    BY <1>2 DEF Check, Read, ExchangeFails, ReplyLost, Persist, PersistFails, End, Leave
  <2> QED BY <1>2, <2>1 DEF Check, Read, ExchangeFails, ReplyLost, Persist, PersistFails, End, Leave
<1>3. ASSUME NEW d \in Caller, Refreshed(d)
      PROVE \/ Refreshing(c)'
            \/ pc[c] = "persist" /\ UNCHANGED <<kind[c], who[c], got[c]>>
  <2>1. CASE d = c
    BY <1>3, <2>1 DEF Refreshed, Refreshing
  <2>2. CASE d # c
    BY <1>3, <2>2 DEF Refreshed
  <2> QED BY <2>1, <2>2
<1>4. CASE Operate \/ UNCHANGED vars
  BY <1>4 DEF Operate, ImportAccount, Bring, DeleteAccount, SetAccountEnabled, ExpiryNears, Crash,
              relay, callers, vars
<1> QED BY <1>1, <1>2, <1>3, <1>4 DEF Next, Proceed

LEMMA LoginsStep == TypeOK /\ Chain /\ Logins /\ [Next]_vars => Logins'
<1> SUFFICES ASSUME TypeOK, Chain, Logins, [Next]_vars,
                    NEW c \in Caller, pc'[c] = "persist", ~Refreshing(c)'
             PROVE who'[c] = issuedTo'[got'[c]]
  BY DEF Logins
<1>1. CASE pc[c] = "persist" /\ UNCHANGED <<kind[c], who[c], got[c]>>
  <2>1. got[c] \in Issued /\ who[c] = issuedTo[got[c]]
    BY <1>1 DEF Chain, Logins, Refreshing
  <2>2. issuedTo'[got[c]] = issuedTo[got[c]]
    BY <2>1, IssuedStand DEF Stands
  <2> QED BY <1>1, <2>1, <2>2
<1>2. ASSUME NEW d \in Caller, Login(d) PROVE who'[c] = issuedTo'[got'[c]]
  <2>1. PICK u \in Identity, p \in Pair \ Issued :
          /\ pc[d] = "exchange" /\ issuedTo' = [issuedTo EXCEPT ![p] = u]
          /\ IF u = who[d]
             THEN got' = [got EXCEPT ![d] = p] /\ Goto(d, "persist") /\ UNCHANGED <<kind, who>>
             ELSE End(d)
    BY <1>2 DEF Login
  <2>2. CASE d = c
    <3>1. u = who[c]
      BY <2>1, <2>2 DEF End, Leave, Goto, TypeOK
    <3>2. got'[c] = p /\ who'[c] = who[c]
      BY <2>1, <2>2, <3>1 DEF TypeOK
    <3>3. issuedTo'[p] = u
      BY <2>1 DEF TypeOK
    <3> QED BY <3>1, <3>2, <3>3
  <2>3. CASE d # c
    <3>1. pc[c] = "persist" /\ UNCHANGED <<kind[c], who[c], got[c]>>
      BY <2>1, <2>3 DEF End, Leave, Goto, TypeOK
    <3> QED BY <1>1, <3>1
  <2> QED BY <2>2, <2>3
<1> QED BY <1>1, <1>2, AwaitsAsBefore

\* A step that puts the pair of a login into its row is the login's own write.
LEMMA LoginWrites ==
  ASSUME TypeOK, Chain, Logins, [Next]_vars,
         NEW c \in Caller, pc[c] = "persist", ~Refreshing(c), pair'[target[c]] = got[c]
  PROVE uuid[target[c]] = issuedTo[got[c]]
<1>1. target[c] \in RowId /\ got[c] \in Issued /\ got[c] \in Pair /\ got[c] # None
  BY RefreshConstants DEF TypeOK, Chain, Issued
<1>2. pair[target[c]] # got[c]
  <2>1. target[c] \in Rows => pair[target[c]] # got[c]
    BY DEF Chain
  <2>2. target[c] \notin Rows => pair[target[c]] = None
    BY <1>1 DEF Rows, TypeOK
  <2> QED BY <1>1, <2>1, <2>2
<1>3. ASSUME NEW d \in Caller, Persist(d) PROVE uuid[target[c]] = issuedTo[got[c]]
  <2>1. pc[d] = "persist" /\ Writable(d) /\ pair' = [pair EXCEPT ![target[d]] = got[d]]
    BY <1>3 DEF Persist
  <2>2. target[d] = target[c] /\ got[d] = got[c]
    BY <1>1, <1>2, <2>1 DEF TypeOK
  <2>3. d = c
    BY <2>1, <2>2 DEF Chain
  <2>4. uuid[target[c]] = who[c]
    BY <2>1, <2>3 DEF Writable
  <2> QED BY <2>4 DEF Logins
<1>4. ASSUME NEW u \in Identity, ImportAccount(u) PROVE FALSE
  <2>1. PICK i \in RowId, p \in Pair \ Issued : pair' = [pair EXCEPT ![i] = p]
    BY <1>4 DEF ImportAccount, Bring
  <2> QED BY <1>1, <1>2, <2>1 DEF TypeOK
<1>5. ASSUME NEW i \in RowId, DeleteAccount(i) PROVE FALSE
  BY <1>1, <1>2, <1>5 DEF DeleteAccount, TypeOK
<1>6. ASSUME UNCHANGED pair PROVE FALSE
  BY <1>2, <1>6
<1>7. ASSUME NEW d \in Caller, Enter(d) \/ Lock(d) PROVE UNCHANGED pair
  BY <1>7 DEF Enter, Select, RefreshNow, Reauthorize, Begin, Lock, table
<1>8. ASSUME NEW d \in Caller, Proceed(d), ~Persist(d) PROVE UNCHANGED pair
  BY <1>8 DEF Proceed, Check, Read, Refreshed, ReplyLost, ExchangeFails, Login, PersistFails, table
<1>9. ASSUME \/ \E i \in RowId : SetAccountEnabled(i) \/ ExpiryNears(i)
             \/ Crash \/ UNCHANGED vars
      PROVE UNCHANGED pair
  BY <1>9 DEF SetAccountEnabled, ExpiryNears, Crash, vars, table
<1> QED BY <1>3, <1>4, <1>5, <1>6, <1>7, <1>8, <1>9 DEF Next, Operate
-----------------------------------------------------------------------------
\* No row, no goroutine and no issued pair at the start.
LEMMA InitIInv == Init => IInv
BY RefreshConstants
   DEF Init, IInv, TypeOK, LocksHeld, Inside, Chain, Active, Rows, RowsHoldLivePairs, NoTokenReplayed

\* The inductive invariant of the specification.
THEOREM RefreshInvariant == Spec => []IInv
<1>1. Init => IInv BY InitIInv
<1>2. IInv /\ [Next]_vars => IInv'
  BY TypeStep, LocksStep, ChainStep, LiveStep, ReplayStep DEF IInv
<1> QED BY <1>1, <1>2, PTL DEF Spec

\* Rows, locks and goroutines keep their type.
THEOREM RefreshTypes == Spec => []TypeOK
<1>1. IInv => TypeOK BY DEF IInv
<1> QED BY <1>1, RefreshInvariant, PTL

\* Two goroutines never read, exchange and write one row's tokens at a time.
THEOREM RefreshesExclude == Spec => []OneRefreshPerRow
<1>1. IInv => OneRefreshPerRow BY DEF IInv, LocksHeld, OneRefreshPerRow
<1> QED BY <1>1, RefreshInvariant, PTL

\* No goroutine presents a refresh token whose successor the relay received.
THEOREM TokensUsedOnce == Spec => []NoTokenReplayed
<1>1. IInv => NoTokenReplayed BY DEF IInv
<1> QED BY <1>1, RefreshInvariant, PTL

\* Every row's pair is alive, unless its successor is on the way or was lost.
THEOREM RowsStayLive == Spec => []RowsHoldLivePairs
<1>1. IInv => RowsHoldLivePairs BY DEF IInv
<1> QED BY <1>1, RefreshInvariant, PTL

\* A login is written to its row only while the row has the identity that logged in.
THEOREM LoginsKeepIdentity == Spec => LoginKeepsIdentity
<1>1. Init => Logins BY DEF Init, Logins
<1>2. IInv /\ Logins /\ [Next]_vars => Logins'
  BY LoginsStep DEF IInv
<1>3. IInv /\ Logins /\ [Next]_vars =>
        [\A c \in Caller : pc[c] = "persist" /\ ~Refreshing(c) /\ pair'[target[c]] = got[c]
           => uuid[target[c]] = issuedTo[got[c]]]_vars
  BY LoginWrites DEF IInv
<1> QED BY <1>1, <1>2, <1>3, RefreshInvariant, PTL DEF Spec, LoginKeepsIdentity
=============================================================================
