-------------------------- MODULE AdmissionProofs --------------------------
(***************************************************************************)
(* The safety of local admission for any number of calls, accounts and      *)
(* sessions.  IInv is inductive: the counts of the two trackers equal the   *)
(* numbers of calls that hold something, which needs to know from the       *)
(* control state where a call can hold anything at all, and for which       *)
(* account.  Room and Choice are inductive beside it: how many sessions an  *)
(* account counts, and which account a call may still choose.               *)
(***************************************************************************)
EXTENDS Admission, FiniteSetTheorems, TLAPS

\* Where a call holds nothing yet, and where it has chosen an account.
Unreserved == {"idle", "select", "forced", "uuid", "pending", "binding", "accounts", "balance",
               "quota", "quotaPick", "reserve"}
Chosen == {"reserve", "admit", "fresh", "upstream", "failover", "stream", "release"}

Bound(q) == IF route[q].count THEN CountLimit ELSE peak

ControlOK ==
  /\ limit <= peak
  /\ \A q \in Request :
       /\ pc[q] \in Unreserved => ~slot[q] /\ ~sess[q]
       /\ pc[q] = "admit" => ~sess[q]
       /\ pc[q] = "forced" => route[q].forced # None
       /\ pc[q] \in Chosen => cand[q] \in Account
       /\ slot[q] => cand[q] \in Account
       /\ sess[q] => cand[q] \in Account /\ route[q].key \in Session
       /\ pc[q] = "idle" => lim[q] = 0
       /\ lim[q] <= Bound(q)

IInv == TypeOK /\ ControlOK /\ SlotsMatchHolders /\ SessionsMatchHolders /\ HoldersWithinLimit

\* What a step may do to the reservations of in-flight slots...
KeepsSlots ==
  /\ inFlight' = inFlight /\ slot' = slot
  /\ \A q \in Request : slot[q] => cand'[q] = cand[q] /\ route'[q] = route[q]

TakesSlot(q) ==
  /\ ~slot[q]
  /\ cand'[q] \in Account
  /\ Load(q, cand'[q]) < lim[q]
  /\ TakeSlot(q, cand'[q])
  /\ route' = route
  /\ \A p \in Request \ {q} : cand'[p] = cand[p]

DropsSlot(q) ==
  /\ DropSlot(q)
  /\ \A p \in Request \ {q} : cand'[p] = cand[p] /\ route'[p] = route[p]

ResetsSlots ==
  /\ inFlight' = [kind \in Kind |-> [a \in Account |-> 0]]
  /\ slot' = [q \in Request |-> FALSE]

SlotStep == KeepsSlots \/ ResetsSlots \/ \E q \in Request : TakesSlot(q) \/ DropsSlot(q)

\* ... and of provisional session slots.
KeepsSessions ==
  /\ UNCHANGED <<pendingTo, refs, perAccount, sess>>
  /\ \A q \in Request : sess[q] => cand'[q] = cand[q] /\ route'[q] = route[q]

SharesSession(q) ==
  /\ ~sess[q] /\ route[q].key \in Session
  /\ pendingTo[route[q].key] = cand[q] /\ cand[q] \in Account
  /\ refs' = [refs EXCEPT ![route[q].key] = @ + 1]
  /\ sess' = [sess EXCEPT ![q] = TRUE]
  /\ UNCHANGED <<pendingTo, perAccount, cand, route>>

OpensSession(q) ==
  /\ ~sess[q] /\ route[q].key \in Session
  /\ pendingTo[route[q].key] = None /\ cand[q] \in Account
  /\ pendingTo' = [pendingTo EXCEPT ![route[q].key] = cand[q]]
  /\ refs' = [refs EXCEPT ![route[q].key] = 1]
  /\ perAccount' = [perAccount EXCEPT ![cand[q]] = @ + 1]
  /\ sess' = [sess EXCEPT ![q] = TRUE]
  /\ UNCHANGED <<cand, route>>

DropsSession(q) ==
  /\ DropSession(q)
  /\ \A p \in Request \ {q} : cand'[p] = cand[p] /\ route'[p] = route[p]

ResetsSessions ==
  /\ pendingTo' = [k \in Session |-> None]
  /\ refs' = [k \in Session |-> 0]
  /\ perAccount' = [a \in Account |-> 0]
  /\ sess' = [q \in Request |-> FALSE]

SessionStep ==
  \/ KeepsSessions \/ ResetsSessions
  \/ \E q \in Request : SharesSession(q) \/ OpensSession(q) \/ DropsSession(q)

-----------------------------------------------------------------------------
\* Every route is a record of the declared fields, so a call has a kind.
LEMMA RouteFields ==
  ASSUME TypeOK
  PROVE  \A q \in Request : route[q] \in RouteType /\ KindOf(q) \in Kind
  <1>1. NoRoute \in RouteType
    BY DEF NoRoute, RouteType
  <1>2. QED
    BY <1>1, AdmissionConstants DEF TypeOK, RouteType, KindOf, Kind

\* The holders of a slot or of a session are finitely many.
LEMMA HoldersFinite ==
  /\ \A kind, a : IsFiniteSet(Holders(kind, a)) /\ Cardinality(Holders(kind, a)) \in Nat
  /\ \A k : IsFiniteSet(SessionHolders(k)) /\ Cardinality(SessionHolders(k)) \in Nat
  /\ \A a : IsFiniteSet(PendingOn(a)) /\ Cardinality(PendingOn(a)) \in Nat
  <1>1. \A kind, a : Holders(kind, a) \in SUBSET Request
    BY DEF Holders
  <1>2. \A k : SessionHolders(k) \in SUBSET Request
    BY DEF SessionHolders
  <1>3. \A a : PendingOn(a) \in SUBSET Session
    BY DEF PendingOn
  <1>4. QED
    BY <1>1, <1>2, <1>3, FS_Subset, FS_CardinalityType, AdmissionConstants

\* Taking, keeping or giving back a slot keeps the counts exact and the holders
\* within the limit.
LEMMA SlotStepKeeps ==
  ASSUME IInv, SlotStep, TypeOK', peak' >= peak
  PROVE  SlotsMatchHolders' /\ HoldersWithinLimit'
  <1> USE RouteFields, HoldersFinite
  <1>0. TypeOK /\ ControlOK /\ SlotsMatchHolders /\ HoldersWithinLimit
    BY DEF IInv
  <1>1. CASE KeepsSlots
    <2>1. \A kind, a : Holders(kind, a)' = Holders(kind, a)
      BY <1>1 DEF KeepsSlots, Holders, KindOf
    <2>2. SlotsMatchHolders'
      BY <1>0, <1>1, <2>1 DEF SlotsMatchHolders, KeepsSlots
    <2>3. HoldersWithinLimit'
      BY <1>0, <2>1, AdmissionConstants DEF HoldersWithinLimit, TypeOK
    <2>4. QED  BY <2>2, <2>3
  <1>2. CASE ResetsSlots
    <2>1. \A kind, a : Holders(kind, a)' = {}
      BY <1>2 DEF ResetsSlots, Holders
    <2>2. \A kind, a : Cardinality(Holders(kind, a)') = 0
      BY <2>1, FS_EmptySet
    <2>3. SlotsMatchHolders'
      BY <1>2, <2>2 DEF ResetsSlots, SlotsMatchHolders
    <2>4. HoldersWithinLimit'
      BY <2>2, AdmissionConstants DEF HoldersWithinLimit, TypeOK
    <2>5. QED  BY <2>3, <2>4
  <1>3. ASSUME NEW q \in Request, TakesSlot(q)
        PROVE  SlotsMatchHolders' /\ HoldersWithinLimit'
    <2> PICK a \in Account, kind \in Kind : cand'[q] = a /\ KindOf(q) = kind
      BY <1>0, <1>3 DEF TakesSlot
    <2>0. q \notin Holders(kind, a)
      BY <1>3 DEF TakesSlot, Holders
    <2>1. Holders(kind, a)' = Holders(kind, a) \cup {q}
      BY <1>0, <1>3 DEF TakesSlot, TakeSlot, Holders, KindOf, TypeOK
    <2>2. \A k, b : k # kind \/ b # a => Holders(k, b)' = Holders(k, b)
      BY <1>0, <1>3 DEF TakesSlot, TakeSlot, Holders, KindOf, TypeOK
    <2>3. Cardinality(Holders(kind, a)') = Cardinality(Holders(kind, a)) + 1
      <3>1. IsFiniteSet(Holders(kind, a))
        OBVIOUS
      <3> HIDE RouteFields, HoldersFinite
      <3>2. QED  BY <2>0, <2>1, <3>1, FS_AddElement
    <2>4. inFlight'[kind][a] = inFlight[kind][a] + 1
      BY <1>0, <1>3, <2>0 DEF TakesSlot, TakeSlot, TypeOK
    <2>5. \A k \in Kind, b \in Account : k # kind \/ b # a => inFlight'[k][b] = inFlight[k][b]
      BY <1>0, <1>3, <2>0 DEF TakesSlot, TakeSlot, TypeOK
    <2>6. SlotsMatchHolders'
      BY <1>0, <2>0, <2>2, <2>3, <2>4, <2>5 DEF SlotsMatchHolders
    <2>7. inFlight[kind][a] < lim[q] /\ lim[q] <= Bound(q)
      BY <1>0, <1>3 DEF TakesSlot, Load, ControlOK
    <2>8. Cardinality(Holders(kind, a)') <= Bound(q)
      BY <1>0, <2>0, <2>3, <2>7, AdmissionConstants DEF SlotsMatchHolders, Bound, TypeOK
    <2>9. HoldersWithinLimit'
      <3> SUFFICES ASSUME NEW b \in Account
                   PROVE  /\ Cardinality(Holders("messages", b)') <= peak'
                          /\ Cardinality(Holders("count", b)') <= CountLimit
        BY DEF HoldersWithinLimit
      <3>1. peak \in Nat /\ peak' \in Nat /\ CountLimit \in Nat
        BY <1>0, AdmissionConstants DEF TypeOK
      <3>2. Cardinality(Holders("messages", b)) \in Nat /\ Cardinality(Holders("count", b)) \in Nat
            /\ Cardinality(Holders("messages", b)') \in Nat
        BY <2>2, <2>3, <2>0
      <3>3. Cardinality(Holders("messages", b)') <= peak'
        BY <1>0, <2>2, <2>8, <3>1, <3>2 DEF HoldersWithinLimit, Bound, KindOf
      <3>4. Cardinality(Holders("count", b)') <= CountLimit
        BY <1>0, <2>2, <2>8, <3>1, <3>2 DEF HoldersWithinLimit, Bound, KindOf
      <3>5. QED  BY <3>3, <3>4
    <2>10. QED  BY <2>6, <2>9
  <1>4. ASSUME NEW q \in Request, DropsSlot(q)
        PROVE  SlotsMatchHolders' /\ HoldersWithinLimit'
    <2> DEFINE a == cand[q]
               kind == KindOf(q)
    <2>1. \A k, b : Holders(k, b)' = Holders(k, b) \ {q}
      BY <1>0, <1>4 DEF DropsSlot, DropSlot, Holders, KindOf, TypeOK
    <2>2. \A k, b : Cardinality(Holders(k, b)') =
                      IF q \in Holders(k, b) THEN Cardinality(Holders(k, b)) - 1
                                             ELSE Cardinality(Holders(k, b))
      BY <2>1, FS_RemoveElement
    <2>3. \A k \in Kind, b \in Account :
            q \in Holders(k, b) <=> slot[q] /\ k = kind /\ b = a
      BY DEF Holders
    <2>4. slot[q] => a \in Account /\ kind \in Kind /\ inFlight[kind][a] = Cardinality(Holders(kind, a))
      BY <1>0 DEF ControlOK, SlotsMatchHolders
    <2>5. slot[q] => Cardinality(Holders(kind, a)) >= 1
      <3>1. slot[q] => q \in Holders(kind, a)
        BY DEF Holders
      <3>2. QED  BY <2>2, <3>1, FS_EmptySet
    <2>6. \A k \in Kind, b \in Account :
            inFlight'[k][b] = IF slot[q] /\ k = kind /\ b = a THEN inFlight[k][b] - 1
                              ELSE inFlight[k][b]
      BY <1>0, <1>4, <2>4, <2>5 DEF DropsSlot, DropSlot, TypeOK
    <2>7. SlotsMatchHolders'
      BY <1>0, <2>2, <2>3, <2>6 DEF SlotsMatchHolders
    <2>8. \A k, b : Cardinality(Holders(k, b)') <= Cardinality(Holders(k, b))
      BY <2>2
    <2>9. HoldersWithinLimit'
      <3> SUFFICES ASSUME NEW b \in Account
                   PROVE  /\ Cardinality(Holders("messages", b)') <= peak'
                          /\ Cardinality(Holders("count", b)') <= CountLimit
        BY DEF HoldersWithinLimit
      <3>1. peak \in Nat /\ peak' \in Nat /\ CountLimit \in Nat
        BY <1>0, AdmissionConstants DEF TypeOK
      <3>2. Cardinality(Holders("messages", b)) <= peak /\ Cardinality(Holders("count", b)) <= CountLimit
        BY <1>0 DEF HoldersWithinLimit
      <3>3. \A k : Cardinality(Holders(k, b)') \in Int
        BY <2>2
      <3>4. QED  BY <2>8, <3>1, <3>2, <3>3
    <2>10. QED  BY <2>7, <2>9
  <1>5. QED
    BY <1>1, <1>2, <1>3, <1>4 DEF SlotStep

\* Sharing, opening or giving back a session slot keeps reference counts,
\* accounts and per-account totals exact.
LEMMA SessionStepKeeps ==
  ASSUME IInv, SessionStep, TypeOK'
  PROVE  SessionsMatchHolders'
  <1> USE RouteFields, HoldersFinite
  <1>0. TypeOK /\ ControlOK /\ SessionsMatchHolders /\ None \notin Account
    BY AdmissionConstants DEF IInv
  <1>1. CASE KeepsSessions
    <2>1. \A k : SessionHolders(k)' = SessionHolders(k)
      BY <1>1 DEF KeepsSessions, SessionHolders
    <2>2. \A a : PendingOn(a)' = PendingOn(a)
      BY <1>1 DEF KeepsSessions, PendingOn
    <2>3. \A k : \A q \in SessionHolders(k) : cand'[q] = cand[q]
      BY <1>1 DEF KeepsSessions, SessionHolders
    <2>4. QED
      BY <1>0, <1>1, <2>1, <2>2, <2>3 DEF SessionsMatchHolders, KeepsSessions
  <1>2. CASE ResetsSessions
    <2>1. \A k : SessionHolders(k)' = {}
      BY <1>2 DEF ResetsSessions, SessionHolders
    <2>2. \A a \in Account : PendingOn(a)' = {}
      BY <1>0, <1>2 DEF ResetsSessions, PendingOn
    <2>3. QED
      BY <1>2, <2>1, <2>2, FS_EmptySet DEF SessionsMatchHolders, ResetsSessions
  <1>3. ASSUME NEW q \in Request, SharesSession(q)
        PROVE  SessionsMatchHolders'
    <2> PICK key \in Session, a \in Account : route[q].key = key /\ cand[q] = a
      BY <1>3 DEF SharesSession
    <2>1. q \notin SessionHolders(key) /\ pendingTo[key] = a
      BY <1>3 DEF SharesSession, SessionHolders
    <2>2. SessionHolders(key)' = SessionHolders(key) \cup {q}
      BY <1>0, <1>3 DEF SharesSession, SessionHolders, TypeOK
    <2>3. \A k : k # key => SessionHolders(k)' = SessionHolders(k)
      BY <1>0, <1>3 DEF SharesSession, SessionHolders, TypeOK
    <2>4. Cardinality(SessionHolders(key)') = Cardinality(SessionHolders(key)) + 1
      BY <2>1, <2>2, FS_AddElement
    <2>5. \A b : PendingOn(b)' = PendingOn(b)
      BY <1>3 DEF SharesSession, PendingOn
    <2>6. \A k \in Session : refs'[k] = IF k = key THEN refs[k] + 1 ELSE refs[k]
      BY <1>0, <1>3 DEF SharesSession, TypeOK
    <2>7. \A k \in Session : refs'[k] = Cardinality(SessionHolders(k)')
      BY <1>0, <2>3, <2>4, <2>6 DEF SessionsMatchHolders
    <2>8. \A k \in Session : pendingTo'[k] # None <=> SessionHolders(k)' # {}
      BY <1>0, <1>3, <2>1, <2>2, <2>3 DEF SessionsMatchHolders, SharesSession
    <2>9. \A k \in Session : \A p \in SessionHolders(k)' : cand'[p] = pendingTo'[k]
      BY <1>0, <1>3, <2>1, <2>2, <2>3 DEF SessionsMatchHolders, SharesSession
    <2>10. \A b \in Account : perAccount'[b] = Cardinality(PendingOn(b)')
      BY <1>0, <1>3, <2>5 DEF SessionsMatchHolders, SharesSession
    <2>11. QED  BY <2>7, <2>8, <2>9, <2>10 DEF SessionsMatchHolders
  <1>4. ASSUME NEW q \in Request, OpensSession(q)
        PROVE  SessionsMatchHolders'
    <2> PICK key \in Session, a \in Account : route[q].key = key /\ cand[q] = a
      BY <1>4 DEF OpensSession
    <2>1. SessionHolders(key) = {} /\ pendingTo[key] = None
      BY <1>0, <1>4 DEF OpensSession, SessionsMatchHolders
    <2>2. SessionHolders(key)' = {q}
      BY <1>0, <1>4, <2>1 DEF OpensSession, SessionHolders, TypeOK
    <2>3. \A k : k # key => SessionHolders(k)' = SessionHolders(k)
      BY <1>0, <1>4 DEF OpensSession, SessionHolders, TypeOK
    <2>4. \A k \in Session : /\ pendingTo'[k] = IF k = key THEN a ELSE pendingTo[k]
                            /\ refs'[k] = IF k = key THEN 1 ELSE refs[k]
      BY <1>0, <1>4 DEF OpensSession, TypeOK
    <2>5. PendingOn(a)' = PendingOn(a) \cup {key} /\ key \notin PendingOn(a)
      BY <1>0, <2>1, <2>4 DEF PendingOn
    <2>6. \A b \in Account : b # a => PendingOn(b)' = PendingOn(b)
      BY <1>0, <2>1, <2>4 DEF PendingOn
    <2>7. Cardinality(PendingOn(a)') = Cardinality(PendingOn(a)) + 1
      BY <2>5, FS_AddElement
    <2>8. \A k \in Session : refs'[k] = Cardinality(SessionHolders(k)')
      BY <1>0, <2>2, <2>3, <2>4, FS_Singleton DEF SessionsMatchHolders
    <2>9. \A k \in Session : /\ pendingTo'[k] # None <=> SessionHolders(k)' # {}
                            /\ \A p \in SessionHolders(k)' : cand'[p] = pendingTo'[k]
      BY <1>0, <1>4, <2>2, <2>3, <2>4 DEF SessionsMatchHolders, OpensSession
    <2>10. \A b \in Account : perAccount'[b] = IF b = a THEN perAccount[b] + 1 ELSE perAccount[b]
      BY <1>0, <1>4 DEF OpensSession, TypeOK
    <2>11. \A b \in Account : perAccount'[b] = Cardinality(PendingOn(b)')
      BY <1>0, <2>6, <2>7, <2>10 DEF SessionsMatchHolders
    <2>12. QED  BY <2>8, <2>9, <2>11 DEF SessionsMatchHolders
  <1>5. ASSUME NEW q \in Request, DropsSession(q), sess[q]
        PROVE  SessionsMatchHolders'
    <2> PICK key \in Session, a \in Account : route[q].key = key /\ cand[q] = a
      BY <1>0, <1>5 DEF ControlOK
    <2>1. q \in SessionHolders(key)
      BY <1>5 DEF SessionHolders
    <2>2. pendingTo[key] = a /\ refs[key] = Cardinality(SessionHolders(key))
      BY <1>0, <2>1 DEF SessionsMatchHolders
    <2>3. SessionHolders(key)' = SessionHolders(key) \ {q}
      BY <1>0, <1>5 DEF DropsSession, DropSession, SessionHolders, TypeOK
    <2>4. \A k : k # key => SessionHolders(k)' = SessionHolders(k)
      BY <1>0, <1>5 DEF DropsSession, DropSession, SessionHolders, TypeOK
    <2>5. Cardinality(SessionHolders(key)') = refs[key] - 1
      <3>1. IsFiniteSet(SessionHolders(key))
        OBVIOUS
      <3> HIDE RouteFields, HoldersFinite
      <3>2. QED  BY <2>1, <2>2, <2>3, <3>1, FS_RemoveElement
    <2>6. SessionHolders(key)' = {} <=> refs[key] = 1
      <3>1. IsFiniteSet(SessionHolders(key)')
        BY <2>3, FS_RemoveElement
      <3>2. refs[key] \in Nat
        BY <1>0 DEF TypeOK
      <3>3. QED  BY <2>5, <3>1, <3>2, FS_EmptySet
    <2>7. refs[key] >= 1
      BY <2>1, <2>2, FS_EmptySet
    <2>8. LastReference(q) <=> refs[key] = 1
      BY <1>0, <1>5, <2>7 DEF LastReference, TypeOK
    <2>9. \A k \in Session :
            /\ refs'[k] = IF k = key THEN refs[k] - 1 ELSE refs[k]
            /\ pendingTo'[k] = IF k = key /\ refs[key] = 1 THEN None ELSE pendingTo[k]
      BY <1>0, <1>5, <2>8 DEF DropsSession, DropSession, TypeOK
    <2>10. \A k \in Session : refs'[k] = Cardinality(SessionHolders(k)')
      BY <1>0, <2>4, <2>5, <2>9 DEF SessionsMatchHolders
    <2>11. \A k \in Session : pendingTo'[k] # None <=> SessionHolders(k)' # {}
      BY <1>0, <2>2, <2>4, <2>6, <2>9 DEF SessionsMatchHolders
    <2>12. \A k \in Session : \A p \in SessionHolders(k)' : cand'[p] = pendingTo'[k]
      <3> SUFFICES ASSUME NEW k \in Session, NEW p \in SessionHolders(k)'
                   PROVE  cand'[p] = pendingTo'[k]
        OBVIOUS
      <3>1. p \in SessionHolders(k) /\ p # q
        <4>1. p \in Request /\ sess'[p] /\ route'[p].key = k
          BY DEF SessionHolders
        <4>2. p # q /\ sess[p]
          BY <1>0, <1>5, <4>1 DEF DropsSession, DropSession, TypeOK
        <4>3. QED  BY <1>5, <4>1, <4>2 DEF DropsSession, SessionHolders
      <3>2. cand'[p] = pendingTo[k]
        <4>1. cand[p] = pendingTo[k]
          BY <1>0, <3>1 DEF SessionsMatchHolders
        <4>2. p \in Request \ {q}
          BY <3>1 DEF SessionHolders
        <4>3. QED  BY <1>5, <4>1, <4>2 DEF DropsSession
      <3>3. CASE k = key
        <4>1. SessionHolders(key)' # {}
          BY <1>5, <2>3, <3>1, <3>3 DEF SessionHolders
        <4>2. QED  BY <2>6, <2>9, <3>2, <4>1
      <3>4. CASE k # key
        BY <2>9, <3>2, <3>4
      <3>5. QED  BY <3>3, <3>4
    <2>13. \A b \in Account : perAccount'[b] = Cardinality(PendingOn(b)')
      <3>1. CASE refs[key] # 1
        <4>1. \A b : PendingOn(b)' = PendingOn(b)
          BY <2>9, <3>1 DEF PendingOn
        <4>2. perAccount' = perAccount
          BY <1>5, <2>8, <3>1 DEF DropsSession, DropSession
        <4>3. QED  BY <1>0, <4>1, <4>2 DEF SessionsMatchHolders
      <3>2. CASE refs[key] = 1
        <4>1. \A b \in Account : PendingOn(b)' = IF b = a THEN PendingOn(b) \ {key} ELSE PendingOn(b)
          BY <1>0, <2>2, <2>9, <3>2 DEF PendingOn
        <4>2. key \in PendingOn(a)
          BY <2>2 DEF PendingOn
        <4>3. Cardinality(PendingOn(a)') = Cardinality(PendingOn(a)) - 1
          BY <4>1, <4>2, FS_RemoveElement
        <4>4. perAccount[a] >= 1 /\ perAccount[a] = Cardinality(PendingOn(a))
          BY <1>0, <4>2, FS_EmptySet DEF SessionsMatchHolders
        <4>5. \A b \in Account : perAccount'[b] = IF b = a THEN perAccount[b] - 1 ELSE perAccount[b]
          BY <1>0, <1>5, <2>2, <2>8, <3>2, <4>4 DEF DropsSession, DropSession, TypeOK
        <4>6. QED  BY <1>0, <4>1, <4>3, <4>4, <4>5 DEF SessionsMatchHolders
      <3>3. QED  BY <3>1, <3>2
    <2>14. QED  BY <2>10, <2>11, <2>12, <2>13 DEF SessionsMatchHolders
  <1>6. ASSUME NEW q \in Request, DropsSession(q), ~sess[q]
        PROVE  SessionsMatchHolders'
    <2>1. UNCHANGED <<pendingTo, refs, perAccount, sess>>
      BY <1>0, <1>6 DEF DropsSession, DropSession, LastReference, TypeOK
    <2>2. \A p \in Request : sess[p] => cand'[p] = cand[p] /\ route'[p] = route[p]
      BY <1>6 DEF DropsSession
    <2>3. QED  BY <1>1, <2>1, <2>2 DEF KeepsSessions
  <1>7. QED
    BY <1>1, <1>2, <1>3, <1>4, <1>5, <1>6 DEF SessionStep
-----------------------------------------------------------------------------
\* What the counting lemmas need of a step.
Shape ==
  /\ TypeOK' /\ ControlOK' /\ SlotStep /\ SessionStep
  /\ peak' = peak \/ (peak' > peak /\ KeepsSlots)

\* Dropping a session slot never takes a reference count below zero, for the
\* dropping call is one of the holders it counts.
LEMMA DropsKeepTypes ==
  ASSUME IInv, NEW q \in Request, DropSlot(q), DropSession(q)
  PROVE  /\ inFlight' \in [Kind -> [Account -> Nat]] /\ slot' \in [Request -> BOOLEAN]
         /\ pendingTo' \in [Session -> Account \cup {None}] /\ refs' \in [Session -> Nat]
         /\ perAccount' \in [Account -> Nat] /\ sess' \in [Request -> BOOLEAN]
  <1> USE RouteFields, HoldersFinite
  <1>0. TypeOK /\ ControlOK /\ SessionsMatchHolders
    BY DEF IInv
  <1>1. inFlight' \in [Kind -> [Account -> Nat]] /\ slot' \in [Request -> BOOLEAN]
    BY <1>0 DEF DropSlot, TypeOK, ControlOK
  <1>2. sess[q] => route[q].key \in Session /\ cand[q] \in Account
                   /\ pendingTo[route[q].key] = cand[q] /\ refs[route[q].key] >= 1
    <2> SUFFICES ASSUME sess[q]
                 PROVE  route[q].key \in Session /\ cand[q] \in Account
                        /\ pendingTo[route[q].key] = cand[q] /\ refs[route[q].key] >= 1
      OBVIOUS
    <2>1. route[q].key \in Session /\ cand[q] \in Account
      BY <1>0 DEF ControlOK
    <2>2. q \in SessionHolders(route[q].key)
      BY DEF SessionHolders
    <2>3. pendingTo[route[q].key] = cand[q]
          /\ refs[route[q].key] = Cardinality(SessionHolders(route[q].key))
      BY <1>0, <2>1, <2>2 DEF SessionsMatchHolders
    <2>4. refs[route[q].key] # 0 /\ refs[route[q].key] \in Nat
      BY <1>0, <2>1, <2>2, <2>3, FS_EmptySet DEF TypeOK
    <2>5. QED  BY <2>1, <2>3, <2>4
  <1>3. refs' \in [Session -> Nat] /\ sess' \in [Request -> BOOLEAN]
    BY <1>0, <1>2 DEF DropSession, TypeOK
  <1>4. pendingTo' \in [Session -> Account \cup {None}] /\ perAccount' \in [Account -> Nat]
    BY <1>0, <1>2 DEF DropSession, LastReference, TypeOK
  <1>5. QED  BY <1>1, <1>3, <1>4

\* Ending a call gives back whatever it holds.
LEMMA FinishShape ==
  ASSUME IInv, NEW q \in Request, NEW result \in {"none", "429", "503"}, Finish(q, result)
  PROVE  Shape
  <1>0. TypeOK /\ ControlOK /\ NoRoute.count = FALSE
    BY DEF IInv, NoRoute
  <1>1. /\ inFlight' \in [Kind -> [Account -> Nat]] /\ slot' \in [Request -> BOOLEAN]
        /\ pendingTo' \in [Session -> Account \cup {None}] /\ refs' \in [Session -> Nat]
        /\ perAccount' \in [Account -> Nat] /\ sess' \in [Request -> BOOLEAN]
    BY DropsKeepTypes DEF Finish
  <1>2. TypeOK'
    BY <1>0, <1>1 DEF TypeOK, Finish, Forget, ForgetAccounts, Goto, storeVars
  <1>3. ControlOK'
    BY <1>0, <1>1, AdmissionConstants
       DEF TypeOK, ControlOK, Finish, Forget, Goto, DropSlot, DropSession, storeVars, Bound,
           Unreserved, Chosen
  <1>4. DropsSlot(q) /\ DropsSession(q)
    BY <1>0 DEF TypeOK, DropsSlot, DropsSession, Finish, Forget
  <1>5. peak' = peak
    BY DEF Finish
  <1>6. QED  BY <1>2, <1>3, <1>4, <1>5 DEF Shape, SlotStep, SessionStep

\* Naming a candidate account reserves nothing.
LEMMA CandidateShape ==
  ASSUME IInv, NEW q \in Request, NEW a \in Account, pc[q] \in Unreserved,
         NEW source \in {"header", "account_uuid", "session_pending", "sticky"},
         Candidate(q, a, source)
  PROVE  Shape
  <1>0. TypeOK /\ ControlOK /\ SlotsMatchHolders
    BY DEF IInv
  <1>1. limit \in Nat /\ CountLimit \in Nat /\ peak \in Nat
    BY <1>0, AdmissionConstants DEF TypeOK
  <1>2. TypeOK'
    BY <1>0, <1>1 DEF TypeOK, Candidate, Goto, storeVars, trackerVars, observed, LimitFor
  <1>3. ControlOK'
    BY <1>0, <1>1 DEF TypeOK, ControlOK, Candidate, Goto, storeVars, trackerVars, observed,
                      LimitFor, Bound, Unreserved, Chosen
  <1>4. KeepsSlots /\ KeepsSessions
    BY <1>0 DEF TypeOK, ControlOK, Candidate, KeepsSlots, KeepsSessions, trackerVars
  <1>5. QED
    BY <1>1, <1>2, <1>3, <1>4 DEF Shape, SlotStep, SessionStep, Candidate, observed

\* Passing on to the next lookup changes nothing but the place in the code.
LEMMA AdvanceShape ==
  ASSUME IInv, NEW q \in Request, NEW label \in {"pending", "binding", "accounts"},
         pc[q] \in Unreserved \ {"idle"}, Advance(q, label)
  PROVE  Shape
  <1>0. TypeOK /\ ControlOK
    BY DEF IInv
  <1>1. TypeOK'
    BY <1>0 DEF TypeOK, Advance, Goto, storeVars, trackerVars, observed, callVars, pickVars
  <1>2. ControlOK'
    BY <1>0 DEF TypeOK, ControlOK, Advance, Goto, storeVars, trackerVars, observed, callVars,
                pickVars, Bound, Unreserved, Chosen
  <1>3. KeepsSlots /\ KeepsSessions /\ peak' = peak /\ peak \in Nat
    BY <1>0, AdmissionConstants
       DEF TypeOK, Advance, KeepsSlots, KeepsSessions, trackerVars, callVars, pickVars, observed
  <1>4. QED
    BY <1>1, <1>2, <1>3 DEF Shape, SlotStep, SessionStep

\* A new call brings a route of the traffic and nothing else.
LEMMA ArriveShape ==
  ASSUME IInv, NEW q \in Request, Arrive(q)
  PROVE  Shape
  <1>0. TypeOK /\ ControlOK /\ peak \in Nat /\ CountLimit \in Nat
    BY AdmissionConstants DEF IInv, TypeOK
  <1>1. TypeOK'
    BY <1>0 DEF TypeOK, Arrive, Goto, storeVars, trackerVars, observed, pickVars
  <1>2. ControlOK'
    BY <1>0 DEF TypeOK, ControlOK, Arrive, Goto, storeVars, trackerVars, observed, pickVars,
                Bound, Unreserved, Chosen
  <1>3. KeepsSlots /\ KeepsSessions
    BY <1>0 DEF TypeOK, ControlOK, Arrive, KeepsSlots, KeepsSessions, trackerVars, pickVars,
                Unreserved
  <1>4. QED
    BY <1>0, <1>1, <1>2, <1>3 DEF Shape, SlotStep, SessionStep, Arrive, observed

\* Reading the policy and reading the accounts reserve nothing.
LEMMA ReadShape ==
  ASSUME IInv, NEW q \in Request, Select(q) \/ LookupAccounts(q)
  PROVE  Shape
  <1>0. TypeOK /\ ControlOK /\ peak \in Nat /\ CountLimit \in Nat /\ limit \in Nat
    BY AdmissionConstants DEF IInv, TypeOK
  <1>1. CASE Select(q)
    <2>1. TypeOK'
      BY <1>0, <1>1 DEF TypeOK, Select, Goto, storeVars, trackerVars, observed
    <2>2. ControlOK'
      BY <1>0, <1>1 DEF TypeOK, ControlOK, Select, Goto, storeVars, trackerVars, observed,
                        Bound, Unreserved, Chosen
    <2>3. KeepsSlots /\ KeepsSessions
      BY <1>0, <1>1 DEF TypeOK, Select, KeepsSlots, KeepsSessions, trackerVars
    <2>4. QED
      BY <1>0, <1>1, <2>1, <2>2, <2>3 DEF Shape, SlotStep, SessionStep, Select, observed
  <1>2. CASE LookupAccounts(q)
    <2>1. TypeOK'
      BY <1>0, <1>2 DEF TypeOK, LookupAccounts, LimitFor, Goto, storeVars, trackerVars, observed
    <2>2. ControlOK'
      BY <1>0, <1>2 DEF TypeOK, ControlOK, LookupAccounts, LimitFor, Goto, storeVars,
                        trackerVars, observed, Bound, Unreserved, Chosen
    <2>3. KeepsSlots /\ KeepsSessions
      BY <1>0, <1>2 DEF TypeOK, LookupAccounts, KeepsSlots, KeepsSessions, trackerVars
    <2>4. QED
      BY <1>0, <1>2, <2>1, <2>2, <2>3 DEF Shape, SlotStep, SessionStep, LookupAccounts, observed
  <1>3. QED  BY <1>1, <1>2

\* A lookup names an account, passes on or ends the call.
LEMMA LookupShape ==
  ASSUME IInv, NEW q \in Request,
         \/ LookupForced(q) \/ LookupUUID(q) \/ LookupPending(q) \/ LookupBinding(q)
         \/ StoreError(q)
  PROVE  Shape
  <1>0. TypeOK /\ route[q] \in RouteType /\ None \notin Account
    BY RouteFields, AdmissionConstants DEF IInv
  <1>1. CASE LookupForced(q)
    <2>1. pc[q] \in Unreserved /\ route[q].forced \in Account
      BY <1>0, <1>1 DEF LookupForced, Unreserved, ControlOK, RouteType, IInv
    <2>2. QED  BY <1>1, <2>1, CandidateShape, FinishShape DEF LookupForced
  <1>2. CASE LookupUUID(q)
    <2>1. pc[q] \in Unreserved \ {"idle"} /\ (route[q].hint # None => route[q].hint \in Account)
      BY <1>0, <1>2 DEF LookupUUID, Unreserved, RouteType
    <2>2. QED  BY <1>2, <2>1, CandidateShape, AdvanceShape DEF LookupUUID
  <1>3. CASE LookupPending(q)
    <2>1. pc[q] \in Unreserved \ {"idle"}
          /\ \A k \in Session : pendingTo[k] # None => pendingTo[k] \in Account
      BY <1>0, <1>3 DEF LookupPending, Unreserved, TypeOK
    <2>2. QED  BY <1>3, <2>1, CandidateShape, AdvanceShape DEF LookupPending
  <1>4. CASE LookupBinding(q)
    <2>1. pc[q] \in Unreserved \ {"idle"}
          /\ \A k \in Key : boundTo[k] # None => boundTo[k] \in Account
      BY <1>0, <1>4 DEF LookupBinding, Unreserved, TypeOK
    <2>2. route[q].key # None => route[q].key \in Key
      BY <1>0 DEF RouteType
    <2>3. QED  BY <1>4, <2>1, <2>2, CandidateShape, AdvanceShape DEF LookupBinding
  <1>5. CASE StoreError(q)
    BY <1>5, FinishShape DEF StoreError
  <1>6. QED  BY <1>1, <1>2, <1>3, <1>4, <1>5

\* A reservation takes one slot below the limit the call carries.
LEMMA ReserveShape ==
  ASSUME IInv, NEW q \in Request, Reserve(q) \/ NoSlot(q)
  PROVE  Shape
  <1>0. TypeOK /\ ControlOK /\ peak \in Nat /\ CountLimit \in Nat /\ KindOf(q) \in Kind
    BY AdmissionConstants, RouteFields DEF IInv, TypeOK
  <1>1. CASE Reserve(q)
    <2>0. cand[q] \in Account /\ ~slot[q]
      BY <1>0, <1>1 DEF Reserve, ControlOK, Unreserved, Chosen
    <2>1. TypeOK'
      BY <1>0, <1>1, <2>0 DEF TypeOK, Reserve, TakeSlot, Goto, storeVars, observed, pickVars
    <2>2. ControlOK'
      BY <1>0, <1>1, <2>0
         DEF TypeOK, ControlOK, Reserve, TakeSlot, Goto, storeVars, observed, pickVars,
             Bound, Unreserved, Chosen
    <2>3. TakesSlot(q)
      BY <1>1, <2>0 DEF Reserve, TakesSlot, pickVars
    <2>4. KeepsSessions
      BY <1>1 DEF Reserve, KeepsSessions, pickVars
    <2>5. QED
      BY <1>0, <1>1, <2>1, <2>2, <2>3, <2>4 DEF Shape, SlotStep, SessionStep, Reserve, observed
  <1>2. CASE NoSlot(q) /\ src[q] # "account_uuid"
    BY <1>2, FinishShape DEF NoSlot
  <1>3. CASE NoSlot(q) /\ src[q] = "account_uuid"
    <2>0. ~slot[q] /\ ~sess[q]
      BY <1>0, <1>3 DEF NoSlot, ControlOK, Unreserved
    <2>1. TypeOK'
      <3>1. /\ UNCHANGED <<storeVars, policy, quota, trackerVars, route, excluded, pol, elig,
                           localEx, slot, sess, outcome, observed>>
            /\ pc' \in [Request -> {pc[p] : p \in Request} \cup {"pending"}]
            /\ cand' \in [Request -> Account \cup {None}]
            /\ src' = [src EXCEPT ![q] = "none"] /\ lim' \in [Request -> Nat]
        BY <1>0, <1>3 DEF TypeOK, NoSlot, Forget, Goto
      <3>2. QED  BY <1>0, <3>1 DEF TypeOK, storeVars, trackerVars, observed
    <2>2. ControlOK'
      BY <1>0, <1>3, <2>0 DEF TypeOK, ControlOK, NoSlot, Forget, Goto, storeVars, trackerVars,
                              observed, Bound, Unreserved, Chosen
    <2>3. KeepsSlots /\ KeepsSessions
      BY <1>0, <1>3, <2>0 DEF TypeOK, NoSlot, Forget, KeepsSlots, KeepsSessions, trackerVars
    <2>4. QED
      BY <1>0, <1>3, <2>1, <2>2, <2>3 DEF Shape, SlotStep, SessionStep, NoSlot, observed
  <1>4. QED  BY <1>1, <1>2, <1>3

\* Taking a slot of an account below the limit, found by a scan of the accounts.
LEMMA TakeShape ==
  ASSUME IInv, NEW q \in Request, NEW a \in Account, pc[q] \in {"balance", "quotaPick"},
         NEW source \in {"load_balance", "quota_aware"}, NEW label \in {"admit", "fresh"},
         Load(q, a) < lim[q], Take(q, a, source, label),
         ForgetAccounts(q) \/ UNCHANGED <<elig, localEx>>
  PROVE  Shape
  <1>0. /\ TypeOK /\ ControlOK /\ peak \in Nat /\ CountLimit \in Nat /\ KindOf(q) \in Kind
        /\ ~slot[q] /\ ~sess[q]
    BY AdmissionConstants, RouteFields DEF IInv, TypeOK, ControlOK, Unreserved
  <1>1. elig' \in [Request -> SUBSET Account] /\ localEx' \in [Request -> SUBSET Account]
    BY <1>0 DEF ForgetAccounts, TypeOK
  <1>2. TypeOK'
    BY <1>0, <1>1 DEF TypeOK, Take, TakeSlot, Goto, storeVars, observed
  <1>3. ControlOK'
    BY <1>0 DEF TypeOK, ControlOK, Take, TakeSlot, Goto, storeVars, observed,
                Bound, Unreserved, Chosen
  <1>4. TakesSlot(q) /\ KeepsSessions
    BY <1>0 DEF TypeOK, Take, TakesSlot, KeepsSessions
  <1>5. QED
    BY <1>0, <1>2, <1>3, <1>4 DEF Shape, SlotStep, SessionStep, Take, observed

\* Both policies choose among accounts with a free slot only.
LEMMA ScanShape ==
  ASSUME IInv, NEW q \in Request, Balance(q) \/ QuotaPick(q)
  PROVE  Shape
  <1>0. elig[q] \subseteq Account
    BY DEF IInv, TypeOK
  <1>1. CASE Balance(q)
    <2>1. \A a \in LeastLoaded(q, elig[q] \ (excluded[q] \cup localEx[q])) :
            a \in Account /\ Load(q, a) < lim[q]
      BY <1>0 DEF LeastLoaded
    <2>2. QED  BY <1>1, <2>1, TakeShape, FinishShape DEF Balance
  <1>2. CASE QuotaPick(q)
    <2> DEFINE withQuota == IF route[q].count THEN elig[q] ELSE {a \in elig[q] : quota[a] # 0}
               open == {a \in withQuota \ excluded[q] : Load(q, a) < lim[q]}
               best == IF route[q].count THEN LeastLoaded(q, open)
                       ELSE {a \in open : \A b \in open : NoWorse(q, a, b)}
    <2>1. best \subseteq open /\ \A a \in open : a \in Account /\ Load(q, a) < lim[q]
      BY <1>0 DEF LeastLoaded
    <2>2. \/ (\E a \in best : Take(q, a, "quota_aware", "fresh")) /\ ForgetAccounts(q)
          \/ Finish(q, "429") \/ Finish(q, "503")
      BY <1>2 DEF QuotaPick
    <2>3. pc[q] = "quotaPick"
      BY <1>2 DEF QuotaPick
    <2> HIDE DEF best, open, withQuota
    <2>4. QED  BY <2>1, <2>2, <2>3, TakeShape, FinishShape
  <1>3. QED  BY <1>1, <1>2

\* Admission opens or shares one session slot at the account whose in-flight slot
\* the call holds, or gives that slot back.
LEMMA AdmitShape ==
  ASSUME IInv, NEW q \in Request,
         AdmitExisting(q) \/ AdmitShared(q) \/ AdmitNew(q) \/ RefuseSession(q)
  PROVE  Shape
  <1>0. /\ TypeOK /\ ControlOK /\ peak \in Nat /\ CountLimit \in Nat
        /\ None \notin Account
    BY AdmissionConstants DEF IInv, TypeOK
  <1>1. pc[q] = "admit" => ~sess[q] /\ cand[q] \in Account
    BY <1>0 DEF ControlOK, Chosen
  <1>2. ASSUME Admitted(q), pc[q] = "admit", sess' = sess \/ sess' = [sess EXCEPT ![q] = TRUE],
               NeedsSessionSlot(q) \/ sess' = sess,
               pendingTo' \in [Session -> Account \cup {None}], refs' \in [Session -> Nat],
               perAccount' \in [Account -> Nat]
        PROVE  TypeOK' /\ ControlOK' /\ KeepsSlots /\ peak' = peak
    <2>1. sess' \in [Request -> BOOLEAN]
      BY <1>0, <1>2 DEF TypeOK
    <2>2. TypeOK'
      BY <1>0, <1>2, <2>1 DEF TypeOK, Admitted, ForgetAccounts, Goto, storeVars, observed
    <2>3. /\ slot' = slot /\ cand' = cand /\ route' = route /\ lim' = lim
          /\ limit' = limit /\ peak' = peak /\ inFlight' = inFlight
      BY <1>2 DEF Admitted, storeVars, observed
    <2>4. \A p \in Request : pc'[p] = IF p = q THEN "fresh" ELSE pc[p]
      BY <1>0, <1>2 DEF TypeOK, Admitted, Goto
    <2>5. \A p \in Request : Bound(p)' = Bound(p)
      BY <2>3 DEF Bound
    <2>6. \A p \in Request : sess'[p] => sess[p] \/ (p = q /\ NeedsSessionSlot(q))
      BY <1>0, <1>2 DEF TypeOK
    <2>7. ControlOK'
      <3>1. SUFFICES ASSUME NEW p \in Request PROVE
              /\ pc'[p] \in Unreserved => ~slot'[p] /\ ~sess'[p]
              /\ pc'[p] = "admit" => ~sess'[p]
              /\ pc'[p] = "forced" => route'[p].forced # None
              /\ pc'[p] \in Chosen => cand'[p] \in Account
              /\ slot'[p] => cand'[p] \in Account
              /\ sess'[p] => cand'[p] \in Account /\ route'[p].key \in Session
              /\ pc'[p] = "idle" => lim'[p] = 0
              /\ lim'[p] <= Bound(p)'
        BY <1>0, <2>3 DEF ControlOK
      <3>2. CASE p = q
        BY <1>0, <1>1, <1>2, <2>3, <2>4, <2>5, <2>6, <3>2
           DEF ControlOK, NeedsSessionSlot, Unreserved, Chosen
      <3>3. CASE p # q
        BY <1>0, <2>3, <2>4, <2>5, <2>6, <3>3 DEF ControlOK, Unreserved, Chosen
      <3> QED BY <3>2, <3>3
    <2> QED
      BY <1>0, <1>2, <2>2, <2>3, <2>7 DEF KeepsSlots
  <1>3. CASE AdmitExisting(q)
    <2>1. KeepsSessions
      BY <1>3 DEF AdmitExisting, Admitted, KeepsSessions
    <2>2. TypeOK' /\ ControlOK' /\ KeepsSlots /\ peak' = peak
      BY <1>0, <1>2, <1>3 DEF AdmitExisting, TypeOK
    <2>3. QED  BY <2>1, <2>2 DEF Shape, SlotStep, SessionStep
  <1>4. CASE AdmitShared(q)
    <2>1. SharesSession(q)
      BY <1>1, <1>4 DEF AdmitShared, Admitted, SharesSession, NeedsSessionSlot
    <2>2. TypeOK' /\ ControlOK' /\ KeepsSlots /\ peak' = peak
      <3>1. refs' \in [Session -> Nat]
        BY <1>0, <1>4 DEF AdmitShared, NeedsSessionSlot, TypeOK
      <3>2. QED  BY <1>0, <1>2, <1>4, <3>1 DEF AdmitShared, TypeOK
    <2>3. QED  BY <2>1, <2>2 DEF Shape, SlotStep, SessionStep
  <1>5. CASE AdmitNew(q)
    <2>1. OpensSession(q)
      BY <1>1, <1>5 DEF AdmitNew, Admitted, OpensSession, NeedsSessionSlot
    <2>2. TypeOK' /\ ControlOK' /\ KeepsSlots /\ peak' = peak
      <3>1. /\ refs' \in [Session -> Nat] /\ perAccount' \in [Account -> Nat]
            /\ pendingTo' \in [Session -> Account \cup {None}]
        BY <1>0, <1>1, <1>5 DEF AdmitNew, NeedsSessionSlot, TypeOK
      <3>2. QED  BY <1>2, <1>5, <3>1 DEF AdmitNew
    <2>3. QED  BY <2>1, <2>2 DEF Shape, SlotStep, SessionStep
  <1>6. CASE RefuseSession(q) /\ src[q] = "header"
    BY <1>6, FinishShape DEF RefuseSession
  <1>7. CASE RefuseSession(q) /\ src[q] # "header"
    <2>1. /\ DropSlot(q) /\ pc[q] = "admit"
          /\ cand' = [cand EXCEPT ![q] = None] /\ src' = [src EXCEPT ![q] = "none"]
          /\ localEx' \in [Request -> SUBSET Account]
          /\ \E label \in {"pending", "binding", "balance"} : Goto(q, label)
          /\ UNCHANGED <<storeVars, policy, quota, pendingTo, refs, perAccount, route, excluded,
                         pol, lim, elig, sess, outcome, observed>>
      BY <1>0, <1>1, <1>7 DEF RefuseSession, TypeOK
    <2>2. inFlight' \in [Kind -> [Account -> Nat]] /\ slot' = [slot EXCEPT ![q] = FALSE]
      BY <1>0, <1>1, <2>1, RouteFields DEF DropSlot, TypeOK
    <2>3. TypeOK'
      BY <1>0, <2>1, <2>2 DEF TypeOK, Goto, storeVars, observed
    <2>4. ControlOK'
      BY <1>0, <1>1, <2>1, <2>2
         DEF TypeOK, ControlOK, Goto, storeVars, observed, Bound, Unreserved, Chosen
    <2>5. DropsSlot(q) /\ KeepsSessions
      BY <1>0, <1>1, <2>1 DEF TypeOK, DropsSlot, KeepsSessions
    <2>6. QED
      BY <1>0, <2>1, <2>3, <2>4, <2>5 DEF Shape, SlotStep, SessionStep, observed
  <1>8. QED  BY <1>3, <1>4, <1>5, <1>6, <1>7

\* A call that is being served keeps its reservations until it fails over or ends.
LEMMA ServingShape ==
  ASSUME IInv, NEW q \in Request, pc[q] \in {"fresh", "upstream", "stream"},
         NEW label \in {"upstream", "failover", "stream", "release"}, Goto(q, label),
         UNCHANGED <<enabled, pool, limit, policy, trackerVars, route, excluded, pol, cand, src,
                     elig, localEx, slot, sess, peak, moved>>,
         lim' = lim \/ lim' = [lim EXCEPT ![q] = 0],
         cooling' \subseteq Account, boundTo' \in [Key -> Account \cup {None}],
         active' \subseteq Session, resumed' \subseteq Session,
         quota' \in [Account -> Unknown .. MaxUrgency],
         outcome' \in [Request -> {"none", "ok", "error", "429", "503"}]
  PROVE  Shape
  <1>0. TypeOK /\ ControlOK /\ peak \in Nat /\ CountLimit \in Nat
    BY AdmissionConstants DEF IInv, TypeOK
  <1>1. TypeOK'
    <2>1. lim' \in [Request -> Nat]
      BY <1>0 DEF TypeOK
    <2>2. pc' \in [Request -> {pc[p] : p \in Request} \cup {label}]
      BY <1>0 DEF Goto, TypeOK
    <2>3. QED  BY <1>0, <2>1, <2>2 DEF TypeOK, trackerVars
  <1>2. ControlOK'
    BY <1>0 DEF TypeOK, ControlOK, Goto, trackerVars, Bound, Unreserved, Chosen
  <1>3. KeepsSlots /\ KeepsSessions
    BY DEF KeepsSlots, KeepsSessions, trackerVars
  <1>4. QED
    BY <1>0, <1>1, <1>2, <1>3 DEF Shape, SlotStep, SessionStep

\* The token, the exchange with upstream and the response reserve nothing.
LEMMA ExchangeShape ==
  ASSUME IInv, NEW q \in Request,
         \/ TokenFresh(q) \/ TokenFails(q) \/ TransformFails(q) \/ Accepted(q) \/ Declined(q)
         \/ Retryable(q) \/ TransportFails(q) \/ Interrupted(q)
  PROVE  Shape
  <1>0. TypeOK /\ (pc[q] \in Chosen => cand[q] \in Account)
    BY DEF IInv, ControlOK
  <1>1. CASE TokenFresh(q)
    BY <1>0, <1>1, ServingShape
       DEF TokenFresh, TypeOK, storeVars, observed
  <1>2. CASE TokenFails(q)
    BY <1>0, <1>2, ServingShape
       DEF TokenFails, MayCool, Ending, TypeOK, Chosen, restOfStore, pickVars, observed
  <1>3. CASE TransformFails(q)
    BY <1>0, <1>3, ServingShape
       DEF TransformFails, Ending, TypeOK, storeVars, pickVars, observed
  <1>4. CASE Accepted(q)
    <2>1. quota' \in [Account -> Unknown .. MaxUrgency]
      <3>1. PICK u \in {quota[cand[q]]} \cup 0 .. MaxUrgency : quota' = [quota EXCEPT ![cand[q]] = u]
        BY <1>4 DEF Accepted
      <3>2. cand[q] \in Account
        BY <1>0, <1>4 DEF Accepted, Chosen
      <3>3. quota[cand[q]] \in Unknown .. MaxUrgency /\ 0 .. MaxUrgency \subseteq Unknown .. MaxUrgency
        BY <1>0, <3>2, AdmissionConstants DEF TypeOK, Unknown
      <3>4. QED  BY <1>0, <3>1, <3>3 DEF TypeOK
    <2>2. cooling' \subseteq Account
      BY <1>0, <1>4 DEF Accepted, TypeOK
    <2>3. QED
      BY <1>0, <1>4, <2>1, <2>2, ServingShape DEF Accepted, TypeOK, restOfStore, pickVars, observed
  <1>5. CASE Declined(q)
    BY <1>0, <1>5, ServingShape DEF Declined, TypeOK, storeVars, pickVars, observed
  <1>6. CASE Retryable(q)
    <2>1. \E label \in {"failover", "stream"} : Goto(q, label)
      BY <1>6 DEF Retryable
    <2>2. outcome' \in [Request -> {"none", "ok", "error", "429", "503"}]
      BY <1>0, <1>6 DEF Retryable, TypeOK
    <2>3. cooling' \subseteq Account /\ pc[q] = "upstream"
      BY <1>0, <1>6 DEF Retryable, MayCool, Chosen, TypeOK
    <2>4. UNCHANGED <<restOfStore, policy, quota, trackerVars, route, excluded, pickVars, slot, sess,
                      observed>>
      BY <1>6 DEF Retryable
    <2>5. QED
      BY <1>0, <2>1, <2>2, <2>3, <2>4, ServingShape DEF TypeOK, restOfStore, pickVars, observed
  <1>7. CASE TransportFails(q)
    <2>1. \E label \in {"failover", "release"} : Goto(q, label)
      BY <1>7 DEF TransportFails, Ending
    <2>2. outcome' \in [Request -> {"none", "ok", "error", "429", "503"}]
      BY <1>0, <1>7 DEF TransportFails, Ending, TypeOK
    <2>3. pc[q] = "upstream"
          /\ UNCHANGED <<storeVars, policy, quota, trackerVars, route, excluded, pickVars, slot, sess,
                         observed>>
      BY <1>7 DEF TransportFails
    <2>4. QED
      BY <1>0, <2>1, <2>2, <2>3, ServingShape DEF TypeOK, storeVars, pickVars, observed
  <1>8. CASE Interrupted(q)
    BY <1>0, <1>8, ServingShape DEF Interrupted, Ending, TypeOK, storeVars, pickVars, observed
  <1>9. QED  BY <1>1, <1>2, <1>3, <1>4, <1>5, <1>6, <1>7, <1>8

\* Binding a key moves no reservation.
LEMMA CompleteShape ==
  ASSUME IInv, NEW q \in Request, Complete(q)
  PROVE  Shape
  <1>0. TypeOK /\ cand[q] \in Account /\ route[q] \in RouteType
    BY RouteFields DEF IInv, ControlOK, Complete, Chosen
  <1>1. /\ boundTo' \in [Key -> Account \cup {None}]
        /\ active' \subseteq Session /\ resumed' \subseteq Session
    BY <1>0 DEF Complete, Binds, Bind, TypeOK
  <1>2. QED
    BY <1>0, <1>1, ServingShape DEF Complete, TypeOK, pickVars

\* The failed attempt gives back both reservations before the next one selects.
LEMMA FailOverShape ==
  ASSUME IInv, NEW q \in Request, FailOver(q)
  PROVE  Shape
  <1>0. /\ TypeOK /\ ControlOK /\ peak \in Nat /\ CountLimit \in Nat
        /\ cand[q] \in Account
    BY AdmissionConstants DEF IInv, TypeOK, ControlOK, FailOver, Chosen
  <1>1. /\ inFlight' \in [Kind -> [Account -> Nat]] /\ slot' \in [Request -> BOOLEAN]
        /\ pendingTo' \in [Session -> Account \cup {None}] /\ refs' \in [Session -> Nat]
        /\ perAccount' \in [Account -> Nat] /\ sess' \in [Request -> BOOLEAN]
    BY DropsKeepTypes DEF FailOver
  <1>2. TypeOK'
    BY <1>0, <1>1 DEF TypeOK, FailOver, Forget, Goto, storeVars, observed
  <1>3. ControlOK'
    BY <1>0, <1>1
       DEF TypeOK, ControlOK, FailOver, Forget, Goto, DropSlot, DropSession, storeVars, observed,
           Bound, Unreserved, Chosen
  <1>4. DropsSlot(q) /\ DropsSession(q)
    BY <1>0 DEF TypeOK, DropsSlot, DropsSession, FailOver, Forget
  <1>5. QED
    BY <1>0, <1>2, <1>3, <1>4 DEF Shape, SlotStep, SessionStep, FailOver, observed

\* The console, the clock and a restart; none of them touches a reservation of a
\* call that goes on.
LEMMA OperateShape ==
  ASSUME IInv, Operate
  PROVE  Shape
  <1> USE DEF callsAndTrackers
  <1>0. /\ TypeOK /\ ControlOK /\ Limits \subseteq Nat /\ peak \in Nat /\ CountLimit \in Nat
        /\ MaxUrgency \in Int /\ Unknown \in Unknown .. MaxUrgency
    BY AdmissionConstants DEF IInv, TypeOK, Unknown
  <1>1. ASSUME UNCHANGED <<pc, route, cand, lim, slot, sess, trackerVars, limit, peak>>
        PROVE  ControlOK' /\ KeepsSlots /\ KeepsSessions /\ peak' = peak
    BY <1>0, <1>1 DEF ControlOK, KeepsSlots, KeepsSessions, trackerVars, Bound, Unreserved, Chosen
  <1>2. ASSUME NEW a \in Account, ClearBindings(a)
        PROVE  /\ boundTo' \in [Key -> Account \cup {None}]
               /\ active' \subseteq Session /\ resumed' \subseteq Session
    BY <1>0, <1>2 DEF ClearBindings, TypeOK
  <1>3. CASE SetRoutingPolicy
    <2>1. TypeOK'
      BY <1>0, <1>3 DEF SetRoutingPolicy, TypeOK, storeVars, trackerVars, callVars, pickVars, observed
    <2>2. QED
      BY <1>1, <1>3, <2>1 DEF SetRoutingPolicy, Shape, SlotStep, SessionStep, storeVars, callVars,
                              pickVars, observed
  <1>4. CASE SetAccountConcurrency
    <2>1. limit' \in Limits /\ limit' <= peak' /\ (peak' = peak \/ peak' > peak) /\ peak' \in Limits
      BY <1>0, <1>4 DEF SetAccountConcurrency, TypeOK, ControlOK
    <2>2. TypeOK'
      BY <1>0, <1>4, <2>1 DEF SetAccountConcurrency, TypeOK, trackerVars, callVars, pickVars
    <2>3. ControlOK'
      <3>1. peak' \in Nat /\ \A q \in Request : lim[q] \in Nat
        BY <1>0, <2>1 DEF TypeOK
      <3>2. QED
        BY <1>0, <1>4, <2>1, <3>1 DEF SetAccountConcurrency, ControlOK, trackerVars, callVars,
                                      pickVars, Bound, Unreserved, Chosen
    <2>4. KeepsSlots /\ KeepsSessions
      BY <1>4 DEF SetAccountConcurrency, KeepsSlots, KeepsSessions, trackerVars, callVars, pickVars
    <2>5. QED  BY <2>1, <2>2, <2>3, <2>4 DEF Shape, SlotStep, SessionStep
  <1>5. CASE Restart
    <2>1. TypeOK'
      BY <1>0, <1>5 DEF Restart, TypeOK, storeVars
    <2>2. ControlOK'
      BY <1>0, <1>5 DEF Restart, ControlOK, storeVars, Bound, NoRoute, Unreserved, Chosen
    <2>3. ResetsSlots /\ ResetsSessions /\ peak' = peak
      BY <1>5 DEF Restart, ResetsSlots, ResetsSessions
    <2>4. QED  BY <1>0, <2>1, <2>2, <2>3 DEF Shape, SlotStep, SessionStep
  <1>6. ASSUME NEW a \in Account,
               \/ SetAccountEnabled(a) \/ SetAccountPool(a) \/ DeleteAccount(a)
               \/ CooldownEnds(a) \/ WindowResets(a)
        PROVE  Shape
    <2>1. CASE SetAccountEnabled(a)
      <3>1. TypeOK'
        BY <1>0, <2>1 DEF SetAccountEnabled, TypeOK, trackerVars, callVars, pickVars, observed
      <3>2. QED
        BY <1>1, <2>1, <3>1 DEF SetAccountEnabled, Shape, SlotStep, SessionStep, callVars,
                                pickVars, observed
    <2>2. CASE SetAccountPool(a)
      <3>1. TypeOK'
        BY <1>0, <1>2, <2>2 DEF SetAccountPool, TypeOK, trackerVars, callVars, pickVars
      <3>2. QED
        BY <1>1, <2>2, <3>1 DEF SetAccountPool, Shape, SlotStep, SessionStep, callVars, pickVars
    <2>3. CASE DeleteAccount(a)
      <3>1. TypeOK'
        BY <1>0, <1>2, <2>3 DEF DeleteAccount, TypeOK, trackerVars, callVars, pickVars
      <3>2. QED
        BY <1>1, <2>3, <3>1 DEF DeleteAccount, Shape, SlotStep, SessionStep, callVars, pickVars
    <2>4. CASE CooldownEnds(a)
      <3>1. TypeOK'
        BY <1>0, <2>4
           DEF CooldownEnds, TypeOK, restOfStore, trackerVars, callVars, pickVars, observed
      <3>2. QED
        BY <1>1, <2>4, <3>1 DEF CooldownEnds, Shape, SlotStep, SessionStep, restOfStore,
                                callVars, pickVars, observed
    <2>5. CASE WindowResets(a)
      <3>1. TypeOK'
        BY <1>0, <2>5
           DEF WindowResets, TypeOK, storeVars, trackerVars, callVars, pickVars, observed
      <3>2. QED
        BY <1>1, <2>5, <3>1 DEF WindowResets, Shape, SlotStep, SessionStep, storeVars,
                                callVars, pickVars, observed
    <2>6. QED  BY <1>6, <2>1, <2>2, <2>3, <2>4, <2>5
  <1>7. ASSUME NEW k \in Key, BindingExpires(k) \/ (k \in Session /\ SessionIdles(k))
        PROVE  Shape
    <2>1. TypeOK'
      <3>1. CASE BindingExpires(k)
        <4>1. boundTo' \in [Key -> Account \cup {None}]
          BY <1>0, <3>1 DEF BindingExpires, TypeOK
        <4>2. UNCHANGED <<enabled, pool, cooling, active, limit, policy, quota, trackerVars, pc,
                          callVars, observed>>
          BY <3>1 DEF BindingExpires
        <4>3. QED  BY <1>0, <4>1, <4>2 DEF TypeOK, trackerVars, callVars, pickVars, observed
      <3>2. CASE SessionIdles(k)
        <4>1. active' \subseteq Session /\ resumed' \subseteq Session
          BY <1>0, <3>2 DEF SessionIdles, TypeOK
        <4>2. UNCHANGED <<enabled, pool, cooling, boundTo, limit, policy, quota, trackerVars, pc,
                          callVars, peak, moved>>
          BY <3>2 DEF SessionIdles
        <4>3. QED  BY <1>0, <4>1, <4>2 DEF TypeOK, trackerVars, callVars, pickVars
      <3>3. QED  BY <1>7, <3>1, <3>2
    <2>2. QED
      BY <1>1, <1>7, <2>1 DEF BindingExpires, SessionIdles, Shape, SlotStep, SessionStep,
                              callVars, pickVars, observed
  <1>8. QED
    BY <1>3, <1>4, <1>5, <1>6, <1>7 DEF Operate, Key
-----------------------------------------------------------------------------
\* Every step has the shape the counting lemmas need.
LEMMA NextShape ==
  ASSUME IInv, Next
  PROVE  Shape
  <1>1. ASSUME NEW q \in Request, Choose(q)
        PROVE  Shape
    BY <1>1, ReadShape, LookupShape, ReserveShape, ScanShape, AdmitShape DEF Choose
  <1>2. ASSUME NEW q \in Request, Serve(q)
        PROVE  Shape
    <2>1. CASE Return(q)
      BY <2>1, FinishShape DEF Return
    <2>2. QED
      BY <1>2, <2>1, ExchangeShape, CompleteShape, FailOverShape DEF Serve
  <1>3. QED
    BY <1>1, <1>2, ArriveShape, LookupShape, OperateShape DEF Next

\* Nothing is held before the first call.
LEMMA InitInvariant == ASSUME NEW start \in {"legacy", "quota_aware"}, InitWith(start) PROVE IInv
  <1> USE AdmissionConstants
  <1>1. TypeOK
    BY DEF InitWith, TypeOK, Unknown
  <1>2. ControlOK
    BY <1>1 DEF InitWith, ControlOK, Bound, NoRoute, Unreserved, Chosen, TypeOK
  <1>3. /\ \A kind, a : Holders(kind, a) = {}
        /\ \A k : SessionHolders(k) = {}
        /\ \A a \in Account : PendingOn(a) = {}
    BY DEF InitWith, Holders, SessionHolders, PendingOn
  <1>4. SlotsMatchHolders /\ HoldersWithinLimit
    <2>1. \A kind, a : Cardinality(Holders(kind, a)) = 0
      BY <1>3, FS_EmptySet
    <2>2. SlotsMatchHolders
      BY <2>1 DEF InitWith, SlotsMatchHolders
    <2>3. HoldersWithinLimit
      BY <1>1, <2>1 DEF HoldersWithinLimit, TypeOK
    <2>4. QED  BY <2>2, <2>3
  <1>5. SessionsMatchHolders
    BY <1>3, FS_EmptySet DEF InitWith, SessionsMatchHolders
  <1>6. QED  BY <1>1, <1>2, <1>4, <1>5 DEF IInv

\* The invariant is inductive.
LEMMA StepInvariant == IInv /\ [Next]_vars => IInv'
  <1> SUFFICES ASSUME IInv, [Next]_vars PROVE IInv'
    OBVIOUS
  <1>1. CASE Next
    <2>1. Shape
      BY <1>1, NextShape
    <2>2. SlotsMatchHolders' /\ HoldersWithinLimit'
      <3>1. peak' >= peak
        BY <2>1, AdmissionConstants DEF Shape, IInv, TypeOK
      <3>2. QED  BY <2>1, <3>1, SlotStepKeeps DEF Shape
    <2>3. SessionsMatchHolders'
      BY <2>1, SessionStepKeeps DEF Shape
    <2>4. QED  BY <2>1, <2>2, <2>3 DEF Shape, IInv
  <1>2. CASE UNCHANGED vars
    <2> USE DEF vars, storeVars, trackerVars, callVars, pickVars, observed
    <2>1. TypeOK'
      BY <1>2 DEF IInv, TypeOK
    <2>2. ControlOK'
      BY <1>2 DEF IInv, ControlOK, Bound
    <2>3. SlotsMatchHolders' /\ HoldersWithinLimit'
      BY <1>2 DEF IInv, SlotsMatchHolders, HoldersWithinLimit, Holders, KindOf
    <2>4. SessionsMatchHolders'
      BY <1>2 DEF IInv, SessionsMatchHolders, SessionHolders, PendingOn
    <2>5. QED  BY <2>1, <2>2, <2>3, <2>4 DEF IInv
  <1>3. QED  BY <1>1, <1>2

\* A run may also begin with an idle relay under the older policy.
LegacyStart == InitWith("legacy") /\ [][Next]_vars

\* The inductive invariant holds of both starts.
LEMMA Invariant == (Spec => []IInv) /\ (LegacyStart => []IInv)
  <1>1. Init => IInv
    BY InitInvariant DEF Init
  <1>2. InitWith("legacy") => IInv
    BY InitInvariant
  <1>3. QED  BY <1>1, <1>2, StepInvariant, PTL DEF Spec, LegacyStart

-----------------------------------------------------------------------------
\* Every variable of admission keeps its type (no count ever falls below zero).
THEOREM AdmissionTypes == Spec => []TypeOK
  BY Invariant, PTL DEF IInv

\* The in-flight counts of account_load.go are exactly the slots held by calls,
\* whatever the number of calls and accounts and however they interleave.
THEOREM SlotsAreExact == Spec => []SlotsMatchHolders
  BY Invariant, PTL DEF IInv

\* No account ever serves more calls at once than the largest limit in force.
THEOREM LimitsHold == Spec => []HoldersWithinLimit
  BY Invariant, PTL DEF IInv

\* Reference counts and per-account totals of session_admission.go are exact.
THEOREM SessionsAreExact == Spec => []SessionsMatchHolders
  BY Invariant, PTL DEF IInv

\* Between two calls, and before a failover selects again, nothing is held.
THEOREM NothingLeaks == Spec => []NothingHeldWhenIdle
  <1>1. IInv => NothingHeldWhenIdle
    BY DEF IInv, ControlOK, NothingHeldWhenIdle, Unreserved
  <1>2. QED  BY <1>1, Invariant, PTL
-----------------------------------------------------------------------------
(* The limit of new sessions.  A session that was let in uncounted is      *)
(* counted again once it is provisional, so the sessions a new one is      *)
(* compared with never grow but by the new one itself.                     *)

Counted(a) == PendingOn(a) \cup (ActiveSessions(a) \ resumed)
Room == \A a \in Account : Cardinality(Counted(a)) <= MaxActive

\* The tracker opens no session, and the bindings stay as they are.
OpensNone ==
  /\ UNCHANGED <<boundTo, active, resumed>>
  /\ \A k \in Session : pendingTo'[k] \in {pendingTo[k], None}

\* Then no account counts more sessions.
LEMMA OpensNoneCounts ==
  ASSUME OpensNone, NEW a \in Account
  PROVE  Counted(a)' \subseteq Counted(a)
  <1>1. ActiveSessions(a)' = ActiveSessions(a) /\ resumed' = resumed
    BY DEF OpensNone, ActiveSessions
  <1>2. PendingOn(a)' \subseteq PendingOn(a)
    BY AdmissionConstants DEF OpensNone, PendingOn
  <1>3. QED  BY <1>1, <1>2 DEF Counted

LEMMA DropOpensNone ==
  ASSUME TypeOK, NEW q \in Request, DropSession(q)
  PROVE  \A k \in Session : pendingTo'[k] \in {pendingTo[k], None}
  BY DEF DropSession, TypeOK

LEMMA FinishOpensNone ==
  ASSUME TypeOK, NEW q \in Request, NEW result, Finish(q, result)
  PROVE  OpensNone
  BY DropOpensNone DEF Finish, OpensNone, storeVars

\* No step of a call but a new session and a complete response matters here.
LEMMA CallsOpenNone ==
  ASSUME IInv, NEW q \in Request,
         Arrive(q) \/ Choose(q) \/ StoreError(q) \/ Serve(q), ~AdmitNew(q), ~Complete(q)
  PROVE  OpensNone
  <1>0. TypeOK
    BY DEF IInv
  <1> USE DEF storeVars, trackerVars, observed, restOfStore
  <1>1. CASE Arrive(q) \/ Select(q) \/ LookupAccounts(q) \/ Reserve(q)
    BY <1>0, <1>1 DEF Arrive, Select, LookupAccounts, Reserve, OpensNone
  <1>2. CASE LookupForced(q) \/ LookupUUID(q) \/ LookupPending(q) \/ LookupBinding(q)
    <2>1. CASE \E result : Finish(q, result)
      BY <2>1, <1>0, FinishOpensNone
    <2>2. CASE \E a, s : Candidate(q, a, s)
      BY <2>2 DEF Candidate, OpensNone
    <2>3. CASE \E label : Advance(q, label)
      BY <2>3 DEF Advance, OpensNone
    <2>4. QED
      BY <1>2, <2>1, <2>2, <2>3 DEF LookupForced, LookupUUID, LookupPending, LookupBinding
  <1>3. CASE StoreError(q) \/ Return(q)
    BY <1>0, <1>3, FinishOpensNone DEF StoreError, Return
  <1>4. CASE NoSlot(q)
    <2>1. CASE src[q] = "account_uuid"
      BY <1>4, <2>1 DEF NoSlot, OpensNone
    <2>2. CASE src[q] # "account_uuid"
      BY <1>0, <1>4, <2>2, FinishOpensNone DEF NoSlot
    <2>3. QED  BY <2>1, <2>2
  <1>5. CASE Balance(q) \/ QuotaPick(q)
    <2>1. CASE \E result : Finish(q, result)
      BY <2>1, <1>0, FinishOpensNone
    <2>2. CASE \E a, s, label : Take(q, a, s, label)
      BY <2>2 DEF Take, OpensNone
    <2>3. QED
      BY <1>5, <2>1, <2>2 DEF Balance, QuotaPick
  <1>6. CASE AdmitExisting(q) \/ AdmitShared(q)
    BY <1>6 DEF AdmitExisting, AdmitShared, Admitted, OpensNone
  <1>7. CASE RefuseSession(q)
    <2>1. CASE src[q] = "header"
      BY <1>0, <1>7, <2>1, FinishOpensNone DEF RefuseSession
    <2>2. CASE src[q] # "header"
      BY <1>7, <2>2 DEF RefuseSession, OpensNone
    <2>3. QED  BY <2>1, <2>2
  <1>8. CASE \/ TokenFresh(q) \/ TokenFails(q) \/ TransformFails(q) \/ Accepted(q)
             \/ Declined(q) \/ Retryable(q) \/ TransportFails(q) \/ Interrupted(q)
    BY <1>8 DEF TokenFresh, TokenFails, TransformFails, Accepted, Declined, Retryable,
                TransportFails, Interrupted, OpensNone
  <1>9. CASE FailOver(q)
    BY <1>0, <1>9, DropOpensNone DEF FailOver, OpensNone
  <1>10. QED
    BY <1>1, <1>2, <1>3, <1>4, <1>5, <1>6, <1>7, <1>8, <1>9 DEF Choose, Serve

\* A bind confirms the session the call was counted for, or one that is left out.
LEMMA CompleteCounts ==
  ASSUME IInv, NEW q \in Request, Complete(q), NEW a \in Account
  PROVE  Counted(a)' \subseteq Counted(a)
  <1>0. TypeOK /\ pc[q] = "stream" /\ pendingTo' = pendingTo
    BY DEF IInv, Complete, trackerVars
  <1>1. CASE UNCHANGED <<boundTo, active, resumed>>
    BY <1>0, <1>1, OpensNoneCounts DEF OpensNone
  <1>2. CASE Binds(q) /\ Bind(q)
    <2> DEFINE k == route[q].key
    <2>1. /\ boundTo' = [boundTo EXCEPT ![k] = cand[q]]
          /\ active' = active \cup ({k} \cap Session)
          /\ resumed' = IF sess[q] \/ (k \in active /\ boundTo[k] = cand[q])
                        THEN resumed ELSE resumed \cup ({k} \cap Session)
      BY <1>2 DEF Bind
    <2>2. k \in Key
      BY <1>0, <1>2, RouteFields DEF Binds, RouteType
    <2>3. sess[q] => k \in Session /\ pendingTo[k] = cand[q]
      <3> SUFFICES ASSUME sess[q] PROVE k \in Session /\ pendingTo[k] = cand[q]
        OBVIOUS
      <3>1. k \in Session
        BY DEF IInv, ControlOK
      <3>2. q \in SessionHolders(k)
        BY DEF SessionHolders
      <3>3. QED  BY <3>1, <3>2 DEF IInv, SessionsMatchHolders
    <2>4. ASSUME NEW j, j \in ActiveSessions(a)', j \notin resumed'
          PROVE  j \in Counted(a)
      <3>1. j \in active' /\ boundTo'[j] = a
        BY <2>4 DEF ActiveSessions
      <3>2. CASE j # k
        <4>1. j \in active /\ boundTo[j] = a /\ j \notin resumed
          <5>1. j \in active /\ j \in Key
            BY <1>0, <2>1, <3>1, <3>2 DEF TypeOK, Key
          <5>2. boundTo[j] = a
            BY <1>0, <2>1, <3>1, <3>2, <5>1 DEF TypeOK
          <5>3. j \notin resumed
            BY <2>1, <2>4
          <5>4. QED  BY <5>1, <5>2, <5>3
        <4>2. QED  BY <4>1 DEF Counted, ActiveSessions
      <3>3. CASE j = k
        <4>1. cand[q] = a
          BY <1>0, <2>1, <2>2, <3>1, <3>3 DEF TypeOK
        <4>2. k \in Session
          BY <1>0, <2>1, <3>1, <3>3 DEF TypeOK
        <4>3. CASE sess[q]
          BY <2>3, <3>3, <4>1, <4>2, <4>3 DEF Counted, PendingOn
        <4>4. CASE ~sess[q] /\ k \in active /\ boundTo[k] = cand[q]
          <5>1. k \notin resumed
            BY <2>1, <2>4, <3>3, <4>4
          <5>2. QED  BY <3>3, <4>1, <4>4, <5>1 DEF Counted, ActiveSessions
        <4>5. CASE ~sess[q] /\ ~(k \in active /\ boundTo[k] = cand[q])
          BY <2>1, <2>4, <3>3, <4>2, <4>5
        <4>6. QED  BY <4>3, <4>4, <4>5
      <3>4. QED  BY <3>2, <3>3
    <2>5. PendingOn(a)' = PendingOn(a)
      BY <1>0 DEF PendingOn
    <2>6. QED  BY <2>4, <2>5 DEF Counted
  <1>3. QED  BY <1>1, <1>2 DEF Complete

\* An account whose bindings are cleared loses its sessions.
LEMMA ClearCounts ==
  ASSUME TypeOK, NEW b \in Account, ClearBindings(b), UNCHANGED pendingTo, NEW a \in Account
  PROVE  Counted(a)' \subseteq Counted(a)
  <1>1. PendingOn(a)' = PendingOn(a)
    BY DEF PendingOn
  <1>2. ASSUME NEW j, j \in ActiveSessions(a)', j \notin resumed'
        PROVE  j \in ActiveSessions(a) \ resumed
    <2>1. j \in active' /\ boundTo'[j] = a
      BY <1>2 DEF ActiveSessions
    <2>2. j \in active /\ j \in Key /\ boundTo[j] # b
      BY <2>1 DEF ClearBindings, TypeOK, Key
    <2>3. boundTo[j] = a /\ j \notin resumed
      BY <1>2, <2>1, <2>2 DEF ClearBindings
    <2>4. QED  BY <2>2, <2>3 DEF ActiveSessions
  <1>3. QED  BY <1>1, <1>2 DEF Counted

\* No step of the console, the clock or the process adds a session.
LEMMA OperateCounts ==
  ASSUME IInv, Operate, NEW a \in Account
  PROVE  Counted(a)' \subseteq Counted(a)
  <1>0. TypeOK
    BY DEF IInv
  <1> USE DEF storeVars, trackerVars, callsAndTrackers, observed, restOfStore
  <1>1. CASE \/ SetRoutingPolicy \/ SetAccountConcurrency
             \/ \E b \in Account : SetAccountEnabled(b) \/ CooldownEnds(b) \/ WindowResets(b)
    <2>1. OpensNone
      BY <1>1 DEF SetRoutingPolicy, SetAccountConcurrency, SetAccountEnabled, CooldownEnds,
                  WindowResets, OpensNone
    <2>2. QED  BY <2>1, OpensNoneCounts
  <1>2. CASE Restart
    <2>1. OpensNone
      BY <1>2 DEF Restart, OpensNone
    <2>2. QED  BY <2>1, OpensNoneCounts
  <1>3. ASSUME NEW b \in Account, SetAccountPool(b) \/ DeleteAccount(b)
        PROVE  Counted(a)' \subseteq Counted(a)
    BY <1>0, <1>3, ClearCounts DEF SetAccountPool, DeleteAccount
  <1>4. ASSUME NEW k \in Session, SessionIdles(k)
        PROVE  Counted(a)' \subseteq Counted(a)
    <2>1. active' = active \ {k} /\ resumed' = resumed \ {k} /\ UNCHANGED <<boundTo, pendingTo>>
      BY <1>4 DEF SessionIdles
    <2>2. QED  BY <2>1 DEF Counted, ActiveSessions, PendingOn
  <1>5. ASSUME NEW k \in Key, BindingExpires(k)
        PROVE  Counted(a)' \subseteq Counted(a)
    <2>1. /\ k \notin active /\ boundTo' = [boundTo EXCEPT ![k] = None]
          /\ UNCHANGED <<active, resumed, pendingTo>>
      BY <1>5 DEF BindingExpires
    <2>2. \A j \in active : boundTo'[j] = boundTo[j]
      BY <1>0, <2>1 DEF TypeOK, Key
    <2>3. QED  BY <2>1, <2>2 DEF Counted, ActiveSessions, PendingOn
  <1>6. QED  BY <1>1, <1>2, <1>3, <1>4, <1>5 DEF Operate

\* Confirmed and provisional sessions are finitely many.
LEMMA CountedFinite ==
  ASSUME TypeOK, NEW a \in Account
  PROVE  /\ IsFiniteSet(Counted(a)) /\ Cardinality(Counted(a)) \in Nat
         /\ IsFiniteSet(ActiveSessions(a)) /\ Cardinality(ActiveSessions(a)) \in Nat
         /\ IsFiniteSet(PendingOn(a)) /\ Cardinality(PendingOn(a)) \in Nat
  <1>1. Counted(a) \in SUBSET Session /\ ActiveSessions(a) \in SUBSET Session
    BY DEF TypeOK, Counted, ActiveSessions, PendingOn
  <1>2. IsFiniteSet(Session)
    BY AdmissionConstants
  <1>3. QED  BY <1>1, <1>2, HoldersFinite, FS_Subset, FS_CardinalityType

\* A set that does not grow stays within the limit.
LEMMA ShrinkKeepsRoom ==
  ASSUME TypeOK, TypeOK', Room, \A a \in Account : Counted(a)' \subseteq Counted(a)
  PROVE  Room'
  <1> SUFFICES ASSUME NEW a \in Account PROVE Cardinality(Counted(a)') <= MaxActive
    BY DEF Room
  <1> DEFINE S == Counted(a)
             T == Counted(a)'
  <1>1. IsFiniteSet(S) /\ Cardinality(S) \in Nat /\ Cardinality(S) <= MaxActive
    BY CountedFinite DEF Room
  <1>2. T \in SUBSET S
    OBVIOUS
  <1>3. MaxActive \in Nat
    BY AdmissionConstants
  <1> HIDE DEF S, T
  <1>4. IsFiniteSet(T) /\ Cardinality(T) <= Cardinality(S)
    BY <1>1, <1>2, FS_Subset
  <1>5. Cardinality(T) \in Nat
    BY <1>4, FS_CardinalityType
  <1>6. Cardinality(T) <= MaxActive
    BY <1>1, <1>3, <1>4, <1>5
  <1>7. QED  BY <1>6 DEF T

\* A new session was compared with every session that counts.
LEMMA NewKeepsRoom ==
  ASSUME IInv, Room, NEW q \in Request, AdmitNew(q)
  PROVE  Room'
  <1>0. TypeOK /\ MaxActive \in Nat
    BY AdmissionConstants DEF IInv
  <1> DEFINE k == route[q].key
             b == cand[q]
  <1>1. /\ pc[q] = "admit" /\ k \in Session /\ pendingTo' = [pendingTo EXCEPT ![k] = b]
        /\ HasSessionRoom(b) /\ UNCHANGED <<boundTo, active, resumed>>
    BY DEF AdmitNew, NeedsSessionSlot, Admitted, storeVars, observed
  <1>2. ASSUME NEW a \in Account, a # b
        PROVE  Cardinality(Counted(a)') <= MaxActive
    <2>1. PendingOn(a)' \subseteq PendingOn(a)
      BY <1>0, <1>1, <1>2 DEF PendingOn, TypeOK
    <2>2. ActiveSessions(a)' = ActiveSessions(a)
      BY <1>1 DEF ActiveSessions
    <2> DEFINE S == Counted(a)
               T == Counted(a)'
    <2>3. IsFiniteSet(S) /\ Cardinality(S) \in Nat /\ Cardinality(S) <= MaxActive
      BY <1>0, CountedFinite DEF Room
    <2>4. T \in SUBSET S
      BY <1>1, <2>1, <2>2 DEF Counted
    <2> HIDE DEF S, T
    <2>5. IsFiniteSet(T) /\ Cardinality(T) <= Cardinality(S)
      BY <2>3, <2>4, FS_Subset
    <2>6. Cardinality(T) \in Nat
      BY <2>5, FS_CardinalityType
    <2>7. Cardinality(T) <= MaxActive
      BY <1>0, <2>3, <2>5, <2>6
    <2>8. QED  BY <2>7 DEF T
  <1>3. ASSUME NEW a \in Account, a = b
        PROVE  Cardinality(Counted(a)') <= MaxActive
    <2> DEFINE P == PendingOn(a)
               A == ActiveSessions(a)
               T == Counted(a)'
    <2>1. /\ IsFiniteSet(P) /\ Cardinality(P) \in Nat
          /\ IsFiniteSet(A) /\ Cardinality(A) \in Nat
      BY <1>0, CountedFinite
    <2>2. Cardinality(A) + Cardinality(P) < MaxActive
      BY <1>1, <1>3 DEF HasSessionRoom, IInv, SessionsMatchHolders
    <2>3. T \in SUBSET ((P \cup A) \cup {k})
      <3>1. PendingOn(a)' \subseteq PendingOn(a) \cup {k}
        BY <1>0, <1>1, <1>3 DEF PendingOn, TypeOK
      <3>2. ActiveSessions(a)' = ActiveSessions(a)
        BY <1>1 DEF ActiveSessions
      <3>3. QED  BY <3>1, <3>2 DEF Counted
    <2> HIDE DEF P, A, T, k
    <2> DEFINE U == P \cup A
    <2>4. /\ IsFiniteSet(U) /\ Cardinality(U) \in Nat
          /\ Cardinality(U) = Cardinality(P) + Cardinality(A) - Cardinality(P \cap A)
      <3>1. /\ IsFiniteSet(U)
            /\ Cardinality(U) = Cardinality(P) + Cardinality(A) - Cardinality(P \cap A)
        BY <2>1, FS_Union
      <3>2. Cardinality(U) \in Nat
        BY <3>1, FS_CardinalityType
      <3>3. QED  BY <3>1, <3>2
    <2>5. Cardinality(P \cap A) \in Nat
      <3>1. P \cap A \in SUBSET P
        OBVIOUS
      <3>2. IsFiniteSet(P \cap A)
        BY <2>1, <3>1, FS_Subset
      <3>3. QED  BY <3>2, FS_CardinalityType
    <2>6. Cardinality(U) < MaxActive
      BY <1>0, <2>1, <2>2, <2>4, <2>5
    <2> HIDE DEF U
    <2>7. IsFiniteSet(U \cup {k}) /\ Cardinality(U \cup {k}) <= Cardinality(U) + 1
      <3>1. /\ IsFiniteSet(U \cup {k})
            /\ Cardinality(U \cup {k}) = IF k \in U THEN Cardinality(U) ELSE Cardinality(U) + 1
        BY <2>4, FS_AddElement
      <3>2. QED  BY <2>4, <3>1
    <2>8. Cardinality(U \cup {k}) \in Nat
      BY <2>7, FS_CardinalityType
    <2>9. T \in SUBSET (U \cup {k})
      BY <2>3 DEF U
    <2>10. IsFiniteSet(T) /\ Cardinality(T) <= Cardinality(U \cup {k})
      BY <2>7, <2>9, FS_Subset
    <2>11. Cardinality(T) \in Nat
      BY <2>10, FS_CardinalityType
    <2>12. Cardinality(T) <= MaxActive
      BY <1>0, <2>4, <2>6, <2>7, <2>8, <2>10, <2>11
    <2>13. QED  BY <2>12 DEF T
  <1>4. \A a \in Account : Cardinality(Counted(a)') <= MaxActive
    BY <1>2, <1>3
  <1>5. QED  BY <1>4 DEF Room

LEMMA RoomStep == IInv /\ IInv' /\ Room /\ [Next]_vars => Room'
  <1> SUFFICES ASSUME IInv, IInv', Room, [Next]_vars PROVE Room'
    OBVIOUS
  <1>0. TypeOK /\ TypeOK'
    BY DEF IInv
  <1>1. ASSUME NEW q \in Request, Arrive(q) \/ Choose(q) \/ StoreError(q) \/ Serve(q)
        PROVE  Room'
    <2>1. CASE AdmitNew(q)
      BY <2>1, NewKeepsRoom
    <2>2. CASE Complete(q)
      <3>1. \A a \in Account : Counted(a)' \subseteq Counted(a)
        BY <2>2, CompleteCounts
      <3>2. QED  BY <1>0, <3>1, ShrinkKeepsRoom
    <2>3. CASE ~AdmitNew(q) /\ ~Complete(q)
      <3>1. OpensNone
        BY <1>1, <2>3, CallsOpenNone
      <3>2. QED  BY <1>0, <3>1, OpensNoneCounts, ShrinkKeepsRoom
    <2>4. QED  BY <2>1, <2>2, <2>3
  <1>2. CASE Operate
    BY <1>0, <1>2, OperateCounts, ShrinkKeepsRoom
  <1>3. CASE UNCHANGED vars
    <2>1. OpensNone
      BY <1>3 DEF OpensNone, vars, storeVars, trackerVars, observed
    <2>2. QED  BY <1>0, <2>1, OpensNoneCounts, ShrinkKeepsRoom
  <1>4. QED  BY <1>1, <1>2, <1>3 DEF Next

LEMMA RoomHolds == (Spec => []Room) /\ (LegacyStart => []Room)
  <1>1. ASSUME NEW start, InitWith(start) PROVE Room
    <2> SUFFICES ASSUME NEW a \in Account PROVE Cardinality(Counted(a)) <= MaxActive
      BY DEF Room
    <2>1. Counted(a) = {}
      BY <1>1, AdmissionConstants DEF InitWith, Counted, PendingOn, ActiveSessions
    <2>2. QED  BY <2>1, FS_EmptySet, AdmissionConstants
  <1>2. (Init => Room) /\ (InitWith("legacy") => Room)
    BY <1>1 DEF Init
  <1>3. IInv /\ IInv' /\ Room /\ [Next]_vars => Room'
    BY RoomStep
  <1>4. QED  BY <1>2, <1>3, Invariant, PTL DEF Spec, LegacyStart

\* Room leaves room for the sessions the limit is about.
LEMMA RoomIsEnough == IInv /\ Room => NewSessionsWithinLimit
  <1> SUFFICES ASSUME IInv, Room, NEW a \in Account
               PROVE  Cardinality((ActiveSessions(a) \cup PendingOn(a)) \ resumed) <= MaxActive
    BY DEF NewSessionsWithinLimit
  <1> DEFINE S == Counted(a)
             T == (ActiveSessions(a) \cup PendingOn(a)) \ resumed
  <1>1. IsFiniteSet(S) /\ Cardinality(S) \in Nat /\ Cardinality(S) <= MaxActive
    BY CountedFinite DEF Room, IInv
  <1>2. T \in SUBSET S
    BY DEF Counted
  <1> HIDE DEF S, T
  <1>3. IsFiniteSet(T) /\ Cardinality(T) <= Cardinality(S)
    BY <1>1, <1>2, FS_Subset
  <1>4. Cardinality(T) \in Nat /\ MaxActive \in Nat
    BY <1>3, FS_CardinalityType, AdmissionConstants
  <1>5. Cardinality(T) <= MaxActive
    BY <1>1, <1>3, <1>4
  <1>6. QED  BY <1>5 DEF T

\* Confirmed and provisional sessions of an account stay within its limit, however
\* many new sessions arrive at once, those left out that an older binding let back in.
THEOREM NewSessionsStayWithinLimit == Spec => []NewSessionsWithinLimit
  BY RoomIsEnough, Invariant, RoomHolds, PTL
-----------------------------------------------------------------------------
(* Which account a call may choose.  A call with a forced account takes    *)
(* none of the other lookups and does not fail over; any other call        *)
(* excludes the account that failed, and one that has excluded an account  *)
(* does not fail over again.  The accounts it has read for its choice are  *)
(* of its pool, unless they were moved since.                              *)

ForcedPath == {"idle", "select", "forced", "reserve", "admit", "fresh", "upstream", "stream",
               "release"}
Proper(q, a) == MayUse(route[q].access, pool[a]) \/ q \in moved
Excludes(q) ==
  /\ excluded[q] \subseteq Account
  /\ \E a \in Account \cup {None} : excluded[q] \subseteq {a}
  /\ pc[q] \in {"idle", "failover"} => excluded[q] = {}
  /\ cand[q] \notin excluded[q]
Pinned(q) ==
  route[q].forced # None =>
    /\ excluded[q] = {} /\ cand[q] \in {None, route[q].forced} /\ pc[q] \in ForcedPath
    /\ pc[q] \in {"reserve", "admit"} => src[q] = "header"
Fenced(q) ==
  /\ cand[q] # None => pc[q] \in Chosen /\ Proper(q, cand[q])
  /\ pc[q] = "idle" => elig[q] = {}
  /\ \A a \in elig[q] : Proper(q, a)
Choice(q) == Excludes(q) /\ Pinned(q) /\ Fenced(q)

\* What a step of one call leaves of another.
Aside(q) ==
  /\ pc'[q] = pc[q] /\ route'[q] = route[q] /\ excluded'[q] = excluded[q]
  /\ cand'[q] = cand[q] /\ src'[q] = src[q] /\ elig'[q] = elig[q]
  /\ pool' = pool /\ (q \in moved => q \in moved')

\* A call that a step leaves aside keeps its choice.
LEMMA AsideKeeps ==
  ASSUME NEW q \in Request, Choice(q), Aside(q)
  PROVE  Choice(q)'
  BY DEF Choice, Excludes, Pinned, Fenced, Proper, Aside

\* A call that has ended has chosen and excluded nothing.
LEMMA FinishChoice ==
  ASSUME TypeOK, NEW q \in Request, NEW result, Finish(q, result)
  PROVE  Choice(q)' /\ \A p \in Request \ {q} : Aside(p)
  <1>1. /\ pc'[q] = "idle" /\ excluded'[q] = {} /\ cand'[q] = None /\ elig'[q] = {}
        /\ route'[q].forced = None
    BY DEF Finish, Forget, ForgetAccounts, Goto, NoRoute, TypeOK
  <1>2. Choice(q)'
    BY <1>1 DEF Choice, Excludes, Pinned, Fenced
  <1>3. ASSUME NEW p \in Request \ {q} PROVE Aside(p)
    BY <1>3 DEF Aside, Finish, Forget, ForgetAccounts, Goto, TypeOK, storeVars
  <1>4. QED  BY <1>2, <1>3

\* A lookup that found a usable account, which no failure has excluded.
LEMMA CandidateChoice ==
  ASSUME TypeOK, NEW q \in Request, Choice(q), NEW a \in Account, NEW source,
         Candidate(q, a, source), Usable(q, a), a \notin excluded[q], pc[q] # "idle",
         route[q].forced # None => a = route[q].forced /\ source = "header"
  PROVE  Choice(q)' /\ \A p \in Request \ {q} : Aside(p)
  <1>1. /\ pc'[q] = "reserve" /\ cand'[q] = a /\ src'[q] = source
        /\ UNCHANGED <<route, excluded, elig, pool, moved>>
    BY DEF Candidate, Goto, TypeOK, storeVars, observed
  <1>2. Excludes(q)'
    BY <1>1 DEF Choice, Excludes
  <1>3. Pinned(q)'
    BY <1>1 DEF Choice, Pinned, ForcedPath
  <1>4. Fenced(q)'
    BY <1>1 DEF Choice, Fenced, Proper, Chosen, Usable, Visible
  <1>5. ASSUME NEW p \in Request \ {q} PROVE Aside(p)
    BY <1>5 DEF Aside, Candidate, Goto, TypeOK, storeVars, observed
  <1>6. QED  BY <1>2, <1>3, <1>4, <1>5 DEF Choice

\* A step on the way that chooses no other account.
LEMMA MoveChoice ==
  ASSUME TypeOK, NEW q \in Request, Choice(q), NEW label, Goto(q, label), label # "idle",
         UNCHANGED <<route, excluded, pool, moved>>,
         \A p \in Request \ {q} : cand'[p] = cand[p] /\ src'[p] = src[p] /\ elig'[p] = elig[p],
         cand'[q] \in {cand[q], None}, elig'[q] \in {elig[q], {}},
         cand'[q] # None => label \in Chosen,
         label = "failover" => excluded[q] = {},
         route[q].forced # None =>
           /\ label \in ForcedPath /\ src'[q] = src[q]
           /\ label \in {"reserve", "admit"} => pc[q] \in {"reserve", "admit"}
  PROVE  Choice(q)' /\ \A p \in Request \ {q} : Aside(p)
  <1>1. pc'[q] = label
    BY DEF Goto, TypeOK
  <1>2. Excludes(q)'
    <2>1. None \notin excluded[q]
      BY AdmissionConstants DEF TypeOK
    <2>2. QED  BY <1>1, <2>1 DEF Choice, Excludes
  <1>3. Pinned(q)'
    BY <1>1 DEF Choice, Pinned
  <1>4. Fenced(q)'
    BY <1>1 DEF Choice, Fenced, Proper
  <1>5. ASSUME NEW p \in Request \ {q} PROVE Aside(p)
    BY <1>5 DEF Aside, Goto, TypeOK
  <1>6. QED  BY <1>2, <1>3, <1>4, <1>5 DEF Choice

\* The least loaded or the most urgent account of those that were read.
LEMMA TakeChoice ==
  ASSUME TypeOK, NEW q \in Request, Choice(q), NEW a \in Account, NEW source, NEW label,
         Take(q, a, source, label), a \in elig[q] \ excluded[q],
         label \in {"admit", "fresh"}, route[q].forced = None,
         \A p \in Request : elig'[p] \in {elig[p], {}}, \A p \in Request \ {q} : elig'[p] = elig[p]
  PROVE  Choice(q)' /\ \A p \in Request \ {q} : Aside(p)
  <1>1. /\ pc'[q] = label /\ cand'[q] = a /\ UNCHANGED <<route, excluded, pool, moved>>
    BY DEF Take, Goto, TypeOK, storeVars, observed
  <1>2. Excludes(q)'
    BY <1>1 DEF Choice, Excludes
  <1>3. Pinned(q)'
    BY <1>1 DEF Pinned
  <1>4. Fenced(q)'
    BY <1>1 DEF Choice, Fenced, Proper, Chosen
  <1>5. ASSUME NEW p \in Request \ {q} PROVE Aside(p)
    BY <1>5 DEF Aside, Take, Goto, TypeOK, storeVars, observed
  <1>6. QED  BY <1>2, <1>3, <1>4, <1>5 DEF Choice

\* A lookup finds an account, passes on or ends the call.
LEMMA LookupChoice ==
  ASSUME TypeOK, ControlOK, NEW q \in Request, Choice(q),
         LookupForced(q) \/ LookupUUID(q) \/ LookupPending(q) \/ LookupBinding(q)
  PROVE  Choice(q)' /\ \A p \in Request \ {q} : Aside(p)
  <1>0. route[q] \in RouteType
    BY RouteFields
  <1>1. CASE LookupForced(q)
    <2>1. route[q].forced \in Account /\ pc[q] = "forced" /\ excluded[q] = {}
      BY <1>0, <1>1 DEF LookupForced, ControlOK, Choice, Pinned, RouteType
    <2>2. QED
      BY <1>1, <2>1, FinishChoice, CandidateChoice DEF LookupForced
  <1>2. CASE LookupUUID(q) \/ LookupPending(q) \/ LookupBinding(q)
    <2>1. pc[q] \in {"uuid", "pending", "binding"} /\ route[q].forced = None
      BY <1>2 DEF LookupUUID, LookupPending, LookupBinding, Choice, Pinned, ForcedPath
    <2>2. CASE \E label \in {"pending", "binding", "accounts"} : Advance(q, label)
      <3>1. PICK label \in {"pending", "binding", "accounts"} : Advance(q, label)
        BY <2>2
      <3>2. /\ Goto(q, label)
            /\ UNCHANGED <<route, excluded, cand, src, elig, pool, moved>>
        BY <3>1 DEF Advance, callVars, pickVars, storeVars, observed
      <3>3. cand[q] = None
        BY <2>1 DEF Choice, Fenced, Chosen
      <3>4. QED
        BY <2>1, <3>2, <3>3, MoveChoice
    <2>3. CASE \E a, s : Candidate(q, a, s) /\ a # None /\ a \notin excluded[q] /\ Usable(q, a)
                         /\ a \in Account
      BY <2>1, <2>3, CandidateChoice
    <2>4. CASE LookupUUID(q)
      <3>1. route[q].hint \in Account \cup {None}
        BY <1>0 DEF RouteType
      <3>2. QED  BY <2>2, <2>3, <2>4, <3>1 DEF LookupUUID
    <2>5. CASE LookupPending(q)
      <3>1. route[q].key \in Session => pendingTo[route[q].key] \in Account \cup {None}
        BY DEF TypeOK
      <3>2. QED  BY <2>2, <2>3, <2>5, <3>1 DEF LookupPending
    <2>6. CASE LookupBinding(q)
      <3>1. route[q].key # None => boundTo[route[q].key] \in Account \cup {None}
        BY <1>0 DEF TypeOK, RouteType
      <3>2. QED  BY <2>2, <2>3, <2>6, <3>1 DEF LookupBinding
    <2>7. QED  BY <1>2, <2>4, <2>5, <2>6
  <1>3. QED  BY <1>1, <1>2

\* The accounts that were read are of the call's pool, and so is the one taken of them.
LEMMA ScanChoice ==
  ASSUME TypeOK, NEW q \in Request, Choice(q), LookupAccounts(q) \/ Balance(q) \/ QuotaPick(q)
  PROVE  Choice(q)' /\ \A p \in Request \ {q} : Aside(p)
  <1>1. pc[q] \in {"accounts", "quota", "balance", "quotaPick"} /\ route[q].forced = None
    BY DEF LookupAccounts, Balance, QuotaPick, Choice, Pinned, ForcedPath
  <1>2. CASE LookupAccounts(q)
    <2>1. /\ pc'[q] \in {"quotaPick", "balance"} /\ elig'[q] = {a \in Account : Usable(q, a)}
          /\ UNCHANGED <<route, excluded, cand, pool, moved>>
      BY <1>2 DEF LookupAccounts, Goto, TypeOK, storeVars, observed
    <2>2. Excludes(q)' /\ Pinned(q)'
      BY <1>1, <2>1 DEF Choice, Excludes, Pinned
    <2>3. cand[q] = None
      BY <1>1 DEF Choice, Fenced, Chosen
    <2>4. Fenced(q)'
      BY <2>1, <2>3 DEF Fenced, Proper, Usable, Visible
    <2>5. ASSUME NEW p \in Request \ {q} PROVE Aside(p)
      BY <1>2, <2>5 DEF Aside, LookupAccounts, Goto, TypeOK, storeVars, observed
    <2>6. QED  BY <2>2, <2>4, <2>5 DEF Choice
  <1>3. CASE Balance(q) \/ QuotaPick(q)
    <2>1. CASE \E result : Finish(q, result)
      BY <2>1, FinishChoice
    <2>2. ASSUME NEW a \in elig[q] \ excluded[q], NEW s, NEW label \in {"admit", "fresh"},
                 Take(q, a, s, label), UNCHANGED elig \/ ForgetAccounts(q)
          PROVE  Choice(q)' /\ \A p \in Request \ {q} : Aside(p)
      <3>1. a \in Account
        BY DEF TypeOK
      <3>2. /\ \A p \in Request : elig'[p] \in {elig[p], {}}
            /\ \A p \in Request \ {q} : elig'[p] = elig[p]
        BY <2>2 DEF ForgetAccounts, TypeOK
      <3>3. QED  BY <1>1, <2>2, <3>1, <3>2, TakeChoice
    <2>3. CASE Balance(q)
      <3> DEFINE best == LeastLoaded(q, elig[q] \ (excluded[q] \cup localEx[q]))
      <3>1. best \subseteq elig[q] \ excluded[q]
        BY DEF LeastLoaded
      <3>2. \/ \E a \in best : Take(q, a, "load_balance", "admit") /\ UNCHANGED elig
            \/ \E result : Finish(q, result)
        BY <2>3 DEF Balance
      <3> HIDE DEF best
      <3>3. ASSUME NEW a \in best, Take(q, a, "load_balance", "admit"), UNCHANGED elig
            PROVE  Choice(q)' /\ \A p \in Request \ {q} : Aside(p)
        <4>1. a \in elig[q] \ excluded[q]
          BY <3>1
        <4>2. QED  BY <2>2, <3>3, <4>1
      <3>4. QED  BY <2>1, <3>2, <3>3
    <2>4. CASE QuotaPick(q)
      <3> DEFINE withQuota == IF route[q].count THEN elig[q] ELSE {a \in elig[q] : quota[a] # 0}
                 open == {a \in withQuota \ excluded[q] : Load(q, a) < lim[q]}
                 best == IF route[q].count THEN LeastLoaded(q, open)
                         ELSE {a \in open : \A b \in open : NoWorse(q, a, b)}
      <3>1. best \subseteq elig[q] \ excluded[q]
        BY DEF LeastLoaded
      <3>2. \/ \E a \in best : Take(q, a, "quota_aware", "fresh") /\ ForgetAccounts(q)
            \/ \E result : Finish(q, result)
        BY <2>4 DEF QuotaPick
      <3> HIDE DEF best
      <3>3. ASSUME NEW a \in best, Take(q, a, "quota_aware", "fresh"), ForgetAccounts(q)
            PROVE  Choice(q)' /\ \A p \in Request \ {q} : Aside(p)
        <4>1. a \in elig[q] \ excluded[q]
          BY <3>1
        <4>2. QED  BY <2>2, <3>3, <4>1
      <3>4. QED  BY <2>1, <3>2, <3>3
    <2>5. QED  BY <1>3, <2>3, <2>4
  <1>4. QED  BY <1>2, <1>3

\* Reserving and admitting choose no other account.
LEMMA AdmissionChoice ==
  ASSUME TypeOK, NEW q \in Request, Choice(q),
         \/ Select(q) \/ Reserve(q) \/ NoSlot(q) \/ AdmitExisting(q) \/ AdmitShared(q)
         \/ AdmitNew(q) \/ RefuseSession(q)
  PROVE  Choice(q)' /\ \A p \in Request \ {q} : Aside(p)
  <1> USE DEF storeVars, observed, pickVars
  <1>1. CASE Select(q)
    <2>1. cand[q] = None
      BY <1>1 DEF Select, Choice, Fenced, Chosen
    <2>2. PICK label \in {"forced", "quota", "uuid"} :
            Goto(q, label) /\ (route[q].forced # None => label = "forced")
      BY <1>1 DEF Select
    <2>3. QED  BY <1>1, <2>1, <2>2, MoveChoice DEF Select, ForcedPath
  <1>2. CASE Reserve(q)
    <2>1. PICK label \in {"admit", "fresh"} : Goto(q, label)
      BY <1>2 DEF Reserve
    <2>2. QED  BY <1>2, <2>1, MoveChoice DEF Reserve, ForcedPath, Chosen
  <1>3. CASE NoSlot(q)
    <2>1. CASE src[q] = "account_uuid"
      <3>1. route[q].forced = None
        BY <1>3, <2>1 DEF NoSlot, Choice, Pinned
      <3>2. cand'[q] = None
        BY <1>3, <2>1 DEF NoSlot, Forget, TypeOK
      <3>3. \A p \in Request \ {q} : cand'[p] = cand[p] /\ src'[p] = src[p]
        BY <1>3, <2>1 DEF NoSlot, Forget, TypeOK
      <3>4. QED  BY <1>3, <2>1, <3>1, <3>2, <3>3, MoveChoice DEF NoSlot
    <2>2. CASE src[q] # "account_uuid"
      BY <1>3, <2>2, FinishChoice DEF NoSlot
    <2>3. QED  BY <2>1, <2>2
  <1>4. CASE AdmitExisting(q) \/ AdmitShared(q) \/ AdmitNew(q)
    <2>1. pc[q] = "admit" /\ Admitted(q)
      BY <1>4 DEF AdmitExisting, AdmitShared, AdmitNew
    <2>2. elig'[q] = {} /\ \A p \in Request \ {q} : elig'[p] = elig[p]
      BY <2>1 DEF Admitted, ForgetAccounts, TypeOK
    <2>3. QED  BY <2>1, <2>2, MoveChoice DEF Admitted, ForcedPath, Chosen
  <1>5. CASE RefuseSession(q)
    <2>1. CASE src[q] = "header"
      BY <1>5, <2>1, FinishChoice DEF RefuseSession
    <2>2. CASE src[q] # "header"
      <3>1. route[q].forced = None
        BY <1>5, <2>2 DEF RefuseSession, Choice, Pinned
      <3>2. cand'[q] = None /\ \A p \in Request \ {q} : cand'[p] = cand[p] /\ src'[p] = src[p]
        BY <1>5, <2>2 DEF RefuseSession, TypeOK
      <3>3. PICK label \in {"pending", "binding", "balance"} : Goto(q, label)
        BY <1>5, <2>2 DEF RefuseSession
      <3>4. QED  BY <1>5, <2>2, <3>1, <3>2, <3>3, MoveChoice DEF RefuseSession
    <2>3. QED  BY <2>1, <2>2
  <1>6. QED  BY <1>1, <1>2, <1>3, <1>4, <1>5

\* Serving a call fails over from its first account alone.
LEMMA ServeChoice ==
  ASSUME TypeOK, ControlOK, NEW q \in Request, Choice(q), Serve(q)
  PROVE  Choice(q)' /\ \A p \in Request \ {q} : Aside(p)
  <1> USE DEF storeVars, restOfStore, observed, pickVars
  <1>1. CASE FailOver(q)
    <2>1. route[q].forced = None /\ excluded[q] = {} /\ cand[q] \in Account
      BY <1>1 DEF FailOver, Choice, Pinned, Excludes, ForcedPath, ControlOK, Chosen
    <2>2. /\ pc'[q] = "select" /\ cand'[q] = None /\ excluded'[q] = {cand[q]}
          /\ UNCHANGED <<route, elig, pool, moved>>
      BY <1>1, <2>1 DEF FailOver, Goto, Forget, TypeOK
    <2>3. None \notin Account
      BY AdmissionConstants
    <2>4. Excludes(q)' /\ Pinned(q)'
      BY <2>1, <2>2, <2>3 DEF Excludes, Pinned
    <2>5. Fenced(q)'
      BY <2>2 DEF Choice, Fenced, Proper
    <2>6. ASSUME NEW p \in Request \ {q} PROVE Aside(p)
      BY <1>1, <2>6 DEF Aside, FailOver, Goto, Forget, TypeOK
    <2>7. QED  BY <2>4, <2>5, <2>6 DEF Choice
  <1>2. CASE Return(q)
    BY <1>2, FinishChoice DEF Return
  <1>3. CASE \/ TokenFresh(q) \/ TransformFails(q) \/ Accepted(q) \/ Declined(q)
             \/ Interrupted(q) \/ Complete(q)
    <2>1. /\ UNCHANGED <<route, excluded, cand, src, elig, pool, moved>>
          /\ pc[q] \in {"fresh", "upstream", "stream"}
      BY <1>3 DEF TokenFresh, TransformFails, Accepted, Declined, Interrupted, Complete
    <2>2. PICK label \in {"upstream", "stream", "release"} : Goto(q, label)
      BY <1>3 DEF TokenFresh, TransformFails, Accepted, Declined, Interrupted, Complete, Ending
    <2>3. QED  BY <2>1, <2>2, MoveChoice DEF ForcedPath, Chosen
  <1>4. CASE TokenFails(q) \/ Retryable(q) \/ TransportFails(q)
    <2>1. /\ UNCHANGED <<route, excluded, cand, src, elig, pool, moved>>
          /\ pc[q] \in {"fresh", "upstream"}
      BY <1>4 DEF TokenFails, Retryable, TransportFails
    <2>2. CASE LastAttempt(q)
      <3>1. PICK label \in {"stream", "release"} : Goto(q, label)
        BY <1>4, <2>2 DEF TokenFails, Retryable, TransportFails, Ending
      <3>2. QED  BY <2>1, <3>1, MoveChoice DEF ForcedPath, Chosen
    <2>3. CASE ~LastAttempt(q)
      <3>1. Goto(q, "failover") /\ route[q].forced = None /\ excluded[q] = {}
        BY <1>4, <2>3 DEF TokenFails, Retryable, TransportFails, LastAttempt
      <3>2. QED  BY <2>1, <3>1, MoveChoice DEF Chosen
    <2>4. QED  BY <2>2, <2>3
  <1>5. QED  BY <1>1, <1>2, <1>3, <1>4 DEF Serve

\* An account the console moves was moved during every call in progress.
LEMMA OperateChoice ==
  ASSUME TypeOK, Operate, NEW q \in Request, Choice(q)
  PROVE  Choice(q)'
  <1> USE DEF storeVars, restOfStore, callsAndTrackers, callVars, pickVars, observed
  <1>1. CASE \/ SetRoutingPolicy \/ SetAccountConcurrency
             \/ \E b \in Account : SetAccountEnabled(b) \/ CooldownEnds(b) \/ WindowResets(b)
             \/ \E k \in Session : SessionIdles(k)
             \/ \E k \in Key : BindingExpires(k)
    <2>1. Aside(q)
      BY <1>1 DEF SetRoutingPolicy, SetAccountConcurrency, SetAccountEnabled, CooldownEnds,
                  WindowResets, SessionIdles, BindingExpires, Aside
    <2>2. QED  BY <2>1, AsideKeeps
  <1>2. CASE Restart
    <2>1. /\ pc'[q] = "idle" /\ excluded'[q] = {} /\ cand'[q] = None /\ elig'[q] = {}
          /\ route'[q].forced = None
      BY <1>2 DEF Restart, NoRoute
    <2>2. QED  BY <2>1 DEF Choice, Excludes, Pinned, Fenced
  <1>3. ASSUME NEW b \in Account, SetAccountPool(b) \/ DeleteAccount(b)
        PROVE  Choice(q)'
    <2>1. UNCHANGED <<pc, route, excluded, cand, src, elig>>
      BY <1>3 DEF SetAccountPool, DeleteAccount
    <2>2. Excludes(q)' /\ Pinned(q)'
      BY <2>1 DEF Choice, Excludes, Pinned
    <2>3. Fenced(q)'
      <3>1. CASE pc[q] = "idle"
        BY <2>1, <3>1 DEF Choice, Fenced, Chosen
      <3>2. CASE pc[q] # "idle" /\ SetAccountPool(b)
        <4>1. q \in moved'
          BY <3>2 DEF SetAccountPool
        <4>2. QED  BY <2>1, <3>2, <4>1 DEF Choice, Fenced, Proper
      <3>3. CASE DeleteAccount(b)
        <4>1. ASSUME NEW a \in Account, Proper(q, a) PROVE Proper(q, a)'
          BY <2>1, <3>3, <4>1 DEF Proper, MayUse, DeleteAccount, TypeOK
        <4>2. elig[q] \subseteq Account /\ cand[q] \in Account \cup {None}
          BY DEF TypeOK
        <4>3. QED  BY <2>1, <4>1, <4>2 DEF Choice, Fenced
      <3>4. QED  BY <1>3, <3>1, <3>2, <3>3
    <2>4. QED  BY <2>2, <2>3 DEF Choice
  <1>4. QED  BY <1>1, <1>2, <1>3 DEF Operate

Choices == \A q \in Request : Choice(q)
LEMMA ChoiceStep == IInv /\ Choices /\ [Next]_vars => Choices'
  <1> SUFFICES ASSUME IInv, \A q \in Request : Choice(q), [Next]_vars, NEW p \in Request
               PROVE  Choice(p)'
    BY DEF Choices
  <1>0. TypeOK /\ ControlOK
    BY DEF IInv
  <1>1. ASSUME NEW q \in Request, Arrive(q) \/ Choose(q) \/ StoreError(q) \/ Serve(q)
        PROVE  Choice(q)' /\ \A r \in Request \ {q} : Aside(r)
    <2>1. CASE Arrive(q)
      <3>1. pc[q] = "idle" /\ excluded[q] = {} /\ cand[q] = None /\ elig[q] = {}
        BY <2>1 DEF Arrive, Choice, Excludes, Fenced, Chosen
      <3>2. /\ pc'[q] = "select" /\ UNCHANGED <<excluded, cand, src, elig, pool, moved>>
            /\ \A r \in Request \ {q} : route'[r] = route[r] /\ pc'[r] = pc[r]
        BY <1>0, <2>1 DEF Arrive, Goto, TypeOK, storeVars, pickVars, observed
      <3>3. Choice(q)'
        BY <3>1, <3>2 DEF Choice, Excludes, Pinned, Fenced, ForcedPath
      <3>4. QED  BY <3>2, <3>3 DEF Aside
    <2>2. CASE Choose(q)
      BY <1>0, <2>2, LookupChoice, ScanChoice, AdmissionChoice DEF Choose
    <2>3. CASE StoreError(q)
      BY <1>0, <2>3, FinishChoice DEF StoreError
    <2>4. CASE Serve(q)
      BY <1>0, <2>4, ServeChoice
    <2>5. QED  BY <1>1, <2>1, <2>2, <2>3, <2>4
  <1>2. ASSUME NEW q \in Request, Arrive(q) \/ Choose(q) \/ StoreError(q) \/ Serve(q)
        PROVE  Choice(p)'
    <2>1. CASE p = q
      BY <1>1, <1>2, <2>1
    <2>2. CASE p # q
      <3>1. Aside(p)
        BY <1>1, <1>2, <2>2
      <3>2. QED  BY <3>1, AsideKeeps
    <2>3. QED  BY <2>1, <2>2
  <1>3. CASE Operate
    BY <1>0, <1>3, OperateChoice
  <1>4. CASE UNCHANGED vars
    <2>1. Aside(p)
      BY <1>4 DEF Aside, vars, storeVars, callVars, pickVars, observed
    <2>2. QED  BY <2>1, AsideKeeps
  <1>5. QED  BY <1>2, <1>3, <1>4 DEF Next

LEMMA ChoicesHold == (Spec => [](TypeOK /\ Choices)) /\ (LegacyStart => [](TypeOK /\ Choices))
  <1>1. ASSUME NEW start, InitWith(start), NEW q \in Request PROVE Choice(q)
    <2>1. /\ pc[q] = "idle" /\ excluded[q] = {} /\ cand[q] = None /\ elig[q] = {}
          /\ route[q].forced = None
      BY <1>1 DEF InitWith, NoRoute
    <2>2. QED  BY <2>1 DEF Choice, Excludes, Pinned, Fenced
  <1>2. (Init => Choices) /\ (InitWith("legacy") => Choices)
    BY <1>1 DEF Init, Choices
  <1>3. IInv /\ Choices /\ [Next]_vars => Choices'
    BY ChoiceStep
  <1>4. IInv => TypeOK
    BY DEF IInv
  <1>5. QED  BY <1>2, <1>3, <1>4, Invariant, PTL DEF Spec, LegacyStart

\* A call that may choose as it does has failed over once at most.
LEMMA ChoicesAreBounded == TypeOK /\ Choices => FailoverIsBounded
  <1> SUFFICES ASSUME TypeOK, Choices, NEW q \in Request
               PROVE  /\ Cardinality(excluded[q]) <= 1
                      /\ route[q].forced # None =>
                           excluded[q] = {} /\ cand[q] \in {None, route[q].forced}
                      /\ cand[q] \notin excluded[q]
    BY DEF FailoverIsBounded
  <1>1. Choice(q)
    BY DEF Choices
  <1>2. PICK a : excluded[q] \in SUBSET {a}
    BY <1>1 DEF Choice, Excludes
  <1>3. IsFiniteSet({a}) /\ Cardinality({a}) = 1
    BY FS_Singleton
  <1>4. Cardinality(excluded[q]) <= 1
    BY <1>2, <1>3, FS_Subset
  <1>5. QED  BY <1>1, <1>4 DEF Choice, Excludes, Pinned

\* A call tries one alternate account at most, never the one that failed, and none if
\* the caller named its account.
THEOREM FailoversAreBounded == Spec => []FailoverIsBounded
  BY ChoicesAreBounded, ChoicesHold, PTL

\* And it has stayed on its side of the fence.
LEMMA ChoicesAreFenced == TypeOK /\ Choices => FenceHolds
  BY DEF FenceHolds, Choices, Choice, Fenced, Proper

\* A compatible call uses an account of the official pool only if it was moved there
\* while the call was running, whichever path chose it.
THEOREM FenceIsKept == Spec => []FenceHolds
  BY ChoicesAreFenced, ChoicesHold, PTL
-----------------------------------------------------------------------------
(* The refinement of the slot pool.                                         *)

\* The calls that hold a slot of the pool are the Messages holders of the account.
LEMMA PoolHolding ==
  ASSUME TypeOK
  PROVE  \A a \in Account : Pool!Holding(a) = Holders("messages", a)
  BY AdmissionConstants, RouteFields DEF Pool!Holding, Holders, SlotHolder, KindOf, RouteType

\* A step that gives back at most the slot of one call is a release or a stutter.
LEMMA PoolRelease ==
  ASSUME IInv, NEW q \in Request, DropsSlot(q), peak' = peak
  PROVE  Pool!Release(q) \/ SlotHolder' = SlotHolder
  <1>1. \A p \in Request : SlotHolder'[p] = IF p = q THEN None ELSE SlotHolder[p]
    BY DEF IInv, TypeOK, DropsSlot, DropSlot, SlotHolder
  <1>2. SlotHolder' = [SlotHolder EXCEPT ![q] = None]
    BY <1>1 DEF SlotHolder
  <1>3. CASE SlotHolder[q] # None
    BY <1>2, <1>3 DEF Pool!Release
  <1>4. CASE SlotHolder[q] = None
    BY <1>2, <1>4 DEF SlotHolder
  <1>5. QED  BY <1>3, <1>4

\* Taking a Messages slot is an acquisition; a count_tokens slot is not of the pool.
LEMMA PoolAcquire ==
  ASSUME IInv, NEW q \in Request, TakesSlot(q), peak' = peak
  PROVE  (\E a \in Account : Pool!Acquire(q, a)) \/ SlotHolder' = SlotHolder
  <1> PICK a \in Account : cand'[q] = a
    BY DEF TakesSlot
  <1>1. slot' = [slot EXCEPT ![q] = TRUE] /\ ~slot[q] /\ TypeOK
    BY DEF TakesSlot, TakeSlot, IInv
  <1>2. \A p \in Request : SlotHolder'[p] = IF p = q /\ ~route[q].count THEN a ELSE SlotHolder[p]
    BY <1>1 DEF TypeOK, TakesSlot, SlotHolder
  <1>3. CASE route[q].count
    BY <1>2, <1>3 DEF SlotHolder
  <1>4. CASE ~route[q].count
    <2>1. SlotHolder' = [SlotHolder EXCEPT ![q] = a] /\ SlotHolder[q] = None
      BY <1>1, <1>2, <1>4 DEF SlotHolder
    <2>2. Cardinality(Pool!Holding(a)) < peak
      <3>1. Pool!Holding(a) = Holders("messages", a) /\ KindOf(q) = "messages"
        BY <1>1, <1>4, PoolHolding DEF KindOf
      <3>2. Cardinality(Holders("messages", a)) = inFlight["messages"][a]
        BY DEF IInv, SlotsMatchHolders, Kind
      <3>3. inFlight["messages"][a] < lim[q] /\ lim[q] <= peak
        BY <1>4, <3>1 DEF TakesSlot, Load, IInv, ControlOK, Bound
      <3>4. inFlight["messages"][a] \in Nat /\ lim[q] \in Nat /\ peak \in Nat
        BY <1>1, AdmissionConstants DEF TypeOK, Kind
      <3>5. QED  BY <3>1, <3>2, <3>3, <3>4
    <2>3. Pool!Acquire(q, a)
      <3>1. SlotHolder' = [SlotHolder EXCEPT ![q] = a]
        BY <2>1
      <3>2. Cardinality(Pool!Holding(a)) < peak /\ SlotHolder[q] = None
        BY <2>1, <2>2
      <3> HIDE DEF SlotHolder, Pool!Holding
      <3>3. QED  BY <3>1, <3>2 DEF Pool!Acquire, Pool!Cardinality, Cardinality
    <2>4. QED  BY <2>3
  <1>5. QED  BY <1>3, <1>4

\* A restart empties the pool, and steps that keep the slots leave it alone.
LEMMA PoolStep ==
  ASSUME IInv, Shape
  PROVE  [Pool!Next]_<<SlotHolder, peak>>
  <1>1. CASE peak' # peak
    <2>1. SlotHolder' = SlotHolder
      BY <1>1 DEF Shape, KeepsSlots, SlotHolder
    <2>2. QED
      BY <1>1, <2>1 DEF Shape, Pool!Next, Pool!Raise, TypeOK
  <1>2. CASE peak' = peak /\ KeepsSlots
    BY <1>2 DEF KeepsSlots, SlotHolder
  <1>3. CASE peak' = peak /\ ResetsSlots
    BY <1>3 DEF ResetsSlots, SlotHolder, Pool!Next, Pool!Reset
  <1>4. ASSUME NEW q \in Request, peak' = peak, TakesSlot(q)
        PROVE  [Pool!Next]_<<SlotHolder, peak>>
    BY <1>4, PoolAcquire DEF Pool!Next
  <1>5. ASSUME NEW q \in Request, peak' = peak, DropsSlot(q)
        PROVE  [Pool!Next]_<<SlotHolder, peak>>
    BY <1>5, PoolRelease DEF Pool!Next
  <1>6. QED
    BY <1>1, <1>2, <1>3, <1>4, <1>5 DEF Shape, SlotStep

\* A relay that begins idle begins with an empty pool, and every step is one of the pool.
LEMMA PoolBegins == ASSUME NEW start, InitWith(start) PROVE Pool!Init
  BY DEF InitWith, Pool!Init, SlotHolder

LEMMA PoolGoesOn == IInv /\ [Next]_vars => [Pool!Next]_<<SlotHolder, peak>>
  <1>1. ASSUME IInv, UNCHANGED vars PROVE SlotHolder' = SlotHolder /\ peak' = peak
    BY <1>1 DEF vars, callVars, pickVars, observed, SlotHolder
  <1>2. QED  BY <1>1, NextShape, PoolStep

\* accountLoadTracker and every path of forward through it implement a pool of
\* counted slots: at most one slot for a call, taken below the capacity only.
THEOREM AdmissionImplementsSlotPool == Spec => ImplementsSlotPool
  <1>1. Init => Pool!Init
    BY PoolBegins DEF Init
  <1>2. QED
    BY <1>1, PoolGoesOn, Invariant, PTL DEF Spec, ImplementsSlotPool, Pool!Spec

\* All this is as true of a relay whose operator chose affinity-first routing before the
\* first call (routing_policy.go: set).
THEOREM LegacyStartIsAsSafe ==
  LegacyStart =>
    /\ [](TypeOK /\ SlotsMatchHolders /\ HoldersWithinLimit /\ SessionsMatchHolders)
    /\ [](NothingHeldWhenIdle /\ NewSessionsWithinLimit /\ FailoverIsBounded /\ FenceHolds)
    /\ ImplementsSlotPool
  <1>1. IInv => /\ TypeOK /\ SlotsMatchHolders /\ HoldersWithinLimit /\ SessionsMatchHolders
                /\ NothingHeldWhenIdle
    BY DEF IInv, ControlOK, NothingHeldWhenIdle, Unreserved
  <1>2. InitWith("legacy") => Pool!Init
    BY PoolBegins
  <1>3. LegacyStart => ImplementsSlotPool
    BY <1>2, PoolGoesOn, Invariant, PTL DEF LegacyStart, ImplementsSlotPool, Pool!Spec
  <1>4. QED
    BY <1>1, <1>3, Invariant, RoomHolds, RoomIsEnough, ChoicesHold, ChoicesAreBounded,
       ChoicesAreFenced, PTL
=============================================================================
