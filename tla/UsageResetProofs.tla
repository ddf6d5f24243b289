-------------------------- MODULE UsageResetProofs --------------------------
(***************************************************************************)
(* A reset operation spends one card at most, what is settled is true, and *)
(* the open operations of a subscription do not overlap, for any number of *)
(* handlers, operations, subscriptions and cards.                          *)
(*                                                                         *)
(* The invariant follows a claim from the record it is made under to its   *)
(* outcome.  An id that was spent is remembered upstream for as long as a  *)
(* claim may still be made with it; and a handler that has found no record *)
(* is the only one that has ever claimed, so a refusal it is told is the   *)
(* truth.                                                                  *)
(***************************************************************************)
EXTENDS UsageReset, TLAPS

\* None is nothing else.
ResetConstants == None \notin Handler \cup Record \cup Request \cup Answers

Claiming(h) == pc[h] \in {"post", "sent", "answered"}
MayClaim(r) == r \in late \/ \E h \in Handler : pc[h] \in {"post", "sent"} /\ req[h].op = r

\* A claim is made under the operation's record, for its subscription.
OfRecord ==
  \A h \in Handler : Claiming(h) =>
    ops[req[h].op] # None /\ ops[req[h].op].sub = req[h].sub
\* A spent id is remembered while a claim may reach upstream with it.
Memory ==
  \A r \in Operation :
    /\ spent[r] \in {0, 1}
    /\ r \in remembered => spent[r] = 1
    /\ spent[r] = 1 => r \in remembered \/ (r \in old /\ ~MayClaim(r))
    /\ spent[r] = 1 \/ MayClaim(r) => ops[r] # None
\* The first claim of an operation is alone, and so is a refusal of it.
FirstClaim ==
  \A h \in Handler : ~found[h] =>
    /\ pc[h] \in {"post", "sent"} => spent[req[h].op] = 0 /\ req[h].op \notin late
    /\ pc[h] = "answered" /\ answer[h] = "refused" =>
         spent[req[h].op] = 0 /\ req[h].op \notin late
Told == \A h \in Handler : pc[h] = "answered" /\ answer[h] \in Settling => spent[req[h].op] = 1
Closed ==
  \A r \in Operation : ops[r] # None /\ ops[r].state = "settled" =>
    /\ ops[r].result \in {"refused", "manually_resolved"} \cup Settling
    /\ ops[r].result = "refused" => spent[r] = 0 /\ ~MayClaim(r)
    /\ ops[r].result \in Settling => spent[r] = 1
Open ==
  \A r, q \in Operation :
    Unresolved(r) /\ Unresolved(q) /\ ops[r].sub = ops[q].sub => r = q
IInv == TypeOK /\ OfRecord /\ Memory /\ FirstClaim /\ Told /\ Closed /\ Open
-----------------------------------------------------------------------------
LEMMA InitInv == ASSUME ResetConstants, Init PROVE IInv
  <1>1. TypeOK
    BY DEF Init, TypeOK, Inside
  <1> QED BY <1>1 DEF Init, IInv, OfRecord, Memory, FirstClaim, Told, Closed, Open, Claiming,
                      MayClaim, Unresolved

LEMMA Asked ==
  ASSUME TypeOK, NEW h \in Handler, pc[h] # "idle"
  PROVE /\ req[h] \in Request /\ req[h].op \in Operation /\ req[h].sub \in Subscription
        /\ req[h].card \in Card
  BY DEF TypeOK, Request

\* The lock of the subscription keeps two handlers from claiming with one id.
LEMMA OneClaim ==
  ASSUME ResetConstants, IInv, NEW h \in Handler, NEW g \in Handler, Inside(h), Inside(g),
         req[h].sub = req[g].sub
  PROVE g = h
  BY DEF IInv, TypeOK

LEMMA OneClaimant ==
  ASSUME ResetConstants, IInv, NEW h \in Handler, NEW g \in Handler, Claiming(h), Claiming(g),
         req[h].op = req[g].op
  PROVE g = h
  BY OneClaim DEF IInv, OfRecord, Claiming, Inside

LEMMA EndTypes ==
  ASSUME ResetConstants, TypeOK, NEW h \in Handler, Inside(h), End(h),
         ops' \in [Operation -> Record \cup {None}],
         UNCHANGED <<old, spent, remembered, late>>
  PROVE TypeOK'
  <1>1. req[h].sub \in Subscription /\ lock[req[h].sub] = h
    BY Asked DEF TypeOK, Inside
  <1>2. ASSUME NEW g \in Handler, Inside(g)'
        PROVE lock'[req'[g].sub] = g /\ g # h /\ pc'[g] = pc[g] /\ req'[g] = req[g]
    <2>1. g # h /\ pc'[g] = pc[g] /\ req'[g] = req[g]
      BY <1>2 DEF End, Goto, TypeOK, Inside
    <2>2. Inside(g) /\ lock[req[g].sub] = g
      BY <1>2, <2>1 DEF Inside, TypeOK
    <2>3. req[g].sub \in Subscription
      BY <2>2, Asked DEF Inside
    <2> QED BY <1>1, <2>1, <2>2, <2>3 DEF End, TypeOK
  <1>3. lock' \in [Subscription -> Handler \cup {None}]
    BY <1>1 DEF End, TypeOK
  <1> QED BY <1>2, <1>3 DEF TypeOK, End, Goto, ResetConstants

\* A step that only takes handlers away from their claims keeps all but the types.
LEMMA Retreat ==
  ASSUME IInv, TypeOK', UNCHANGED <<ops, old, spent, remembered, late>>,
         \A g \in Handler : Claiming(g)' =>
           pc'[g] = pc[g] /\ req'[g] = req[g] /\ found'[g] = found[g] /\ answer'[g] = answer[g]
  PROVE IInv'
  <1>1. \A r \in Operation : MayClaim(r)' => MayClaim(r)
    BY DEF MayClaim, Claiming
  <1>2. OfRecord'
    BY DEF IInv, OfRecord, Claiming
  <1>3. Memory'
    BY <1>1 DEF IInv, Memory
  <1>4. FirstClaim' /\ Told'
    BY DEF IInv, FirstClaim, Told, Claiming
  <1>5. Closed' /\ Open'
    BY <1>1 DEF IInv, Closed, Open, Unresolved
  <1> QED BY <1>2, <1>3, <1>4, <1>5 DEF IInv

LEMMA EnterStep ==
  ASSUME ResetConstants, IInv, NEW h \in Handler, Enter(h)
  PROVE IInv'
  <1>1. PICK q \in Request : req' = [req EXCEPT ![h] = q]
    BY DEF Enter
  <1>2. /\ pc' = [pc EXCEPT ![h] = "lock"] /\ pc[h] = "idle"
        /\ UNCHANGED <<ops, old, spent, remembered, late, lock, found, answer>>
    BY DEF Enter, Goto, upstream
  <1>3. TypeOK'
    BY <1>1, <1>2 DEF IInv, TypeOK, Inside, ResetConstants
  <1> QED BY <1>1, <1>2, <1>3, Retreat DEF Claiming, IInv, TypeOK

LEMMA LockStep ==
  ASSUME ResetConstants, IInv, NEW h \in Handler, Lock(h)
  PROVE IInv'
  <1>1. /\ pc[h] = "lock" /\ lock[req[h].sub] = None /\ lock' = [lock EXCEPT ![req[h].sub] = h]
        /\ pc' = [pc EXCEPT ![h] = "read"]
        /\ UNCHANGED <<ops, old, spent, remembered, late, req, found, answer>>
    BY DEF Lock, Goto, upstream
  <1>2. req[h].sub \in Subscription
    BY <1>1, Asked DEF IInv
  <1>3. ASSUME NEW g \in Handler, Inside(g)' PROVE lock'[req'[g].sub] = g
    <2>1. CASE g = h
      BY <1>1, <1>2, <2>1 DEF IInv, TypeOK
    <2>2. CASE g # h
      <3>1. Inside(g)
        BY <1>1, <1>3, <2>2 DEF IInv, TypeOK, Inside
      <3> QED BY <1>1, <1>2, <2>2, <3>1 DEF IInv, TypeOK, ResetConstants
    <2> QED BY <2>1, <2>2
  <1>4. TypeOK'
    BY <1>1, <1>2, <1>3 DEF IInv, TypeOK
  <1> QED BY <1>1, <1>4, Retreat DEF Claiming, IInv, TypeOK

LEMMA EndStep ==
  ASSUME ResetConstants, IInv, NEW h \in Handler, GiveUp(h) \/ FinishFails(h)
  PROVE IInv'
  <1>1. Inside(h) /\ End(h) /\ UNCHANGED <<ops, old, spent, remembered, late>>
    BY DEF GiveUp, FinishFails, Inside, upstream
  <1>2. TypeOK'
    BY <1>1, EndTypes DEF IInv, TypeOK
  <1>3. \A g \in Handler : Claiming(g)' =>
          pc'[g] = pc[g] /\ req'[g] = req[g] /\ found'[g] = found[g] /\ answer'[g] = answer[g]
    BY <1>1 DEF End, Goto, Claiming, IInv, TypeOK
  <1> QED BY <1>1, <1>2, <1>3, Retreat

LEMMA AskStep ==
  ASSUME ResetConstants, IInv, NEW h \in Handler, Ask(h)
  PROVE IInv'
  <1>1. /\ pc[h] = "read" /\ pc' = [pc EXCEPT ![h] = "status"]
        /\ UNCHANGED <<ops, old, spent, remembered, late, lock, req, found, answer>>
    BY DEF Ask, Goto, upstream
  <1>2. TypeOK'
    BY <1>1 DEF IInv, TypeOK, Inside
  <1> QED BY <1>1, <1>2, Retreat DEF Claiming, IInv, TypeOK

\* A step of one handler that leaves the tables and every claim but its own alone.
LEMMA RetryStep ==
  ASSUME ResetConstants, IInv, NEW h \in Handler, Retry(h)
  PROVE IInv'
  <1>1. /\ pc[h] = "read" /\ OnRecord(h) /\ req[h].op \notin old
        /\ pc' = [pc EXCEPT ![h] = "post"] /\ found' = [found EXCEPT ![h] = TRUE]
        /\ UNCHANGED <<ops, old, spent, remembered, late, lock, req, answer>>
    BY DEF Retry, Goto, upstream
  <1>2. TypeOK'
    BY <1>1 DEF IInv, TypeOK, Inside
  <1>3. ops[req[h].op] # None /\ Unresolved(req[h].op) /\ req[h].op \in Operation
    BY <1>1, Asked DEF OnRecord, Unresolved, IInv
  <1>4. \A r \in Operation : MayClaim(r)' => MayClaim(r) \/ r = req[h].op
    BY <1>1 DEF MayClaim, IInv, TypeOK
  <1>5. OfRecord'
    BY <1>1, <1>3 DEF IInv, OfRecord, Claiming, OnRecord, TypeOK
  <1>6. Memory'
    BY <1>1, <1>3, <1>4 DEF IInv, Memory
  <1>7. FirstClaim' /\ Told'
    BY <1>1 DEF IInv, FirstClaim, Told, TypeOK
  <1>8. Closed' /\ Open'
    BY <1>1, <1>3, <1>4 DEF IInv, Closed, Open, Unresolved
  <1> QED BY <1>2, <1>5, <1>6, <1>7, <1>8 DEF IInv

LEMMA BeginStep ==
  ASSUME ResetConstants, IInv, NEW h \in Handler, BeginUsageReset(h)
  PROVE IInv'
  <1> DEFINE op == req[h].op
             row == [sub |-> req[h].sub, card |-> req[h].card, state |-> "pending", result |-> ""]
  <1>1. /\ pc[h] = "status" /\ ops[op] = None /\ ops' = [ops EXCEPT ![op] = row]
        /\ \A r \in Operation : Unresolved(r) => ops[r].sub # req[h].sub
        /\ pc' = [pc EXCEPT ![h] = "post"]
        /\ UNCHANGED <<old, spent, remembered, late, lock, req, found, answer>>
    BY DEF BeginUsageReset, Goto, upstream
  <1>2. op \in Operation /\ row \in Record /\ row # None
    <2>1. op \in Operation /\ req[h].sub \in Subscription /\ req[h].card \in Card
      BY <1>1, Asked DEF IInv
    <2>2. row \in Record
      BY <2>1 DEF Record
    <2> QED BY <2>1, <2>2 DEF ResetConstants
  <1> row.sub = req[h].sub /\ row.state = "pending"
    OBVIOUS
  <1> HIDE DEF row
  <1>3. ops'[op] = row /\ \A r \in Operation : r # op => ops'[r] = ops[r]
    BY <1>1, <1>2 DEF IInv, TypeOK
  <1>4. TypeOK'
    BY <1>1, <1>2 DEF IInv, TypeOK, Inside
  <1>5. \A r \in Operation : MayClaim(r)' => MayClaim(r) \/ r = op
    BY <1>1 DEF MayClaim, IInv, TypeOK
  <1>6. spent[op] = 0 /\ ~MayClaim(op)
    BY <1>1, <1>2 DEF IInv, Memory
  <1>7. OfRecord'
    <2> SUFFICES ASSUME NEW g \in Handler, Claiming(g)'
                 PROVE ops'[req[g].op] # None /\ ops'[req[g].op].sub = req[g].sub
      BY <1>1 DEF OfRecord
    <2>1. CASE g = h
      BY <1>2, <1>3, <2>1
    <2>2. CASE g # h
      <3>1. Claiming(g) /\ pc[g] # "idle"
        BY <1>1, <2>2 DEF IInv, TypeOK, Claiming
      <3>2. ops[req[g].op] # None /\ ops[req[g].op].sub = req[g].sub /\ req[g].op \in Operation
        BY <3>1, Asked DEF IInv, OfRecord
      <3> QED BY <1>1, <1>3, <3>2
    <2> QED BY <2>1, <2>2
  <1>8. Memory'
    BY <1>1, <1>2, <1>3, <1>5, <1>6 DEF IInv, Memory
  <1>9. FirstClaim' /\ Told'
    BY <1>1, <1>6 DEF IInv, FirstClaim, Told, TypeOK, MayClaim
  <1>10. Closed'
    BY <1>1, <1>3, <1>5 DEF IInv, Closed
  <1>11. Open'
    <2>1. \A r \in Operation : Unresolved(r)' => r = op \/ (Unresolved(r) /\ ops'[r] = ops[r])
      BY <1>3 DEF Unresolved
    <2> QED BY <1>1, <1>3, <2>1 DEF IInv, Open
  <1> QED BY <1>4, <1>7, <1>8, <1>9, <1>10, <1>11 DEF IInv

\* A claim goes upstream, or an answer comes back: the handler moves on among its
\* claiming states, and the tables are as they were.
LEMMA PostStep ==
  ASSUME ResetConstants, IInv, NEW h \in Handler, Post(h)
  PROVE IInv'
  <1>1. /\ pc[h] = "post" /\ pc' = [pc EXCEPT ![h] = "sent"]
        /\ UNCHANGED <<ops, old, spent, remembered, late, lock, req, found, answer>>
    BY DEF Post, Goto, upstream
  <1>2. TypeOK'
    BY <1>1 DEF IInv, TypeOK, Inside
  <1>3. \A r \in Operation : MayClaim(r)' => MayClaim(r)
    BY <1>1 DEF MayClaim, IInv, TypeOK
  <1>4. OfRecord'
    BY <1>1 DEF IInv, OfRecord, Claiming, TypeOK
  <1>5. Memory'
    BY <1>1, <1>3 DEF IInv, Memory
  <1>6. FirstClaim' /\ Told'
    BY <1>1 DEF IInv, FirstClaim, Told, TypeOK
  <1>7. Closed' /\ Open'
    BY <1>1, <1>3 DEF IInv, Closed, Open, Unresolved
  <1> QED BY <1>2, <1>4, <1>5, <1>6, <1>7 DEF IInv

LEMMA AnsweredTypes ==
  ASSUME ResetConstants, IInv, NEW h \in Handler, NEW result \in Answers, Answered(h, result),
         spent' \in [Operation -> Nat], remembered' \subseteq Operation, late' \subseteq Operation
  PROVE /\ TypeOK' /\ OfRecord' /\ Open'
        /\ pc[h] = "sent" /\ pc'[h] = "answered" /\ answer'[h] = result
        /\ \A g \in Handler : g # h => pc'[g] = pc[g] /\ answer'[g] = answer[g]
        /\ UNCHANGED <<ops, old, req, found>> /\ req[h].op \in Operation
  <1>1. /\ pc[h] = "sent" /\ pc' = [pc EXCEPT ![h] = "answered"]
        /\ answer' = [answer EXCEPT ![h] = result] /\ UNCHANGED <<ops, old, lock, req, found>>
    BY DEF Answered, Goto
  <1>2. TypeOK'
    BY <1>1 DEF IInv, TypeOK, Inside, ResetConstants
  <1>3. OfRecord'
    BY <1>1 DEF IInv, OfRecord, Claiming, TypeOK
  <1>4. Open'
    BY <1>1 DEF IInv, Open, Unresolved
  <1> QED BY <1>1, <1>2, <1>3, <1>4, Asked DEF IInv, TypeOK

LEMMA ClaimedStep ==
  ASSUME ResetConstants, IInv, NEW h \in Handler, Claimed(h)
  PROVE IInv'
  <1> DEFINE op == req[h].op
  <1>1. PICK result \in {"reset", "error"} : Answered(h, result)
    BY DEF Claimed
  <1>2. /\ op \notin remembered /\ spent' = [spent EXCEPT ![op] = @ + 1]
        /\ remembered' = remembered \cup {op} /\ late' = late
    BY DEF Claimed, Spend
  <1>3. op \in Operation /\ pc[h] = "sent"
    BY <1>1, Asked DEF IInv, Answered
  <1>4. /\ spent' \in [Operation -> Nat] /\ remembered' \subseteq Operation
        /\ late' \subseteq Operation /\ result \in Answers
    BY <1>2, <1>3 DEF IInv, TypeOK, Answers, Settling
  <1>5. /\ TypeOK' /\ OfRecord' /\ Open'
        /\ pc'[h] = "answered" /\ answer'[h] = result
        /\ \A g \in Handler : g # h => pc'[g] = pc[g] /\ answer'[g] = answer[g]
        /\ UNCHANGED <<ops, old, req, found>>
    BY <1>1, <1>4, AnsweredTypes
  <1>6. MayClaim(op) /\ spent[op] = 0
    BY <1>2, <1>3 DEF MayClaim, IInv, Memory
  <1>7. spent'[op] = 1 /\ \A r \in Operation : r # op => spent'[r] = spent[r]
    BY <1>2, <1>3, <1>6 DEF IInv, TypeOK
  <1>8. \A r \in Operation : MayClaim(r)' => MayClaim(r)
    BY <1>2, <1>5 DEF MayClaim
  <1>9. Memory'
    BY <1>2, <1>3, <1>5, <1>6, <1>7, <1>8 DEF IInv, Memory
  <1>10. \A g \in Handler : g # h /\ Claiming(g) => req[g].op # op /\ req[g].op \in Operation
    BY <1>3, OneClaimant, Asked DEF Claiming, IInv
  <1>11. FirstClaim' /\ Told'
    BY <1>1, <1>2, <1>5, <1>7, <1>10 DEF IInv, FirstClaim, Told, Claiming
  <1>12. Closed'
    BY <1>5, <1>6, <1>7, <1>8 DEF IInv, Closed, Settling
  <1> QED BY <1>5, <1>9, <1>11, <1>12 DEF IInv

LEMMA ToldStep ==
  ASSUME ResetConstants, IInv, NEW h \in Handler,
         ClaimRepeated(h) \/ ClaimRefused(h) \/ ClaimTimesOut(h)
  PROVE IInv'
  <1> DEFINE op == req[h].op
  <1>1. PICK result \in {"already_used", "refused", "error"} :
          /\ Answered(h, result)
          /\ UNCHANGED <<spent, remembered>>
          /\ late' = late \/ (late' = late \cup {op} /\ result = "error")
          /\ result = "already_used" => op \in remembered
    BY DEF ClaimRepeated, ClaimRefused, ClaimTimesOut, upstream
  <1>2. op \in Operation /\ pc[h] = "sent" /\ result \in Answers
    BY <1>1, Asked DEF IInv, Answered, Answers, Settling
  <1>3. /\ TypeOK' /\ OfRecord' /\ Open'
        /\ pc'[h] = "answered" /\ answer'[h] = result
        /\ \A g \in Handler : g # h => pc'[g] = pc[g] /\ answer'[g] = answer[g]
        /\ UNCHANGED <<ops, old, req, found>>
    BY <1>1, <1>2, AnsweredTypes DEF IInv, TypeOK
  <1>4. MayClaim(op) /\ \A r \in Operation : MayClaim(r)' => MayClaim(r)
    BY <1>1, <1>2, <1>3 DEF MayClaim
  <1>5. Memory'
    BY <1>1, <1>3, <1>4 DEF IInv, Memory
  <1>6. \A g \in Handler : g # h /\ Claiming(g) => req[g].op # op
    BY <1>2, OneClaimant DEF Claiming
  <1>7. FirstClaim'
    BY <1>1, <1>2, <1>3, <1>6 DEF IInv, FirstClaim, Claiming
  <1>8. Told'
    BY <1>1, <1>2, <1>3 DEF IInv, Told, Memory, Settling
  <1>9. Closed'
    BY <1>1, <1>3, <1>4 DEF IInv, Closed
  <1> QED BY <1>3, <1>5, <1>7, <1>8, <1>9 DEF IInv

\* What becomes of an open operation's row.
LEMMA SettleRow ==
  ASSUME ResetConstants, IInv, NEW r \in Operation, Unresolved(r),
         NEW state \in {"unknown", "settled"},
         NEW result \in Answers \cup {"", "manually_resolved"}, Settle(r, state, result)
  PROVE /\ ops' \in [Operation -> Record \cup {None}] /\ ops'[r] # None
        /\ ops'[r].sub = ops[r].sub /\ ops'[r].state = state /\ ops'[r].result = result
        /\ \A q \in Operation : q # r => ops'[q] = ops[q]
  <1>1. ops[r] \in Record
    BY DEF Unresolved, IInv, TypeOK
  <1>2. ops'[r] = [ops[r] EXCEPT !.state = state, !.result = result]
    BY DEF Settle, IInv, TypeOK
  <1>3. ops'[r] \in Record /\ ops'[r].sub = ops[r].sub /\ ops'[r].state = state
        /\ ops'[r].result = result
    BY <1>1, <1>2 DEF Record
  <1>4. \A q \in Operation : q # r => ops'[q] = ops[q]
    BY DEF Settle, IInv, TypeOK
  <1>5. ops' \in [Operation -> Record \cup {None}]
    BY <1>3 DEF Settle, IInv, TypeOK
  <1> QED BY <1>3, <1>4, <1>5 DEF ResetConstants

\* A handler that writes an outcome and returns.
LEMMA OutcomeStep ==
  ASSUME ResetConstants, IInv, NEW h \in Handler, Inside(h), End(h),
         UNCHANGED <<old, spent, remembered, late>>,
         NEW state \in {"unknown", "settled"},
         NEW result \in Answers \cup {"", "manually_resolved"},
         Unresolved(req[h].op), Settle(req[h].op, state, result),
         state = "settled" =>
           /\ result \in {"refused", "manually_resolved"} \cup Settling
           /\ result = "refused" => spent[req[h].op] = 0 /\ req[h].op \notin late /\ Claiming(h)
           /\ result \in Settling => spent[req[h].op] = 1
  PROVE IInv'
  <1> DEFINE op == req[h].op
  <1>1. op \in Operation
    BY Asked DEF IInv, Inside
  <1>2. /\ ops' \in [Operation -> Record \cup {None}] /\ ops'[op] # None
        /\ ops'[op].sub = ops[op].sub /\ ops'[op].state = state /\ ops'[op].result = result
        /\ \A q \in Operation : q # op => ops'[q] = ops[q]
    BY <1>1, SettleRow
  <1>3. TypeOK'
    BY <1>2, EndTypes DEF IInv
  <1>4. ASSUME NEW g \in Handler, Claiming(g)'
        PROVE /\ g # h /\ pc'[g] = pc[g] /\ req'[g] = req[g] /\ found'[g] = found[g]
              /\ answer'[g] = answer[g] /\ Claiming(g) /\ req[g].op \in Operation
    <2>1. g # h /\ pc'[g] = pc[g] /\ req'[g] = req[g] /\ found'[g] = found[g]
          /\ answer'[g] = answer[g]
      BY <1>4 DEF End, Goto, Claiming, IInv, TypeOK
    <2>2. Claiming(g) /\ pc[g] # "idle"
      BY <1>4, <2>1 DEF Claiming
    <2> QED BY <2>1, <2>2, Asked DEF IInv
  <1>5. \A r \in Operation : MayClaim(r)' => MayClaim(r)
    BY <1>4 DEF MayClaim, Claiming
  <1>6. OfRecord'
    <2> SUFFICES ASSUME NEW g \in Handler, Claiming(g)'
                 PROVE ops'[req'[g].op] # None /\ ops'[req'[g].op].sub = req'[g].sub
      BY DEF OfRecord
    <2>1. /\ req'[g] = req[g] /\ req[g].op \in Operation
          /\ ops[req[g].op] # None /\ ops[req[g].op].sub = req[g].sub
      BY <1>4 DEF IInv, OfRecord
    <2> QED BY <1>2, <2>1
  <1>7. Memory'
    BY <1>2, <1>5 DEF IInv, Memory
  <1>8. FirstClaim' /\ Told'
    <2>1. ASSUME NEW g \in Handler, pc'[g] \in {"post", "sent", "answered"}
          PROVE pc'[g] = pc[g] /\ req'[g] = req[g] /\ found'[g] = found[g] /\ answer'[g] = answer[g]
      BY <1>4, <2>1 DEF Claiming
    <2>2. ASSUME NEW g \in Handler, ~found'[g], pc'[g] \in {"post", "sent"}
          PROVE spent'[req'[g].op] = 0 /\ req'[g].op \notin late'
      <3>1. pc[g] \in {"post", "sent"} /\ ~found[g] /\ req'[g] = req[g]
        BY <2>1, <2>2
      <3>2. spent[req[g].op] = 0 /\ req[g].op \notin late
        BY <3>1 DEF IInv, FirstClaim
      <3> QED BY <3>1, <3>2
    <2>3. ASSUME NEW g \in Handler, ~found'[g], pc'[g] = "answered", answer'[g] = "refused"
          PROVE spent'[req'[g].op] = 0 /\ req'[g].op \notin late'
      <3>1. pc[g] = "answered" /\ answer[g] = "refused" /\ ~found[g] /\ req'[g] = req[g]
        BY <2>1, <2>3
      <3>2. spent[req[g].op] = 0 /\ req[g].op \notin late
        BY <3>1 DEF IInv, FirstClaim
      <3> QED BY <3>1, <3>2
    <2>4. ASSUME NEW g \in Handler, pc'[g] = "answered", answer'[g] \in Settling
          PROVE spent'[req'[g].op] = 1
      <3>1. pc[g] = "answered" /\ answer[g] \in Settling /\ req'[g] = req[g]
        BY <2>1, <2>4
      <3>2. spent[req[g].op] = 1
        BY <3>1 DEF IInv, Told
      <3> QED BY <3>1, <3>2
    <2>5. FirstClaim'
      BY <2>2, <2>3 DEF FirstClaim
    <2>6. Told'
      BY <2>4 DEF Told
    <2> QED BY <2>5, <2>6
  <1>9. ASSUME NEW r \in Operation, r = op, result = "refused", state = "settled"
        PROVE ~MayClaim(r)'
    <2>1. ASSUME NEW g \in Handler, pc'[g] \in {"post", "sent"}, req'[g].op = r
          PROVE FALSE
      <3>1. g # h /\ Claiming(g) /\ req[g].op = op
        BY <1>4, <1>9, <2>1 DEF Claiming
      <3> QED BY <3>1, <1>9, OneClaimant
    <2>2. r \notin late'
      BY <1>9
    <2> QED BY <2>1, <2>2 DEF MayClaim
  <1>10. Closed'
    <2> SUFFICES ASSUME NEW r \in Operation, ops'[r] # None, ops'[r].state = "settled"
                 PROVE /\ ops'[r].result \in {"refused", "manually_resolved"} \cup Settling
                       /\ ops'[r].result = "refused" => spent'[r] = 0 /\ ~MayClaim(r)'
                       /\ ops'[r].result \in Settling => spent'[r] = 1
      BY DEF Closed
    <2>1. CASE r = op
      BY <1>2, <1>9, <2>1
    <2>2. CASE r # op
      BY <1>2, <1>5, <2>2 DEF IInv, Closed
    <2> QED BY <2>1, <2>2
  <1>11. Open'
    <2>1. \A r \in Operation : Unresolved(r)' => Unresolved(r) /\ ops'[r].sub = ops[r].sub
      BY <1>1, <1>2 DEF Unresolved
    <2> QED BY <2>1 DEF IInv, Open
  <1> QED BY <1>3, <1>6, <1>7, <1>8, <1>10, <1>11 DEF IInv

LEMMA ResolveStep ==
  ASSUME ResetConstants, IInv, NEW h \in Handler, ResolveOnly(h)
  PROVE IInv'
  <1>1. /\ Inside(h) /\ End(h) /\ Unresolved(req[h].op)
        /\ Settle(req[h].op, "settled", "manually_resolved")
        /\ UNCHANGED <<old, spent, remembered, late>>
    BY DEF ResolveOnly, OnRecord, Inside, upstream
  <1>2. "manually_resolved" \notin Settling
    BY DEF Settling
  <1> QED BY <1>1, <1>2, OutcomeStep

LEMMA FinishStep ==
  ASSUME ResetConstants, IInv, NEW h \in Handler, FinishUsageReset(h)
  PROVE IInv'
  <1>1. /\ pc[h] = "answered" /\ Inside(h) /\ Claiming(h) /\ End(h) /\ answer[h] \in Answers
        /\ UNCHANGED <<old, spent, remembered, late>>
    BY DEF FinishUsageReset, Inside, Claiming, upstream, IInv, TypeOK
  <1>2. CASE UNCHANGED ops
    <2>1. TypeOK'
      BY <1>1, <1>2, EndTypes DEF IInv, TypeOK
    <2>2. \A g \in Handler : Claiming(g)' =>
            pc'[g] = pc[g] /\ req'[g] = req[g] /\ found'[g] = found[g] /\ answer'[g] = answer[g]
      BY <1>1 DEF End, Goto, Claiming, IInv, TypeOK
    <2> QED BY <1>1, <1>2, <2>1, <2>2, Retreat
  <1>3. CASE /\ Unresolved(req[h].op)
             /\ Settle(req[h].op, Outcome(h), IF answer[h] = "error" THEN "" ELSE answer[h])
    <2> DEFINE result == IF answer[h] = "error" THEN "" ELSE answer[h]
    <2>1. Outcome(h) \in {"unknown", "settled"} /\ result \in Answers \cup {"", "manually_resolved"}
      BY <1>1 DEF Outcome
    <2>2. Outcome(h) = "settled" =>
            /\ result \in {"refused", "manually_resolved"} \cup Settling
            /\ result = "refused" => spent[req[h].op] = 0 /\ req[h].op \notin late
            /\ result \in Settling => spent[req[h].op] = 1
      BY <1>1 DEF Outcome, Answers, Settling, IInv, FirstClaim, Told
    <2> HIDE DEF result
    <2>3. Settle(req[h].op, Outcome(h), result)
      BY <1>3 DEF result
    <2> QED BY <1>1, <1>3, <2>1, <2>2, <2>3, OutcomeStep
  <1> QED BY <1>2, <1>3 DEF FinishUsageReset

LEMMA LateStep ==
  ASSUME ResetConstants, IInv, NEW r \in Operation, LateClaim(r)
  PROVE IInv'
  <1>1. /\ r \in late /\ late' \in {late, late \ {r}}
        /\ UNCHANGED <<ops, old, lock, pc, req, found, answer>>
        /\ Spend(r) \/ UNCHANGED <<spent, remembered>>
    BY DEF LateClaim, handlers
  <1>2. MayClaim(r) /\ \A q \in Operation : MayClaim(q)' => MayClaim(q)
    BY <1>1 DEF MayClaim
  <1>3. /\ \A q \in Operation : q # r => spent'[q] = spent[q]
        /\ spent'[r] = spent[r] \/ (spent[r] = 0 /\ spent'[r] = 1)
        /\ spent' \in [Operation -> Nat]
        /\ remembered' \in {remembered, remembered \cup {r}}
        /\ r \in remembered' /\ r \notin remembered => spent'[r] = 1
        /\ spent'[r] = 1 => r \in remembered'
    BY <1>1, <1>2 DEF Spend, IInv, TypeOK, Memory
  <1>4. TypeOK'
    BY <1>1, <1>3 DEF IInv, TypeOK, Inside
  <1>5. Memory'
    BY <1>1, <1>2, <1>3 DEF IInv, Memory
  <1>6. OfRecord' /\ Open'
    BY <1>1 DEF IInv, OfRecord, Open, Unresolved, Claiming
  <1>7. \A h \in Handler : Claiming(h) => req[h].op \in Operation
    BY Asked DEF Claiming, IInv
  <1>8. FirstClaim' /\ Told'
    BY <1>1, <1>3, <1>7 DEF IInv, FirstClaim, Told, Claiming
  <1>9. Closed'
    BY <1>1, <1>2, <1>3 DEF IInv, Closed
  <1> QED BY <1>4, <1>5, <1>6, <1>8, <1>9 DEF IInv

LEMMA AgeStep ==
  ASSUME ResetConstants, IInv, NEW r \in Operation, Age(r) \/ ForgetId(r)
  PROVE IInv'
  <1>1. /\ UNCHANGED <<ops, spent, late, lock, pc, req, found, answer>>
        /\ old' \in {old, old \cup {r}}
        /\ \/ remembered' = remembered
           \/ /\ remembered' = remembered \ {r} /\ r \in old /\ ~MayClaim(r)
    BY DEF Age, ForgetId, upstream, handlers, InFlight, Posting, MayClaim
  <1>2. \A q \in Operation : MayClaim(q)' = MayClaim(q)
    BY <1>1 DEF MayClaim
  <1>3. TypeOK'
    BY <1>1 DEF IInv, TypeOK, Inside
  <1>4. Memory'
    BY <1>1, <1>2 DEF IInv, Memory
  <1>5. Closed'
    BY <1>1, <1>2 DEF IInv, Closed
  <1> QED BY <1>1, <1>3, <1>4, <1>5
          DEF IInv, OfRecord, FirstClaim, Told, Open, Unresolved, Claiming

LEMMA CrashStep == ASSUME ResetConstants, IInv, Crash PROVE IInv'
  <1>1. /\ late' = late \cup {r \in Operation : \E h \in Handler : Posting(h, r)}
        /\ \A h \in Handler : pc'[h] = "idle"
        /\ UNCHANGED <<ops, old, spent, remembered>>
    BY DEF Crash
  <1>2. \A r \in Operation : MayClaim(r)' => MayClaim(r)
    BY <1>1 DEF MayClaim, Posting
  <1>3. TypeOK'
    BY DEF Crash, IInv, TypeOK, Inside
  <1>4. Memory'
    BY <1>1, <1>2 DEF IInv, Memory
  <1>5. Closed' /\ Open'
    BY <1>1, <1>2 DEF IInv, Closed, Open, Unresolved
  <1> QED BY <1>1, <1>3, <1>4, <1>5 DEF IInv, OfRecord, FirstClaim, Told, Claiming

LEMMA NextInv == ASSUME ResetConstants, IInv, [Next]_vars PROVE IInv'
  <1>1. CASE UNCHANGED vars
    <2>1. UNCHANGED <<ops, old, spent, remembered, late, lock, pc, req, found, answer>>
      BY <1>1 DEF vars, upstream, handlers
    <2>2. TypeOK'
      BY <2>1 DEF IInv, TypeOK, Inside
    <2> QED BY <2>1, <2>2, Retreat
  <1> QED BY <1>1, EnterStep, LockStep, EndStep, ResolveStep, RetryStep, AskStep, BeginStep,
             PostStep, ClaimedStep, ToldStep, FinishStep, LateStep, AgeStep, CrashStep
          DEF Next, Handle

LEMMA Reachable == ASSUME ResetConstants PROVE Spec => []IInv
  <1>1. Init => IInv
    BY InitInv
  <1>2. IInv /\ [Next]_vars => IInv'
    BY NextInv
  <1> QED BY <1>1, <1>2, PTL DEF Spec
-----------------------------------------------------------------------------
LEMMA SpentFollows == ASSUME IInv PROVE SpentOnce
  BY DEF IInv, Memory, MayClaim, SpentOnce, InFlight, Posting

LEMMA SettledFollows == ASSUME IInv PROVE SettledIsTrue
  BY DEF IInv, Closed, MayClaim, SettledIsTrue, InFlight, Posting

LEMMA OneFollows == ASSUME ResetConstants, IInv PROVE OneAtATime
  <1>1. ASSUME NEW r \in Operation, MaySpend(r), ~Unresolved(r)
        PROVE ops[r].result = "manually_resolved"
    <2>1. MayClaim(r) /\ r \notin remembered
      BY <1>1 DEF MaySpend, InFlight, Posting, MayClaim
    <2>2. ops[r] # None /\ spent[r] = 0
      BY <1>1, <2>1 DEF IInv, Memory
    <2>3. ops[r].state = "settled"
      BY <1>1, <2>2 DEF IInv, TypeOK, Record, Unresolved
    <2> QED BY <1>1, <2>1, <2>2, <2>3 DEF IInv, Closed
  <1> QED BY <1>1 DEF IInv, Open, OneAtATime

(* However claims time out, arrive late, are repeated or cut off by a      *)
(* crash, no operation spends two cards, and none spends one without being *)
(* on record (usage_reset.go: useUsageReset).                              *)
THEOREM CardsAreSpentOnce == ASSUME ResetConstants PROVE Spec => []SpentOnce
  BY Reachable, SpentFollows, PTL

(* A refused operation has spent nothing and never will, one settled as    *)
(* reset or already used has spent its card: the first claim is alone, and *)
(* a refusal of a later one settles nothing (usage_reset.go:153).          *)
THEOREM SettledOutcomesAreTrue == ASSUME ResetConstants PROVE Spec => []SettledIsTrue
  BY Reachable, SettledFollows, PTL

(* Of two operations of a subscription that may both spend one was         *)
(* resolved by hand (store/usage_reset.go: BeginUsageReset).               *)
THEOREM OperationsDoNotOverlap == ASSUME ResetConstants PROVE Spec => []OneAtATime
  BY Reachable, OneFollows, PTL
=============================================================================
