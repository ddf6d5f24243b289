----------------------------- MODULE UsageReset -----------------------------
(***************************************************************************)
(* Spending a usage-limit reset card of a subscription.                    *)
(*                                                                         *)
(* The console starts an operation with an id of its choice.  useUsageReset*)
(* holds a mutex of the subscription, reads the operation, records a new   *)
(* one before it posts the claim and records the outcome after it.  The    *)
(* claim's answer may be lost and the claim still arrive later, the record *)
(* of the outcome may fail, the process may die at any point, and the      *)
(* console retries with the same id or resolves the operation by hand.     *)
(*                                                                         *)
(* Upstream spends once for an id it remembers.  The retry window is taken *)
(* to be shorter than that memory.                                         *)
(***************************************************************************)
EXTENDS Integers

CONSTANTS
  Handler,       \* concurrent calls of useUsageReset
  Operation,     \* request ids
  Subscription,  \* organization and subject of the accounts' profiles
  Card,          \* grant ids
  None           \* no handler, no operation, no answer

Settling == {"reset", "already_used"}
Answers == Settling \cup {"refused", "error"}
Request == [op : Operation, sub : Subscription, card : Card, resolveOnly : BOOLEAN]
Record == [sub : Subscription, card : Card, state : {"pending", "unknown", "settled"},
           result : Answers \cup {"", "manually_resolved"}]

VARIABLES
  ops,         \* usage_reset_operations
  old,         \* operations created resetRetryWindow ago or earlier
  \* upstream
  spent,       \* how often a card was spent for an id
  remembered,  \* ids upstream would answer with already_used
  late,        \* ids of claims nobody waits for any more
  \* relay process
  lock,        \* resetLocks
  pc, req,     \* a handler's progress and what it was asked
  found,       \* the operation was on record when it was read
  answer       \* what claimUsageReset returned

upstream == <<spent, remembered, late>>
handlers == <<pc, req, found, answer>>
vars == <<ops, old, upstream, lock, handlers>>
-----------------------------------------------------------------------------
Inside(h) == pc[h] \in {"read", "status", "post", "sent", "answered"}
Posting(h, r) == pc[h] = "sent" /\ req[h].op = r
InFlight(r) == r \in late \/ \E h \in Handler : Posting(h, r)

\* Faulty variants, marked so, are no part of the specification: each is the
\* definition after it as a plausible defect would have it.
\* Faulty: only the operations that were never answered count.
UnresolvedUnanswered(r) == ops[r] # None /\ ops[r].state = "pending"
Unresolved(r) == ops[r] # None /\ ops[r].state \in {"pending", "unknown"}

TypeOK ==
  /\ ops \in [Operation -> Record \cup {None}]
  /\ old \subseteq Operation
  /\ spent \in [Operation -> Nat]
  /\ remembered \subseteq Operation /\ late \subseteq Operation
  /\ lock \in [Subscription -> Handler \cup {None}]
  /\ pc \in [Handler -> {"idle", "lock", "read", "status", "post", "sent", "answered"}]
  /\ req \in [Handler -> Request \cup {None}]
  /\ found \in [Handler -> BOOLEAN]
  /\ answer \in [Handler -> Answers \cup {None}]
  /\ \A h \in Handler : /\ pc[h] # "idle" => req[h] # None
                        /\ pc[h] = "answered" => answer[h] # None
                        /\ Inside(h) => lock[req[h].sub] = h

Init ==
  /\ ops = [r \in Operation |-> None] /\ old = {}
  /\ spent = [r \in Operation |-> 0] /\ remembered = {} /\ late = {}
  /\ lock = [s \in Subscription |-> None]
  /\ pc = [h \in Handler |-> "idle"] /\ req = [h \in Handler |-> None]
  /\ found = [h \in Handler |-> FALSE] /\ answer = [h \in Handler |-> None]
-----------------------------------------------------------------------------
Goto(h, label) == pc' = [pc EXCEPT ![h] = label]

\* Return with the deferred unlock.
End(h) ==
  /\ Goto(h, "idle")
  /\ req' = [req EXCEPT ![h] = None]
  /\ found' = [found EXCEPT ![h] = FALSE]
  /\ answer' = [answer EXCEPT ![h] = None]
  /\ lock' = [lock EXCEPT ![req[h].sub] = None]

\* A confirmed request whose account and identity are known.
Enter(h) ==
  /\ pc[h] = "idle"
  /\ \E q \in Request : req' = [req EXCEPT ![h] = q]
  /\ Goto(h, "lock")
  /\ UNCHANGED <<ops, old, upstream, lock, found, answer>>

Lock(h) ==
  /\ pc[h] = "lock" /\ lock[req[h].sub] = None
  /\ lock' = [lock EXCEPT ![req[h].sub] = h]
  /\ Goto(h, "read")
  /\ UNCHANGED <<ops, old, upstream, req, found, answer>>

\* A read, an exchange or a write before the claim fails, or one of the answers that
\* need no claim is given: not this card's operation, settled, too old, not there to
\* resolve, no such card, card blocked, another operation unresolved.
GiveUp(h) ==
  /\ pc[h] \in {"read", "status"}
  /\ End(h)
  /\ UNCHANGED <<ops, old, upstream>>

OnRecord(h) ==
  /\ Unresolved(req[h].op)
  /\ ops[req[h].op].sub = req[h].sub /\ ops[req[h].op].card = req[h].card

Settle(r, state, result) ==
  ops' = [ops EXCEPT ![r] = [@ EXCEPT !.state = state, !.result = result]]

\* The console has verified the outcome elsewhere.
ResolveOnly(h) ==
  /\ pc[h] = "read" /\ req[h].resolveOnly /\ OnRecord(h)
  /\ Settle(req[h].op, "settled", "manually_resolved")
  /\ End(h)
  /\ UNCHANGED <<old, upstream>>

\* Faulty: an operation is retried however old it is.
RetryWhenever(h) ==
  /\ pc[h] = "read" /\ ~req[h].resolveOnly /\ OnRecord(h)
  /\ found' = [found EXCEPT ![h] = TRUE]
  /\ Goto(h, "post")
  /\ UNCHANGED <<ops, old, upstream, lock, req, answer>>

Retry(h) ==
  /\ pc[h] = "read" /\ ~req[h].resolveOnly /\ OnRecord(h) /\ req[h].op \notin old
  /\ found' = [found EXCEPT ![h] = TRUE]
  /\ Goto(h, "post")
  /\ UNCHANGED <<ops, old, upstream, lock, req, answer>>

\* The id is new: ask upstream for the cards.
Ask(h) ==
  /\ pc[h] = "read" /\ ~req[h].resolveOnly /\ ops[req[h].op] = None
  /\ Goto(h, "status")
  /\ UNCHANGED <<ops, old, upstream, lock, req, found, answer>>

\* The card may be used; the operation is recorded unless another one of the
\* subscription is unresolved or the id was taken meanwhile.
BeginUsageReset(h) ==
  /\ pc[h] = "status" /\ ops[req[h].op] = None
  /\ \A r \in Operation : Unresolved(r) => ops[r].sub # req[h].sub
  /\ ops' = [ops EXCEPT ![req[h].op] = [sub |-> req[h].sub, card |-> req[h].card,
                                        state |-> "pending", result |-> ""]]
  /\ Goto(h, "post")
  /\ UNCHANGED <<old, upstream, lock, req, found, answer>>
-----------------------------------------------------------------------------
(* The claim.                                                               *)

Post(h) ==
  /\ pc[h] = "post"
  /\ Goto(h, "sent")
  /\ UNCHANGED <<ops, old, upstream, lock, req, found, answer>>

Spend(r) ==
  /\ r \notin remembered
  /\ spent' = [spent EXCEPT ![r] = @ + 1]
  /\ remembered' = remembered \cup {r}

Answered(h, result) ==
  /\ pc[h] = "sent"
  /\ answer' = [answer EXCEPT ![h] = result]
  /\ Goto(h, "answered")
  /\ UNCHANGED <<ops, old, lock, req, found>>

\* The claim arrives; its answer may be lost, or be none the relay understands.
Claimed(h) ==
  /\ \E result \in {"reset", "error"} : Answered(h, result)
  /\ Spend(req[h].op)
  /\ UNCHANGED late

ClaimRepeated(h) ==
  /\ Answered(h, "already_used")
  /\ req[h].op \in remembered
  /\ UNCHANGED upstream

\* auth_error, rate_limited, not_limited, cooldown, ineligible or unavailable, which
\* upstream may also answer to the repeated claim of a spent card; or an error.
ClaimRefused(h) ==
  /\ \E result \in {"refused", "error"} : Answered(h, result)
  /\ UNCHANGED upstream

\* claimCtx ends; the claim may arrive yet.
ClaimTimesOut(h) ==
  /\ Answered(h, "error")
  /\ late' = late \cup {req[h].op}
  /\ UNCHANGED <<spent, remembered>>

\* A claim nobody waits for arrives, perhaps with more of its kind behind it, or not.
LateClaim(r) ==
  /\ r \in late
  /\ late' \in {late, late \ {r}}
  /\ Spend(r) \/ UNCHANGED <<spent, remembered>>
  /\ UNCHANGED <<ops, old, lock, handlers>>

\* Faulty: a refused retry is taken as the outcome of the operation.
OutcomeOfLastClaim(h) == IF answer[h] = "error" THEN "unknown" ELSE "settled"

Outcome(h) ==
  IF answer[h] = "error" \/ (found[h] /\ answer[h] \notin Settling) THEN "unknown" ELSE "settled"

\* The claim's context has no part in this one; only an unresolved operation of the
\* subscription is updated.  The cooldowns it ends are Cooldowns' FinishUsageReset.
FinishUsageReset(h) ==
  /\ pc[h] = "answered"
  /\ IF Unresolved(req[h].op) /\ ops[req[h].op].sub = req[h].sub
     THEN Settle(req[h].op, Outcome(h), IF answer[h] = "error" THEN "" ELSE answer[h])
     ELSE UNCHANGED ops
  /\ End(h)
  /\ UNCHANGED <<old, upstream>>

FinishFails(h) ==
  /\ pc[h] = "answered"
  /\ End(h)
  /\ UNCHANGED <<ops, old, upstream>>
-----------------------------------------------------------------------------
(* A crash, the clock and upstream's memory.                                *)

Crash ==
  /\ late' = late \cup {r \in Operation : \E h \in Handler : Posting(h, r)}
  /\ lock' = [s \in Subscription |-> None]
  /\ pc' = [h \in Handler |-> "idle"] /\ req' = [h \in Handler |-> None]
  /\ found' = [h \in Handler |-> FALSE] /\ answer' = [h \in Handler |-> None]
  /\ UNCHANGED <<ops, old, spent, remembered>>

Age(r) ==
  /\ ops[r] # None
  /\ old' = old \cup {r}
  /\ UNCHANGED <<ops, upstream, lock, handlers>>

\* Upstream forgets an id once the retry window and every claim begun in it are over.
ForgetId(r) ==
  /\ r \in remembered /\ r \in old /\ ~InFlight(r)
  /\ \A h \in Handler : pc[h] = "post" => req[h].op # r
  /\ remembered' = remembered \ {r}
  /\ UNCHANGED <<ops, old, spent, late, lock, handlers>>

Handle(h) ==
  \/ Enter(h) \/ Lock(h) \/ GiveUp(h) \/ ResolveOnly(h) \/ Retry(h) \/ Ask(h)
  \/ BeginUsageReset(h) \/ Post(h) \/ Claimed(h) \/ ClaimRepeated(h) \/ ClaimRefused(h)
  \/ ClaimTimesOut(h) \/ FinishUsageReset(h) \/ FinishFails(h)

Next ==
  \/ \E h \in Handler : Handle(h)
  \/ \E r \in Operation : LateClaim(r) \/ Age(r) \/ ForgetId(r)
  \/ Crash
Spec == Init /\ [][Next]_vars
-----------------------------------------------------------------------------
(* Properties.                                                              *)

\* However claims time out, arrive late, are repeated or cut off by a crash, no
\* operation spends two cards, and none spends a card without being on record
\* (usage_reset.go: recorded before the claim, retried with its id and only within
\* the window).
SpentOnce == \A r \in Operation : spent[r] <= 1 /\ (spent[r] = 1 \/ InFlight(r) => ops[r] # None)

\* What is settled is true: a refused operation has spent nothing and never will,
\* and one that is settled as reset or already used has spent its card
\* (usage_reset.go: a refusal to a retry does not disprove the earlier claim).
SettledIsTrue ==
  \A r \in Operation : ops[r] # None /\ ops[r].state = "settled" =>
    /\ ops[r].result = "refused" => spent[r] = 0 /\ ~InFlight(r)
    /\ ops[r].result \in Settling => spent[r] = 1

\* While the outcome of an operation is open, no other one of its subscription may
\* spend: of two operations with claims under way, or with one under way and the
\* other unresolved, the console has resolved one by hand (store/usage_reset.go).
MaySpend(r) == Unresolved(r) \/ (InFlight(r) /\ r \notin remembered)
OneAtATime ==
  \A r, q \in Operation : r # q /\ MaySpend(r) /\ MaySpend(q) /\ ops[r].sub = ops[q].sub =>
    ops[r].result = "manually_resolved" \/ ops[q].result = "manually_resolved"
=============================================================================
