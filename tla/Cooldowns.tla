----------------------------- MODULE Cooldowns -----------------------------
(***************************************************************************)
(* Cooldowns of one subscription account: account_cooldowns.               *)
(*                                                                         *)
(* A row excludes the account for one model, or for all of them, until a   *)
(* time.  Each forward call classifies its upstream answer at the moment   *)
(* it arrives (cooldownDecisionForResponse, recoverCooldownsFromSuccess)   *)
(* and writes the result to SQLite afterwards, so the writes of concurrent *)
(* calls reach the row in any order.  Rows of different accounts never     *)
(* meet in a statement; one account is all there is here.                  *)
(***************************************************************************)
EXTENDS Integers

CONSTANTS
  Response,    \* concurrent calls of forward
  Model,       \* models the calls ask for
  All,         \* the empty model of an account-wide row
  Second,      \* instants of the observation clock in a second of until_at
  Resets,      \* reset times, in seconds, the headers may carry; 0: none
  Delays,      \* values of Retry-After in seconds; 0: none
  MaxAge,      \* how far ahead a window's reset may lie, in seconds
  Allowances,  \* sets of windows a success may report allowed
  ShortDelay,  \* ambiguous429Cooldown in seconds
  AuthDelay,   \* the minute after a failed token refresh, in seconds
  MaxTime      \* bound of the clock

Window == {"5h", "7d", "7d_oi"}
AccountWindow == {"5h", "7d"}
Reason == Window \cup {"retry_after", "ambiguous", "oauth_refresh_failed", "too_many_requests"}
Scope == Model \cup {All}

ASSUME CooldownConstants ==
  /\ All \notin Model
  /\ Second \in Nat \ {0} /\ MaxTime \in Nat
  /\ Resets \subseteq Nat /\ Delays \subseteq Nat
  /\ MaxAge \in [Window -> Nat]
  /\ Allowances \subseteq SUBSET {"5h", "7d", "7d_oi"}
  /\ ShortDelay \in Nat /\ AuthDelay \in Nat

VARIABLES
  now,      \* the observation clock; until_at keeps whole seconds of it
  rows,     \* account_cooldowns: one row at most for a scope
  exists,   \* the account's own row, which the cooldowns refer to
  work,     \* what each call has classified and not yet written
  longest,  \* observation only: of the decisions merged since their row was last removed,
            \* those that none outlasts
  newer,    \* observation only: the decisions newer than every success written so far
  proven    \* observation only: the latest success written, by scope and reason

vars == <<now, rows, exists, work, longest, newer, proven>>
history == <<longest, newer, proven>>
-----------------------------------------------------------------------------
\* Account-wide rows are for an account window or a failed refresh, and only they.
AccountReason == AccountWindow \cup {"oauth_refresh_failed"}
Row == {r \in [scope : Scope, until : Nat, reason : Reason, seen : Nat] :
          r.scope = All <=> r.reason \in AccountReason}
Match == Scope \X Reason
NoWork == [kind |-> "none"]
Cool(row) == [kind |-> "cool", row |-> row]
Recover(matches, at) == [kind |-> "recover", matches |-> matches, at |-> at]

InSeconds(t) == t \div Second

\* What a 429 says: the windows it reports exhausted, each with its own reset or
\* else the aggregate one, and a Retry-After.
Rejection ==
  UNION {[exhausted : {e}, reset : [e -> Resets], retryAfter : Delays] : e \in SUBSET Window}

Plausible(reset, w) == reset * Second > now /\ reset * Second <= now + MaxAge[w] * Second
Exhausted(x) == {w \in x.exhausted : Plausible(x.reset[w], w)}
LaterWindow(x) ==
  IF "7d" \in Exhausted(x) /\ ("5h" \in Exhausted(x) => x.reset["7d"] > x.reset["5h"])
  THEN "7d" ELSE "5h"

Until(scope, until, reason) == [scope |-> scope, until |-> until, reason |-> reason, seen |-> now]
For(scope, delay, reason) == Until(scope, InSeconds(now + delay * Second), reason)

\* Faulty variants, marked so, are no part of the specification: each is the
\* definition after it as a plausible defect would have it.
\* Faulty: a Retry-After is taken to concern the whole account.
DecideRetryWide(x, m) ==
  CASE Exhausted(x) \cap AccountWindow # {} -> Until(All, x.reset[LaterWindow(x)], LaterWindow(x))
    [] Exhausted(x) = {"7d_oi"} -> Until(m, x.reset["7d_oi"], "7d_oi")
    [] Exhausted(x) = {} -> For(All, x.retryAfter, "retry_after")

\* cooldownDecisionForResponse for a 429.
Decide(x, m) ==
  CASE Exhausted(x) \cap AccountWindow # {} -> Until(All, x.reset[LaterWindow(x)], LaterWindow(x))
    [] Exhausted(x) = {"7d_oi"} -> Until(m, x.reset["7d_oi"], "7d_oi")
    [] Exhausted(x) = {} /\ x.retryAfter # 0 -> For(m, x.retryAfter, "retry_after")
    [] Exhausted(x) = {} /\ x.retryAfter = 0 -> For(m, ShortDelay, "ambiguous")

\* Faulty: the recovery looks for every row under the model.
DisprovedUnderModel(allowed, m) ==
  {m} \X (allowed \cup {"ambiguous", "retry_after", "too_many_requests"})

\* The decisions a success with these allowed windows shows to be stale.
Disproved(allowed, m) ==
  ({m} \X {"ambiguous", "retry_after"})
  \cup ({All} \X (allowed \cap AccountWindow))
  \cup ({m} \X (allowed \ AccountWindow))
  \cup (IF "5h" \in allowed THEN {<<m, "too_many_requests">>} ELSE {})

NotOutlasted(D) == {d \in D : \A e \in D : e.scope = d.scope => e.until <= d.until}
Outlasted(d) == \E r \in rows : r.scope = d.scope /\ r.until > d.until

\* Faulty: the evidence time of every write replaces the row's.
MergeTakingEvidence(d) ==
  IF Outlasted(d) THEN {IF r.scope = d.scope THEN [r EXCEPT !.seen = d.seen] ELSE r : r \in rows}
  ELSE {r \in rows : r.scope # d.scope} \cup {d}

\* The upsert: the later end wins whole, and a tie goes to the write.
Merge(d) == IF Outlasted(d) THEN rows ELSE {r \in rows : r.scope # d.scope} \cup {d}
-----------------------------------------------------------------------------
TypeOK ==
  /\ now \in Nat
  /\ rows \subseteq Row
  /\ exists \in BOOLEAN
  /\ work \in [Response -> {NoWork} \cup [kind : {"cool"}, row : Row]
                           \cup [kind : {"recover"}, matches : SUBSET Match, at : Nat]]
  /\ longest \subseteq Row
  /\ newer \subseteq Row
  /\ proven \in [Match -> Nat \cup {-1}]

\* A database of an earlier build may hold rows of its own for the rejected models.
Init ==
  /\ now = 0
  /\ \E rejected \in SUBSET Model :
       rows = {[scope |-> m, until |-> 1, reason |-> "too_many_requests", seen |-> 0] : m \in rejected}
  /\ exists = TRUE
  /\ work = [c \in Response |-> NoWork]
  /\ longest = rows
  /\ newer = {}
  /\ proven = [p \in Match |-> -1]

Classify(c, result) ==
  /\ work[c] = NoWork
  /\ work' = [work EXCEPT ![c] = result]
  /\ UNCHANGED <<now, rows, exists, history>>

Rejected(c) == \E m \in Model, x \in Rejection : Classify(c, Cool(Decide(x, m)))

\* ensureFresh failed: the account is avoided for a minute whatever the model.
AuthFailed(c) == Classify(c, Cool(For(All, AuthDelay, "oauth_refresh_failed")))

Succeeded(c) ==
  \E m \in Model, allowed \in Allowances : Classify(c, Recover(Disproved(allowed, m), now))

\* A write may fail, and fails when the account is gone; the call only logs it.
GiveUp(c) ==
  /\ work[c] # NoWork
  /\ work' = [work EXCEPT ![c] = NoWork]
  /\ UNCHANGED <<now, rows, exists, history>>

CooldownObservedAt(c) ==
  /\ work[c].kind = "cool" /\ exists
  /\ LET d == work[c].row IN
       /\ rows' = Merge(d)
       /\ longest' = NotOutlasted(longest \cup {d})
       /\ newer' = IF \A p \in Match : proven[p] < d.seen THEN newer \cup {d} ELSE newer
  /\ work' = [work EXCEPT ![c] = NoWork]
  /\ UNCHANGED <<now, exists, proven>>

\* Delete rows, and with each what was merged into it.
Remove(gone) ==
  /\ rows' = rows \ gone
  /\ longest' = {d \in longest : \A r \in gone : d.scope # r.scope}

Matched(w) == {r \in rows : r.seen <= w.at /\ <<r.scope, r.reason>> \in w.matches}

ClearCooldownMatchesObservedBefore(c) ==
  /\ work[c].kind = "recover"
  /\ LET w == work[c] IN
       /\ Remove(Matched(w))
       /\ newer' = {d \in newer : d.seen > w.at}
       /\ proven' = [p \in Match |-> IF p \in w.matches /\ w.at > proven[p] THEN w.at ELSE proven[p]]
  /\ work' = [work EXCEPT ![c] = NoWork]
  /\ UNCHANGED <<now, exists>>
-----------------------------------------------------------------------------
(* The console, the account's life and the clock.                           *)

\* Rows that something else than an answer shows to be over.
Revoke(gone) ==
  /\ Remove(gone)
  /\ newer' = {d \in newer : \A r \in gone : d.scope # r.scope}
  /\ UNCHANGED <<now, work, proven>>

ClearCooldowns == exists /\ Revoke(rows) /\ UNCHANGED exists

\* A redeemed usage reset clears the windows of its grant, whenever they were seen.
FinishUsageReset ==
  /\ exists /\ UNCHANGED exists
  /\ \E clears \in SUBSET Window : Revoke({r \in rows : r.reason \in clears})

\* The cooldowns go with their account; the next import may get its row id.
DeleteAccount == exists /\ Revoke(rows) /\ exists' = FALSE

ImportAccount ==
  /\ ~exists /\ exists' = TRUE
  /\ UNCHANGED <<now, rows, work, history>>

Tick ==
  /\ now < MaxTime
  /\ now' = now + 1
  /\ UNCHANGED <<rows, exists, work, history>>

Answer(c) == Rejected(c) \/ AuthFailed(c) \/ Succeeded(c)
Persist(c) == CooldownObservedAt(c) \/ ClearCooldownMatchesObservedBefore(c) \/ GiveUp(c)
Operate == ClearCooldowns \/ FinishUsageReset \/ DeleteAccount \/ ImportAccount

Next == (\E c \in Response : Answer(c) \/ Persist(c)) \/ Operate \/ Tick
Spec == Init /\ [][Next]_vars
-----------------------------------------------------------------------------
(* Properties.                                                              *)

\* In whatever order the calls write, a row is one decision that was really made
\* about its scope, whole, and since the row appeared no decision about that scope
\* would have lasted longer (store.go: the MAX and the two CASEs of the upsert).
RowIsLongestDecision ==
  /\ rows \subseteq longest
  /\ \A d \in longest : \E r \in rows : r.scope = d.scope
  /\ \A r, s \in rows : r.scope = s.scope => r = s

\* An account comes back without the operator: whatever the classification wrote,
\* each row but the one for a failed refresh has a scope and a reason that some
\* success with all windows allowed removes (cooldown_policy.go).
Recoverable ==
  \A r \in rows : r.reason # "oauth_refresh_failed" =>
    \E m \in Model : <<r.scope, r.reason>> \in Disproved(Window, m)
-----------------------------------------------------------------------------
(* What comments and documents say and the code does not keep.              *)

\* store.go: "This avoids an older in-flight success erasing a later cooling
\* decision."  A decision newer than every success
\* that was written keeps its scope cooling to its end.
NewerDecisionSurvives ==
  \A d \in newer : d.until > InSeconds(now) =>
    \E r \in rows : r.scope = d.scope /\ r.until >= d.until
=============================================================================
