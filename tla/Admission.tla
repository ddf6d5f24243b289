----------------------------- MODULE Admission -----------------------------
(***************************************************************************)
(* Account selection and local admission of the relay.                     *)
(*                                                                         *)
(* Every relayed call is one goroutine in Server.forward.  It picks a      *)
(* subscription account through accountSelector.selectAccount, holds an    *)
(* in-flight slot of that account in an accountLoadTracker and, for a new  *)
(* explicitly identified session, a provisional slot in the                *)
(* sessionAdmissionTracker, until its response has been copied; one        *)
(* failure may move it to one alternate account.  Both trackers are        *)
(* process-local, guarded by a mutex each, and the accounts, cooldowns     *)
(* and sticky bindings live in SQLite, so every lookup and every lock of a *)
(* selection is a step of its own here and the console may act in between. *)
(***************************************************************************)
EXTENDS Integers, FiniteSets

CONSTANTS
  Request,     \* concurrent calls of forward
  Account,     \* rows of the accounts table
  Session,     \* routing keys of explicit sessions ("session:..." route keys)
  CacheKey,    \* routing keys of declared cache prefixes
  None,        \* no account, no routing key
  Placements,  \* the pool assignments the relay may start with
  Traffic,     \* the routes deriveRequestRoute may return
  MaxActive,   \* max_active_sessions_per_account
  Limits,      \* values the console may give max_inflight_per_account
  CountLimit,  \* max_count_tokens_inflight_per_account
  MaxUrgency,  \* bound of the quota priorities told apart; -1: no readings at all
  Events       \* the operator and clock events this instance lets happen

Key == Session \cup CacheKey
Kind == {"messages", "count"}
AllEvents == {"policy", "limit", "enable", "pool", "delete", "cooldown",
              "window", "idle", "expire", "restart", "storeError"}

RouteType == [key: Key \cup {None}, access: {"compatible", "official"},
              hint: Account \cup {None}, forced: Account \cup {None}, count: BOOLEAN]
NoRoute == [key |-> None, access |-> "compatible", hint |-> None, forced |-> None, count |-> FALSE]

ASSUME AdmissionConstants ==
  /\ IsFiniteSet(Request) /\ IsFiniteSet(Account) /\ IsFiniteSet(Session)
  /\ None \notin Account /\ None \notin Key
  /\ Traffic \subseteq RouteType
  /\ Placements \subseteq [Account -> {"compatible", "official"}]
  /\ MaxActive \in Nat \ {0} /\ CountLimit \in Nat \ {0} /\ MaxUrgency \in Nat \cup {-1}
  /\ Limits \subseteq Nat \ {0} /\ Limits # {}
  /\ Events \subseteq AllEvents

VARIABLES
  \* SQLite: survives a restart
  enabled,     \* accounts.enabled
  pool,        \* accounts.account_pool
  cooling,     \* accounts with a cooldown that applies to the traffic's model
  boundTo,     \* session_bindings: the account of an unexpired binding
  active,      \* bound explicit sessions last successful within five minutes
  limit,       \* accountConcurrencyPolicy.limit, persisted before it is published
  \* process memory
  policy,      \* routingPolicyState
  quota,       \* live five-hour reading: urgency of the unused allowance
  inFlight,    \* accountLoadTracker.inFlight, one tracker for each kind of call
  pendingTo,   \* sessionAdmissionTracker.pending[key].accountID
  refs,        \* sessionAdmissionTracker.pending[key].references
  perAccount,  \* sessionAdmissionTracker.perAccount
  \* one forward call each
  pc, route, excluded, pol, cand, src, lim, elig, localEx, slot, sess,
  outcome,     \* upstream's answer while it is delivered, or the relay's own one
  \* observation only
  peak,        \* the largest in-flight limit ever in force
  resumed,     \* active sessions that were confirmed without a session slot
  moved        \* calls in progress when an account changed its pool

storeVars == <<enabled, pool, cooling, boundTo, active, limit>>
trackerVars == <<inFlight, pendingTo, refs, perAccount>>
pickVars == <<pol, cand, src, lim, elig, localEx>>
callVars == <<route, excluded, pickVars, slot, sess, outcome>>
observed == <<peak, resumed, moved>>
vars == <<storeVars, policy, quota, trackerVars, pc, callVars, observed>>
-----------------------------------------------------------------------------
Unknown == -1     \* no live five-hour reading; 0 stands for an exhausted window

KindOf(q) == IF route[q].count THEN "count" ELSE "messages"
Load(q, a) == inFlight[KindOf(q)][a]
LimitFor(q) == IF route[q].count THEN CountLimit ELSE limit
\* Faulty: a named account fails over like any other.
LastAttemptUnpinned(q) == excluded[q] # {}
LastAttempt(q) == route[q].forced # None \/ excluded[q] # {}

\* The pool fence every account lookup applies.
MayUse(access, p) == access = "official" \/ p = "compatible"
Visible(q, a) == enabled[a] /\ MayUse(route[q].access, pool[a])
\* Faulty: a lookup without the pool fence.
UsableUnfenced(q, a) == enabled[a] /\ a \notin cooling
Usable(q, a) == Visible(q, a) /\ a \notin cooling

ActiveSessions(a) == {k \in active : boundTo[k] = a}

Existing(q) ==
  \/ src[q] = "sticky"
  \/ /\ src[q] \in {"header", "account_uuid"}
     /\ route[q].key # None
     /\ boundTo[route[q].key] = cand[q]
     /\ Visible(q, cand[q])

NeedsSessionSlot(q) == ~route[q].count /\ route[q].key \in Session /\ ~Existing(q)
\* Faulty variants, marked so throughout, are not part of the specification: each is
\* the definition after it as a plausible defect would have it.
\* Faulty: only confirmed sessions are counted.
RoomIgnoringPending(a) == Cardinality(ActiveSessions(a)) < MaxActive
HasSessionRoom(a) == Cardinality(ActiveSessions(a)) + perAccount[a] < MaxActive

TypeOK ==
  /\ enabled \in [Account -> BOOLEAN]
  /\ pool \in [Account -> {"compatible", "official"}]
  /\ cooling \subseteq Account
  /\ boundTo \in [Key -> Account \cup {None}]
  /\ active \subseteq Session
  /\ limit \in Limits /\ peak \in Limits
  /\ policy \in {"legacy", "quota_aware"}
  /\ quota \in [Account -> Unknown .. MaxUrgency]
  /\ inFlight \in [Kind -> [Account -> Nat]]
  /\ pendingTo \in [Session -> Account \cup {None}]
  /\ refs \in [Session -> Nat]
  /\ perAccount \in [Account -> Nat]
  /\ pc \in [Request -> {"idle", "select", "forced", "uuid", "pending", "binding",
                         "accounts", "balance", "quota", "quotaPick", "reserve", "admit",
                         "fresh", "upstream", "failover", "stream", "release"}]
  /\ route \in [Request -> Traffic \cup {NoRoute}]
  /\ excluded \in [Request -> SUBSET Account]
  /\ pol \in [Request -> {"legacy", "quota_aware"}]
  /\ cand \in [Request -> Account \cup {None}]
  /\ src \in [Request -> {"none", "header", "account_uuid", "session_pending", "sticky",
                          "load_balance", "quota_aware"}]
  /\ lim \in [Request -> Nat]
  /\ elig \in [Request -> SUBSET Account]
  /\ localEx \in [Request -> SUBSET Account]
  /\ slot \in [Request -> BOOLEAN]
  /\ sess \in [Request -> BOOLEAN]
  /\ outcome \in [Request -> {"none", "ok", "error", "429", "503"}]
  /\ resumed \subseteq Session
  /\ moved \subseteq Request

InitWith(startPolicy) ==
  /\ enabled = [a \in Account |-> TRUE]
  /\ pool \in Placements
  /\ cooling = {}
  /\ boundTo = [k \in Key |-> None]
  /\ active = {}
  /\ limit \in Limits /\ peak = limit
  /\ policy = startPolicy
  /\ quota = [a \in Account |-> Unknown]
  /\ inFlight = [kind \in Kind |-> [a \in Account |-> 0]]
  /\ pendingTo = [k \in Session |-> None]
  /\ refs = [k \in Session |-> 0]
  /\ perAccount = [a \in Account |-> 0]
  /\ pc = [q \in Request |-> "idle"]
  /\ route = [q \in Request |-> NoRoute]
  /\ excluded = [q \in Request |-> {}]
  /\ pol = [q \in Request |-> "legacy"]
  /\ cand = [q \in Request |-> None]
  /\ src = [q \in Request |-> "none"]
  /\ lim = [q \in Request |-> 0]
  /\ elig = [q \in Request |-> {}]
  /\ localEx = [q \in Request |-> {}]
  /\ slot = [q \in Request |-> FALSE]
  /\ sess = [q \in Request |-> FALSE]
  /\ outcome = [q \in Request |-> "none"]
  /\ resumed = {} /\ moved = {}

\* NewServer starts every process with the quota-aware policy.
Init == InitWith("quota_aware")
-----------------------------------------------------------------------------
(* The trackers' locked operations, and the common ends of a step.         *)

Goto(q, label) == pc' = [pc EXCEPT ![q] = label]

TakeSlot(q, a) ==
  /\ inFlight' = [inFlight EXCEPT ![KindOf(q)][a] = @ + 1]
  /\ slot' = [slot EXCEPT ![q] = TRUE]

\* Faulty: a release deletes the account's entry whatever its count.
DropWholeEntry(q) ==
  /\ inFlight' = IF slot[q] THEN [inFlight EXCEPT ![KindOf(q)][cand[q]] = 0] ELSE inFlight
  /\ slot' = [slot EXCEPT ![q] = FALSE]

\* The once-only release function of a reservation.
DropSlot(q) ==
  /\ inFlight' = IF slot[q]
                 THEN [inFlight EXCEPT ![KindOf(q)][cand[q]] = IF @ <= 1 THEN 0 ELSE @ - 1]
                 ELSE inFlight
  /\ slot' = [slot EXCEPT ![q] = FALSE]

LastReference(q) == sess[q] /\ refs[route[q].key] <= 1

\* Faulty: the release does not check that the call holds a reference.
DropUnheldSession(q) ==
  /\ refs' = IF route[q].key \in Session THEN [refs EXCEPT ![route[q].key] = @ - 1] ELSE refs
  /\ pendingTo' = IF LastReference(q) THEN [pendingTo EXCEPT ![route[q].key] = None] ELSE pendingTo
  /\ perAccount' = perAccount
  /\ sess' = [sess EXCEPT ![q] = FALSE]

DropSession(q) ==
  /\ refs' = IF sess[q] THEN [refs EXCEPT ![route[q].key] = @ - 1] ELSE refs
  /\ pendingTo' = IF LastReference(q) THEN [pendingTo EXCEPT ![route[q].key] = None] ELSE pendingTo
  /\ perAccount' = IF LastReference(q)
                   THEN [perAccount EXCEPT ![pendingTo[route[q].key]] = IF @ <= 1 THEN 0 ELSE @ - 1]
                   ELSE perAccount
  /\ sess' = [sess EXCEPT ![q] = FALSE]

\* Leave the account a failed or refused choice was about.
Forget(q) ==
  /\ cand' = [cand EXCEPT ![q] = None]
  /\ src' = [src EXCEPT ![q] = "none"]
  /\ lim' = [lim EXCEPT ![q] = 0]

ForgetAccounts(q) ==
  /\ elig' = [elig EXCEPT ![q] = {}]
  /\ localEx' = [localEx EXCEPT ![q] = {}]

Finish(q, result) ==
  /\ DropSlot(q) /\ DropSession(q) /\ Forget(q) /\ ForgetAccounts(q)
  /\ Goto(q, "idle")
  /\ outcome' = [outcome EXCEPT ![q] = result]
  /\ route' = [route EXCEPT ![q] = NoRoute]
  /\ excluded' = [excluded EXCEPT ![q] = {}]
  /\ pol' = [pol EXCEPT ![q] = "legacy"]
  /\ moved' = moved \ {q}
  /\ UNCHANGED <<storeVars, policy, quota, peak, resumed>>

Candidate(q, a, source) ==
  /\ cand' = [cand EXCEPT ![q] = a]
  /\ src' = [src EXCEPT ![q] = source]
  /\ lim' = [lim EXCEPT ![q] = LimitFor(q)]
  /\ Goto(q, "reserve")
  /\ UNCHANGED <<storeVars, policy, quota, trackerVars, route, excluded, pol, elig, localEx,
                 slot, sess, outcome, observed>>

Advance(q, label) ==
  /\ Goto(q, label)
  /\ UNCHANGED <<storeVars, policy, quota, trackerVars, callVars, observed>>
-----------------------------------------------------------------------------
(* forward up to the choice of an account: selectAccount.                   *)

Arrive(q) ==
  /\ pc[q] = "idle"
  /\ \E t \in Traffic : route' = [route EXCEPT ![q] = t]
  /\ outcome' = [outcome EXCEPT ![q] = "none"]
  /\ Goto(q, "select")
  /\ UNCHANGED <<storeVars, policy, quota, trackerVars, excluded, pickVars, slot, sess, observed>>

\* The policy is read once for each attempt; a forced alias comes before it.
Select(q) ==
  /\ pc[q] = "select"
  /\ pol' = [pol EXCEPT ![q] = policy]
  /\ Goto(q, IF route[q].forced # None THEN "forced"
             ELSE IF policy = "quota_aware" THEN "quota" ELSE "uuid")
  /\ UNCHANGED <<storeVars, policy, quota, trackerVars, route, excluded, cand, src, lim, elig,
                 localEx, slot, sess, outcome, observed>>

LookupForced(q) ==
  /\ pc[q] = "forced"
  /\ IF Usable(q, route[q].forced)
     THEN Candidate(q, route[q].forced, "header")
     ELSE Finish(q, "503")

LookupUUID(q) ==
  /\ pc[q] = "uuid"
  /\ LET a == route[q].hint IN
     IF a # None /\ a \notin excluded[q] /\ Usable(q, a)
     THEN Candidate(q, a, "account_uuid")
     ELSE Advance(q, "pending")

LookupPending(q) ==
  /\ pc[q] = "pending"
  /\ LET a == IF route[q].key \in Session THEN pendingTo[route[q].key] ELSE None IN
     IF a # None /\ a \notin excluded[q] /\ Usable(q, a)
     THEN Candidate(q, a, "session_pending")
     ELSE Advance(q, "binding")

LookupBinding(q) ==
  /\ pc[q] = "binding"
  /\ LET a == IF route[q].key = None THEN None ELSE boundTo[route[q].key] IN
     IF a # None /\ a \notin excluded[q] /\ Usable(q, a)
     THEN Candidate(q, a, "sticky")
     ELSE Advance(q, "accounts")

\* Store.Accounts for the load-balancing loop, with the limit the loop keeps.
LookupAccounts(q) ==
  /\ pc[q] \in {"accounts", "quota"}
  /\ elig' = [elig EXCEPT ![q] = {a \in Account : Usable(q, a)}]
  /\ lim' = [lim EXCEPT ![q] = LimitFor(q)]
  /\ Goto(q, IF pc[q] = "quota" THEN "quotaPick" ELSE "balance")
  /\ UNCHANGED <<storeVars, policy, quota, trackerVars, route, excluded, pol, cand, src, localEx,
                 slot, sess, outcome, observed>>

\* A database error or a cancelled context before anything is admitted; a slot
\* taken already is released.
StoreError(q) ==
  /\ "storeError" \in Events
  /\ \/ pc[q] \in {"forced", "uuid", "pending", "binding", "accounts", "quota"}
     \/ /\ pc[q] = "admit"
        /\ \/ src[q] \in {"header", "account_uuid"} /\ route[q].key # None
           \/ NeedsSessionSlot(q) /\ pendingTo[route[q].key] = None
  /\ Finish(q, "503")

\* reserveBelow for an account that a lookup named.
\* Faulty: the limit is compared off by one.
ReserveAtLimit(q) ==
  /\ pc[q] = "reserve"
  /\ Load(q, cand[q]) <= lim[q]
  /\ TakeSlot(q, cand[q])
  /\ Goto(q, IF pol[q] = "legacy" THEN "admit" ELSE "fresh")
  /\ UNCHANGED <<storeVars, policy, quota, pendingTo, refs, perAccount, route, excluded,
                 pickVars, sess, outcome, observed>>

Reserve(q) ==
  /\ pc[q] = "reserve"
  /\ Load(q, cand[q]) < lim[q]
  /\ TakeSlot(q, cand[q])
  /\ Goto(q, IF pol[q] = "legacy" THEN "admit" ELSE "fresh")
  /\ UNCHANGED <<storeVars, policy, quota, pendingTo, refs, perAccount, route, excluded,
                 pickVars, sess, outcome, observed>>

\* A full account named by metadata falls through, any other ends in a local 429.
NoSlot(q) ==
  /\ pc[q] = "reserve"
  /\ Load(q, cand[q]) >= lim[q]
  /\ IF src[q] = "account_uuid"
     THEN /\ Forget(q)
          /\ Goto(q, "pending")
          /\ UNCHANGED <<storeVars, policy, quota, trackerVars, route, excluded, pol, elig,
                         localEx, slot, sess, outcome, observed>>
     ELSE Finish(q, "429")

\* reserveLeastLoaded: equal loads are ordered by a hash, any of them here.
LeastLoaded(q, C) ==
  LET open == {a \in C : Load(q, a) < lim[q]}
  IN  {a \in open : \A b \in open : Load(q, a) <= Load(q, b)}

Take(q, a, source, label) ==
  /\ TakeSlot(q, a)
  /\ cand' = [cand EXCEPT ![q] = a]
  /\ src' = [src EXCEPT ![q] = source]
  /\ Goto(q, label)
  /\ UNCHANGED <<storeVars, policy, quota, pendingTo, refs, perAccount, route, excluded, pol,
                 lim, sess, outcome, observed>>

Balance(q) ==
  /\ pc[q] = "balance"
  /\ LET best == LeastLoaded(q, elig[q] \ (excluded[q] \cup localEx[q])) IN
     \/ /\ \E a \in best : Take(q, a, "load_balance", "admit")
        /\ UNCHANGED <<elig, localEx>>
     \/ best = {} /\ Finish(q, IF elig[q] \ excluded[q] # {} THEN "429" ELSE "503")
-----------------------------------------------------------------------------
(* admitSession for the account whose slot was just taken.                  *)

Admitted(q) ==
  /\ Goto(q, "fresh")
  /\ ForgetAccounts(q)
  /\ UNCHANGED <<storeVars, policy, quota, inFlight, route, excluded, pol, cand, src, lim,
                 slot, outcome, observed>>

AdmitExisting(q) ==
  /\ pc[q] = "admit"
  /\ ~NeedsSessionSlot(q)
  /\ Admitted(q)
  /\ UNCHANGED <<pendingTo, refs, perAccount, sess>>

\* Faulty: a call that shares a provisional slot does not count itself.
AdmitUncounted(q) ==
  /\ pc[q] = "admit"
  /\ NeedsSessionSlot(q)
  /\ pendingTo[route[q].key] = cand[q]
  /\ sess' = [sess EXCEPT ![q] = TRUE]
  /\ Admitted(q)
  /\ UNCHANGED <<pendingTo, refs, perAccount>>

AdmitShared(q) ==
  /\ pc[q] = "admit"
  /\ NeedsSessionSlot(q)
  /\ pendingTo[route[q].key] = cand[q]
  /\ refs' = [refs EXCEPT ![route[q].key] = @ + 1]
  /\ sess' = [sess EXCEPT ![q] = TRUE]
  /\ Admitted(q)
  /\ UNCHANGED <<pendingTo, perAccount>>

AdmitNew(q) ==
  /\ pc[q] = "admit"
  /\ NeedsSessionSlot(q)
  /\ pendingTo[route[q].key] = None
  /\ HasSessionRoom(cand[q])
  /\ pendingTo' = [pendingTo EXCEPT ![route[q].key] = cand[q]]
  /\ refs' = [refs EXCEPT ![route[q].key] = 1]
  /\ perAccount' = [perAccount EXCEPT ![cand[q]] = @ + 1]
  /\ sess' = [sess EXCEPT ![q] = TRUE]
  /\ Admitted(q)

\* Another account holds the session's provisional slot, or this one is full.
Refused(q) ==
  /\ NeedsSessionSlot(q)
  /\ \/ pendingTo[route[q].key] \notin {None, cand[q]}
     \/ pendingTo[route[q].key] = None /\ ~HasSessionRoom(cand[q])

RefuseSession(q) ==
  /\ pc[q] = "admit"
  /\ Refused(q)
  /\ IF src[q] = "header"
     THEN Finish(q, "429")
     ELSE /\ DropSlot(q)
          /\ cand' = [cand EXCEPT ![q] = None]
          /\ src' = [src EXCEPT ![q] = "none"]
          /\ localEx' = IF src[q] = "load_balance"
                        THEN [localEx EXCEPT ![q] = @ \cup {cand[q]}] ELSE localEx
          /\ Goto(q, CASE src[q] = "account_uuid"    -> "pending"
                       [] src[q] = "session_pending" -> "binding"
                       [] OTHER                      -> "balance")
          /\ UNCHANGED <<storeVars, policy, quota, pendingTo, refs, perAccount, route, excluded,
                         pol, lim, elig, sess, outcome, observed>>
-----------------------------------------------------------------------------
(* selectQuotaAware: no uuid, pending or sticky lookup and no session slot. *)

\* betterQuotaCandidate up to its hash tie-break.
NoWorse(q, a, b) ==
  \/ quota[a] = Unknown /\ quota[b] # Unknown
  \/ quota[a] # Unknown /\ quota[b] # Unknown /\ quota[a] > quota[b]
  \/ quota[a] = quota[b] /\ Load(q, a) <= Load(q, b)

QuotaPick(q) ==
  /\ pc[q] = "quotaPick"
  /\ LET withQuota == IF route[q].count THEN elig[q] ELSE {a \in elig[q] : quota[a] # 0}
         open == {a \in withQuota \ excluded[q] : Load(q, a) < lim[q]}
         best == IF route[q].count THEN LeastLoaded(q, open)
                 ELSE {a \in open : \A b \in open : NoWorse(q, a, b)}
     IN \/ /\ \E a \in best : Take(q, a, "quota_aware", "fresh")
           /\ ForgetAccounts(q)
        \/ best = {} /\ Finish(q, IF withQuota \ excluded[q] # {} THEN "429" ELSE "503")
-----------------------------------------------------------------------------
(* forward after the choice: token, upstream attempt, response, release.    *)

Ending(q, result) ==
  /\ outcome' = [outcome EXCEPT ![q] = result]
  /\ Goto(q, "release")

\* A cooldown written for the account just used; its persistence may fail.
MayCool(q) == cooling' \in {cooling, cooling \cup {cand[q]}}

restOfStore == <<enabled, pool, boundTo, active, limit>>

TokenFresh(q) ==
  /\ pc[q] = "fresh"
  /\ Goto(q, "upstream")
  /\ lim' = [lim EXCEPT ![q] = 0]
  /\ UNCHANGED <<storeVars, policy, quota, trackerVars, route, excluded, pol, cand, src, elig,
                 localEx, slot, sess, outcome, observed>>

\* ensureFresh failed: cool the account, then fail over unless that is not allowed.
TokenFails(q) ==
  /\ pc[q] = "fresh"
  /\ MayCool(q)
  /\ IF LastAttempt(q) THEN Ending(q, "503") ELSE Goto(q, "failover") /\ UNCHANGED outcome
  /\ UNCHANGED <<restOfStore, policy, quota, trackerVars, route, excluded, pickVars, slot, sess,
                 observed>>

TransformFails(q) ==
  /\ pc[q] = "fresh"
  /\ Ending(q, "error")
  /\ UNCHANGED <<storeVars, policy, quota, trackerVars, route, excluded, pickVars, slot, sess,
                 observed>>

\* 2xx headers: recover cooldowns, publish the five-hour reading, stream the body.
Accepted(q) ==
  /\ pc[q] = "upstream"
  /\ cooling' \in {cooling, cooling \ {cand[q]}}
  /\ \E u \in IF route[q].count THEN {quota[cand[q]]} ELSE {quota[cand[q]]} \cup 0 .. MaxUrgency :
       quota' = [quota EXCEPT ![cand[q]] = u]
  /\ outcome' = [outcome EXCEPT ![q] = "ok"]
  /\ Goto(q, "stream")
  /\ UNCHANGED <<restOfStore, policy, trackerVars, route, excluded, pickVars, slot, sess, observed>>

\* Any other answer that is not retried; its body is passed on.
Declined(q) ==
  /\ pc[q] = "upstream"
  /\ outcome' = [outcome EXCEPT ![q] = "error"]
  /\ Goto(q, "stream")
  /\ UNCHANGED <<storeVars, policy, quota, trackerVars, route, excluded, pickVars, slot, sess,
                 observed>>

\* 429, 529 or 5xx; only a 429 cools the account.
Retryable(q) ==
  /\ pc[q] = "upstream"
  /\ MayCool(q)
  /\ IF LastAttempt(q)
     THEN Goto(q, "stream") /\ outcome' = [outcome EXCEPT ![q] = "error"]
     ELSE Goto(q, "failover") /\ UNCHANGED outcome
  /\ UNCHANGED <<restOfStore, policy, quota, trackerVars, route, excluded, pickVars, slot, sess,
                 observed>>

TransportFails(q) ==
  /\ pc[q] = "upstream"
  /\ IF LastAttempt(q) THEN Ending(q, "error") ELSE Goto(q, "failover") /\ UNCHANGED outcome
  /\ UNCHANGED <<storeVars, policy, quota, trackerVars, route, excluded, pickVars, slot, sess,
                 observed>>

\* Faulty: the failed account stays eligible.
FailOverUnexcluded(q) ==
  /\ pc[q] = "failover"
  /\ DropSlot(q) /\ DropSession(q) /\ Forget(q)
  /\ Goto(q, "select")
  /\ UNCHANGED <<storeVars, policy, quota, route, excluded, pol, elig, localEx, outcome, observed>>

\* Release both reservations, exclude the account and select once more.
FailOver(q) ==
  /\ pc[q] = "failover"
  /\ DropSlot(q) /\ DropSession(q) /\ Forget(q)
  /\ excluded' = [excluded EXCEPT ![q] = @ \cup {cand[q]}]
  /\ Goto(q, "select")
  /\ UNCHANGED <<storeVars, policy, quota, route, pol, elig, localEx, outcome, observed>>

Interrupted(q) ==
  /\ pc[q] = "stream"
  /\ Ending(q, "error")
  /\ UNCHANGED <<storeVars, policy, quota, trackerVars, route, excluded, pickVars, slot, sess,
                 observed>>

Binds(q) == outcome[q] = "ok" /\ ~route[q].count /\ pol[q] = "legacy" /\ route[q].key # None

\* Store.Bind, the upsert of the affinity row with a fresh updated_at.
Bind(q) ==
  LET k == route[q].key
      counted == sess[q] \/ (k \in active /\ boundTo[k] = cand[q])
  IN  /\ boundTo' = [boundTo EXCEPT ![k] = cand[q]]
      /\ active' = active \cup ({k} \cap Session)
      /\ resumed' = IF counted THEN resumed ELSE resumed \cup ({k} \cap Session)

\* The body was copied whole.  A bind may fail, or the cache lifetime be over.
Complete(q) ==
  /\ pc[q] = "stream"
  /\ \/ Binds(q) /\ Bind(q)
     \/ UNCHANGED <<boundTo, active, resumed>>
  /\ Goto(q, "release")
  /\ UNCHANGED <<enabled, pool, cooling, limit, policy, quota, trackerVars, route, excluded,
                 pickVars, slot, sess, outcome, peak, moved>>

\* The deferred releases of forward.
Return(q) == pc[q] = "release" /\ Finish(q, "none")
-----------------------------------------------------------------------------
(* The console, the clock and the process.                                  *)

callsAndTrackers == <<trackerVars, pc, callVars>>

SetRoutingPolicy ==
  /\ "policy" \in Events
  /\ policy' = IF policy = "legacy" THEN "quota_aware" ELSE "legacy"
  /\ UNCHANGED <<storeVars, quota, callsAndTrackers, observed>>

SetAccountConcurrency ==
  /\ "limit" \in Events
  /\ limit' \in Limits
  /\ peak' = IF limit' > peak THEN limit' ELSE peak
  /\ UNCHANGED <<enabled, pool, cooling, boundTo, active, policy, quota, callsAndTrackers,
                 resumed, moved>>

SetAccountEnabled(a) ==
  /\ "enable" \in Events
  /\ enabled' = [enabled EXCEPT ![a] = ~@]
  /\ UNCHANGED <<pool, cooling, boundTo, active, limit, policy, quota, callsAndTrackers, observed>>

ClearBindings(a) ==
  LET cleared == {k \in Key : boundTo[k] = a} IN
  /\ boundTo' = [k \in Key |-> IF k \in cleared THEN None ELSE boundTo[k]]
  /\ active' = active \ cleared
  /\ resumed' = resumed \ cleared

\* The placement and the bindings change in one transaction.
SetAccountPool(a) ==
  /\ "pool" \in Events
  /\ pool' = [pool EXCEPT ![a] = IF @ = "official" THEN "compatible" ELSE "official"]
  /\ ClearBindings(a)
  /\ moved' = {q \in Request : pc[q] # "idle"}
  /\ UNCHANGED <<enabled, cooling, limit, policy, quota, callsAndTrackers, peak>>

\* Deleted with its cooldowns and bindings and imported again, disabled.
DeleteAccount(a) ==
  /\ "delete" \in Events
  /\ enabled' = [enabled EXCEPT ![a] = FALSE]
  /\ pool' = [pool EXCEPT ![a] = "compatible"]
  /\ cooling' = cooling \ {a}
  /\ ClearBindings(a)
  /\ quota' = [quota EXCEPT ![a] = Unknown]
  /\ UNCHANGED <<limit, policy, callsAndTrackers, peak, moved>>

CooldownEnds(a) ==
  /\ "cooldown" \in Events
  /\ a \in cooling
  /\ cooling' = cooling \ {a}
  /\ UNCHANGED <<restOfStore, policy, quota, callsAndTrackers, observed>>

WindowResets(a) ==
  /\ "window" \in Events
  /\ quota[a] # Unknown
  /\ quota' = [quota EXCEPT ![a] = Unknown]
  /\ UNCHANGED <<storeVars, policy, callsAndTrackers, observed>>

\* Five minutes without a success: bound, but no longer an active session.
SessionIdles(k) ==
  /\ "idle" \in Events
  /\ k \in active
  /\ active' = active \ {k}
  /\ resumed' = resumed \ {k}
  /\ UNCHANGED <<enabled, pool, cooling, boundTo, limit, policy, quota, callsAndTrackers, peak, moved>>

\* expires_at has passed: an hour for a session, the declared lifetime for a cache.
BindingExpires(k) ==
  /\ "expire" \in Events
  /\ boundTo[k] # None /\ k \notin active
  /\ boundTo' = [boundTo EXCEPT ![k] = None]
  /\ UNCHANGED <<enabled, pool, cooling, active, limit, policy, quota, callsAndTrackers, observed>>

\* Trackers, policy and readings are lost with the process, and with them every call.
Restart ==
  /\ "restart" \in Events
  /\ policy' = "quota_aware"
  /\ quota' = [a \in Account |-> Unknown]
  /\ inFlight' = [kind \in Kind |-> [a \in Account |-> 0]]
  /\ pendingTo' = [k \in Session |-> None]
  /\ refs' = [k \in Session |-> 0]
  /\ perAccount' = [a \in Account |-> 0]
  /\ pc' = [q \in Request |-> "idle"]
  /\ route' = [q \in Request |-> NoRoute]
  /\ excluded' = [q \in Request |-> {}]
  /\ pol' = [q \in Request |-> "legacy"]
  /\ cand' = [q \in Request |-> None]
  /\ src' = [q \in Request |-> "none"]
  /\ lim' = [q \in Request |-> 0]
  /\ elig' = [q \in Request |-> {}]
  /\ localEx' = [q \in Request |-> {}]
  /\ slot' = [q \in Request |-> FALSE]
  /\ sess' = [q \in Request |-> FALSE]
  /\ outcome' = [q \in Request |-> "none"]
  /\ moved' = {}
  /\ UNCHANGED <<storeVars, peak, resumed>>
-----------------------------------------------------------------------------
Choose(q) ==
  \/ Select(q) \/ LookupForced(q) \/ LookupUUID(q) \/ LookupPending(q) \/ LookupBinding(q)
  \/ LookupAccounts(q) \/ Reserve(q) \/ NoSlot(q) \/ Balance(q) \/ QuotaPick(q)
  \/ AdmitExisting(q) \/ AdmitShared(q) \/ AdmitNew(q) \/ RefuseSession(q)

Serve(q) ==
  \/ TokenFresh(q) \/ TokenFails(q) \/ TransformFails(q)
  \/ Accepted(q) \/ Declined(q) \/ Retryable(q) \/ TransportFails(q)
  \/ FailOver(q) \/ Interrupted(q) \/ Complete(q) \/ Return(q)

Operate ==
  \/ SetRoutingPolicy \/ SetAccountConcurrency \/ Restart
  \/ \E a \in Account : \/ SetAccountEnabled(a) \/ SetAccountPool(a) \/ DeleteAccount(a)
                        \/ CooldownEnds(a) \/ WindowResets(a)
  \/ \E k \in Session : SessionIdles(k)
  \/ \E k \in Key : BindingExpires(k)

Next ==
  \/ \E q \in Request : Arrive(q) \/ Choose(q) \/ StoreError(q) \/ Serve(q)
  \/ Operate

Spec == Init /\ [][Next]_vars

\* A call in progress keeps running: every lookup, lock, upstream exchange and
\* body ends, for the client's context, the transport and the server bound them.
FairSpec == Spec /\ \A q \in Request : WF_vars(Choose(q) \/ Serve(q))
-----------------------------------------------------------------------------
(* Properties.                                                              *)

Holders(kind, a) == {q \in Request : slot[q] /\ KindOf(q) = kind /\ cand[q] = a}
SessionHolders(k) == {q \in Request : sess[q] /\ route[q].key = k}
PendingOn(a) == {k \in Session : pendingTo[k] = a}

\* Every tracker count is exactly the number of calls that still hold a slot of
\* that account: no release is lost, and none is made twice (account_load.go).
SlotsMatchHolders ==
  \A kind \in Kind, a \in Account : inFlight[kind][a] = Cardinality(Holders(kind, a))

\* However lookups, failovers, limit changes and count_tokens calls interleave,
\* an account never serves more Messages calls at once than the largest limit
\* that was in force, nor more count_tokens calls than theirs.
HoldersWithinLimit ==
  \A a \in Account : /\ Cardinality(Holders("messages", a)) <= peak
                     /\ Cardinality(Holders("count", a)) <= CountLimit

\* A provisional session slot lives exactly as long as the first calls that share
\* it, all of them sit on its account, and perAccount counts the slots
\* (session_admission.go: reference counting and the per-account total).
SessionsMatchHolders ==
  /\ \A k \in Session :
       /\ refs[k] = Cardinality(SessionHolders(k))
       /\ pendingTo[k] # None <=> SessionHolders(k) # {}
       /\ \A q \in SessionHolders(k) : cand[q] = pendingTo[k]
  /\ \A a \in Account : perAccount[a] = Cardinality(PendingOn(a))

\* Concurrent new sessions cannot all pass a stale count: confirmed active and
\* provisional sessions of an account stay within max_active_sessions_per_account,
\* those left out that an older binding let back in.
NewSessionsWithinLimit ==
  \A a \in Account : Cardinality((ActiveSessions(a) \cup PendingOn(a)) \ resumed) <= MaxActive

\* One alternate at most, never the account that failed, and none for a caller
\* that named its account.
FailoverIsBounded ==
  \A q \in Request :
    /\ Cardinality(excluded[q]) <= 1
    /\ route[q].forced # None => excluded[q] = {} /\ cand[q] \in {None, route[q].forced}
    /\ cand[q] \notin excluded[q]

\* Whatever path chose it, an official-pool account carries compatible traffic
\* only if it was moved while the call was running.
FenceHolds ==
  \A q \in Request :
    cand[q] # None /\ ~MayUse(route[q].access, pool[cand[q]]) => q \in moved

\* A reservation exists only while its call runs: between calls nothing is held.
NothingHeldWhenIdle ==
  \A q \in Request : pc[q] \in {"idle", "select"} => ~slot[q] /\ ~sess[q]

\* The Messages slots of the whole relay are one pool of counted slots.
SlotHolder == [q \in Request |-> IF slot[q] /\ ~route[q].count THEN cand[q] ELSE None]
Pool == INSTANCE SlotPool WITH holder <- SlotHolder, capacity <- peak, Capacities <- Limits

\* accountLoadTracker with all its callers implements the slot pool: a call holds
\* one slot at most, takes it below the limit only, and gives it back once.
ImplementsSlotPool == Pool!Spec

\* Every call that arrived is answered and gives back what it held.
CallsEnd == \A q \in Request : pc[q] = "select" ~> pc[q] = "idle" /\ ~slot[q] /\ ~sess[q]
=============================================================================
