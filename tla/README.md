# Verification of claude-relay

claude-relay is one Go process in front of Anthropic's API.  Clients call its
`/v1/messages`, `/v1/messages/count_tokens` and `/v1/models` endpoints with the
relay's own token; the relay picks one of several Claude subscription accounts,
adds that account's OAuth token, forwards the call, copies the answer back and
keeps the books.  State that must survive a restart is in one SQLite database;
everything else is process memory guarded by a mutex per owner.  There is no
second process and no message bus: the concurrency is that of goroutines, one per
HTTP call, plus a few background loops, the console's calls and the wall clock.

This directory models that system in TLA+, checks the models with TLC and proves
what matters most with TLAPS.

## Inventory

| component | state | operations | hard behaviour |
|---|---|---|---|
| Account selection and admission (`proxy/routing.go`, `account_load.go`, `session_admission.go`, `routing_policy.go`, `account_concurrency.go`, the attempt loop of `server.go`) | in-flight counts, provisional session slots, the routing policy, the in-flight limit; rows `accounts`, `session_bindings` | selectAccount, reserveBelow, reserveLeastLoaded, reserve, release, failover, Bind, console changes | goroutines interleave between every lookup and every lock; releases on many error paths; failover |
| Account cooldowns (`proxy/cooldown_policy.go`, `store.go` Cooldown..IsCooling) | rows `account_cooldowns` by account and model scope | classify an answer, merge a decision, recover on a success, read, expire | answers are observed in one order and written in another |
| OAuth tokens (`proxy/token_manager.go`, `claudeoauth`, `store.UpdateTokens`) | token columns of `accounts`, one lock per row id | ensureFresh, refreshNow, reauthorise, import, delete | single use refresh tokens, row ids that are used again, a crash or a cancelled context between the exchange and its persistence |
| Usage ledger (`accounting/manager.go`, `store/usage_accounting.go`, `store/five_hour_observation.go`) | pending buckets, events and refusals in memory; hourly rows, event rows | Record, Flush, Run, Clear, ClearFiveHour, final flush | batches that fail in part and are merged back, clears that race a flush, shutdown |
| Refusal cooldown (`proxy/refusal_guard.go`, `store/refusal_cooldown.go`) | refusal rows by conversation | record a refusal, read the block, answer locally | a refusal that arrives while another call of the conversation is let through |
| Usage-limit reset (`proxy/usage_reset.go`, `usage_reset_client.go`, `store/usage_reset.go`) | row of the reset attempt | begin, redeem upstream, finish, refresh | a crash or a timeout between the redemption and its result |
| Subscription samples (`proxy/subscription_sampler.go`, `account_usage.go`, `availability.go`) | live five-hour reading by account, cached usage | observe (compare-and-swap), current, forget, get | late headers of an older window; reused row ids |
| Model catalog (`proxy/models.go`) | cached pages and their age | list, forceRefresh, refreshLocked | stale answers on a failed refresh, concurrent refreshes |
| Five-hour windows (`store/five_hour_observation.go`, `proxy/five_hour_export.go`) | event rows, window rows | insert events, mark exhausted, canonical end, merge | end times reported a few seconds apart must fall in one window |
| Traffic observation and metrics (`proxy/traffic_observation.go`, `metrics/metrics.go`) | ring of recent calls, queue of observations | add, run, Record, Recent, Summary | queue and ring at their limit |
| Account proxies (`proxy/account_proxy.go`) | transport by account | RoundTrip, set, forget | a transport replaced while it is used |
| Response accounting (`accounting/observer.go`, `proxy/refusal_billing.go`) | counters of one response | apply, sse, adjust, scale | repeated and cumulative usage events |
| Request and response transformation (`proxy/tool_names.go`, `tool_name_response.go`, `client_consistency.go`, `attribution.go`, `headers.go`, `compression.go`) | aliases of one request | normalise, restore | two names with one alias |
| Official version policy (`proxy/official_version_policy.go`) | required version | persist, check, compare | publication against persistence |
| Console and settings (`proxy/admin.go`, `usage_admin.go`, `store.RuntimeSetting`) | settings rows | set, list, import, delete | the order of persistence and publication |
| OAuth authorisation (`claudeoauth/client.go`) | pending authorisation sessions | start, exchange | expiry, one use |
| Entry points, configuration, logging, web UI (`cmd`, `config`, `credential`, `ingress.go`, `request_id.go`, `traffic_content.go`, `webui`) | none that outlives a call | parse, render | none a model would add to |

How they interact: `Server.forward` is the only path that touches most of them in
one call.  It authenticates and classifies the call, asks the refusal guard, then
loops at most twice over *select an account, make its token fresh, transform the
body, call upstream*; an answer feeds the cooldown rows, the live reading and, when
the body has been copied, the ledger, the refusal rows and the session binding.  The
console writes the same rows and policies at any moment.  A background loop
(`Server.Run`) flushes the ledger and prunes expired rows, and a flush at the end of
`Run` is the only thing that separates accepted calls from lost accounting.

What makes each component correct:

* admission: counts equal holders; limits hold; a failover is bounded; nothing is
  held after a call; the pool fence;
* cooldowns: a row is one decision that was really made; a success removes only
  what it is newer than;
* tokens: one exchange at a time for a row; no refresh token is used twice; the
  token a row holds is the last one of its own account;
* ledger: what was recorded is in the database once, or still pending; a clear
  removes what came before it and nothing after;
* refusal cooldowns: a block holds to its end, stays on the refused conversation,
  escalates while it is remembered and is not extended by refusals that join it;
* resets: one card for one operation; what is settled is true; operations of a
  subscription do not overlap;
* samples: an older reading never replaces a newer one; a forced page is new;
* catalog: an answer is a list or an error, pages of a walk fit together, and what is
  published is served in the end;
* five-hour windows: one window for an end, its sums are those of its events, and what
  a repeated write adds to another window is two seconds away;
* traffic and metrics: every attempt is counted once, within the limit;
* account proxies and logins: a request leaves through its account's exit;
* response accounting: a count is the last one told; a refusal is billed once;
* tool names: every name comes back, whatever the order of the tools.

Every hazard the models answer to, and those no property covers yet, is listed
with its line in `PROJECT.json`.

## Modules

| module | models | state | composed with |
|---|---|---|---|
| `Admission` | a `Server.forward` call from its route to its deferred releases, with everything it does to the trackers, the bindings and the account | tables `accounts`, `session_bindings`; both trackers; policies; one program counter a call | refines `SlotPool` |
| `SlotPool` | what the in-flight limit promises, and nothing else | who holds which account | abstract |
| `Cooldowns` | rows of `account_cooldowns` of one account | rows, the observation clock, what each call has classified and not yet written | `cooling` of `Admission`; `FinishUsageReset` of `UsageReset` |
| `TokenRefresh` | `tokenManager`, imports, logins, deletions | token columns, locks, upstream's pairs | `TokenFresh`/`TokenFails` of `Admission` |
| `Ledger` | `accounting.Manager` and the end of `Server.Run` | four pending ledgers, the detached batch, the tables | the end of a call in `Admission` |
| `RefusalCooldown` | the refusal guard and its table | rows by fingerprint, the clock, calls upstream | the start and end of a call in `Admission` |
| `UsageReset` | `useUsageReset` from request to recorded outcome | operation rows, per-subscription mutex, upstream's memory of ids | `FinishUsageReset` of `Cooldowns` |
| `Samples` | the sampler of an account and its usage page | sampler entries, the cached view and its mutex, readings on their way | the headers of an answer in `Admission`; resets drop the entry |
| `FiveHourWindows` | the event and window rows of one account | both tables, the schema version, the pending events and the batch of a flush | the events of `Ledger` |
| `ModelCatalog` | `modelCatalog`, its goroutine and `listModels` | the cached list, its age, failure and channel; clients that walk the pages | - |
| `Exits` | `accountTransport` and the console's changes of rows and exits | rows, pools, requests on their way, one pending login | the rows of `TokenRefresh` |
| `Responses` | `Usage.apply`, the stream observer and the refusal adapter | counts of one response on both ways | the end of a call in `Ledger`, a refusal of `RefusalCooldown` |
| `Diagnostics` | `trafficObservation` and `metrics.Recorder` | groups, batches, the log, the ring | the end of a call |
| `ToolNames` | `experimentalToolAliases` and the restoring of an answer | the tables of one request | - |

`MC<module>` holds the definitions the `.cfg` files give to constants;
`<module>Proofs` holds the theorems: those of `Ledger` and `ModelCatalog` are in
`LedgerAndCatalogProofs`, those of `RefusalCooldown` and `Responses` in
`RefusalCooldownProofs`, those of `Cooldowns`, `Exits`, `Diagnostics` and
`FiveHourWindows` in `PartsProofs`.  Three of the MC modules hold small parts side by
side: `MCParts` has seven, `MCLedgerAndCatalog` and `MCRefusalCooldown` two each.  The
variable `part` is chosen initially and says which part the behaviour is one of; the
others stay as they begin.  The parts of one instance share no state, so their union
is what separate instances would reach, and a property of the instance is the
property of the part (`SpentOnce` of `MCParts` is `Reset!SpentOnce`).  Two of these
join formulas of their part: `WindowsAreTheEvents` is `OneWindowPerEnd`,
`WindowsSumUpEvents` and `StraysAreNear`, `AnswersAreWhole` is `NeverEmptyAnswer` and `WalkComplete`.  Fairness is asked of a
part only in its own behaviours.  Where two components meet, each module keeps
its own side whole and the other side's effect as a choice: `Admission` lets a
cooldown appear after a failure and end at any time, `Cooldowns` says when rows
really do, so neither needs the other's state.  `Admission` and `SlotPool` are
composed by refinement.

A definition marked *Faulty* is no part of a specification.  It is the definition
that follows it with a plausible defect, kept so that a reader can see which defect
each property catches.

### Admission

One step is one lookup in SQLite or one critical section.  `Select` reads the policy;
`LookupForced`, `LookupUUID`, `LookupPending`, `LookupBinding` and `LookupAccounts`
are the lookups of `selectAccount` in their order; `Reserve`, `NoSlot`, `Balance` and
`QuotaPick` take an in-flight slot or do not; `AdmitExisting`, `AdmitShared`,
`AdmitNew` and `RefuseSession` are `admitSession`; `TokenFresh` to `Return` are the
rest of the attempt loop, with `FailOver` as its second round.  The console, the
clock and a restart interleave anywhere (`Operate`), and `StoreError` ends a
selection at any lookup.

Abstractions: the row of an account and its cooldowns are read in one step;
`wasBoundTo` and the tracker's lock are one step; hash tie-breaks are any choice; the
priority of the five-hour allowance is a small number; the branches for a server
without trackers, which `NewServer` never builds, are left out; `cooling` is for the
one model the traffic asks for.  `peak`, `resumed` and `moved` are observation only.
`LegacySpec` is the same next-state relation from an idle relay whose operator has
already chosen affinity-first routing: the program starts with `quota_aware`, and the
switch is an action of the `quota` run.

### Cooldowns

`Rejected`, `AuthFailed` and `Succeeded` classify an answer with the clock of that
moment; `CooldownObservedAt` and `ClearCooldownMatchesObservedBefore` write it later;
`GiveUp` is a write that fails.  The console clears, deletes and imports;
`FinishUsageReset` deletes the rows a spent card cures.  The clock has `Second`
instants to a second because `until_at` is stored in whole seconds and observation
times are not.  Rows of different accounts never meet in one statement, so there is
one account.  `longest`, `newer` and `proven` are history.

### TokenRefresh

A pair is one access token with its refresh token; `Refreshed` is the exchange that
consumes one and issues the next, `ReplyLost` the one whose answer is dropped,
`Persist` the write, each under the row's mutex where the code holds it.  Imports and
first logins bring pairs that are used nowhere else (`Bring`).  Row ids are given out
as SQLite does, one above the largest in use, so ids of deleted rows come back.  An
account with automatic refresh switched off returns from `Check`.

### Ledger

A counter is kept as how often each call was added to it, so that adding twice and
losing are visible.  `Flush` detaches the four ledgers; `Written` and `WriteFails`
are its three transactions with the merge back; clears hold the flush mutex and drop
what is pending before they delete; `Interrupt`, `Drained`, `ShutdownTimesOut`,
`ListenFails` and `FinalFlush` are the end of `Run`; `Crash` and `Restart` lose memory.
SQLite's commits are taken as exact.

### RefusalCooldown

A fingerprint is the content it is a digest of: the digests are taken to be
one-to-one.  `Forward` is the check before the call goes upstream, `Refuse` the answer
that was refused and its clock reading, `RecordRefusalCooldown` the transaction,
which may come any time later.  A block of a message stands for the block with its role.
A conversation that ends in a message of another role without blocks is `open`: that
role goes into the digest that is recorded and into none that is looked up
(`refusal_guard.go:139-158`), so `Record` is not part of `Lookup`, and without a session
the repeat of such a conversation is not blocked.  `BlocksHold` is therefore stated of
the fingerprints calls look up.

### UsageReset

`Lock` to `BeginUsageReset` follow `useUsageReset` under the subscription's mutex; an
operation is on record before `Post`.  Upstream spends once for an id it remembers,
and is assumed to remember it for the retry window and for every claim begun within
it: this is what the relay relies on, nothing in the repository states it.  A claim
nobody waits for any more may arrive late, several times or never.  The mutexes are
process memory and `Crash` frees them.

### Samples

A reading is the moment it was made.  `Ask` to `Keep` are `accountUsageManager.get`
with its mutex and its time to live; `Arrive` is the moment of an answer's headers;
`Observe`, `LoadAgain` and `CompareAndSwap` are the loop of `observe`, without a lock;
`forget` drops the entry while a reader still holds the sampler it found.

### FiveHourWindows

Messages wait in memory (`Record`) until `Flush` detaches them.  `AddFiveHourEvents`
writes the next event of the batch; the steps between the first and the last are one
transaction, during which the store's only connection keeps every other writer out
(`NoTransaction`).  `MergeBack` is both failures of a flush: the events' transaction,
which leaves nothing, or the buckets' after it, which leaves the events committed and
puts them back as they were reported.  `Flushed` ends a flush that got through both.
Usage pages and full windows are written alone, in between, and never again.  A clear
waits for a flush and drops what was pending, even if its deletion fails.

`canonicalFiveHourReset` picks the end on record that is at most a second away.  Of two
neighbours equally near the query names none, so either may be picked.  What an
observation may be (`Reported`) is what the three places that make one can build: an end
and a utilization go together in headers, an exhaustion may lack the utilization, the
usage page the end.  Every observation has a key of its own: the keys hold the request
and the moment.

An event that is written again keeps its row, and the window its reported end leads to
sums it up once more.  When a window came on record on the other side of that end in
between, it may be that one: with 1003 on record an event that reports 1002 is filed
under 1003; its buckets fail, a page creates 1001, and the repeated write may give 1001
the reading.  `docs/architecture.md:369` calls the key's purpose idempotence, which is so
for the row and not for the windows.  `astray` keeps account of these windows:
`WindowsSumUpEvents` says that a window sums up its own events and the strays and nothing
else, `StraysAreNear` that a stray is a message, filed exactly two seconds away.

Version 8 is the program before the merge: it wrote an end as it was told
(`WriteAsReported`), and `mergeAdjacentFiveHourWindows` runs once at the start of version
9.  Its memory is left out, because an event it wrote again went to the window it had
gone to before, which changes nothing.

### ModelCatalog

One step is one critical section of the catalog's mutex or one page of upstream.
`List` starts the shared goroutine or waits for it, `ListAgain` is the look after the
channel closed, `GiveUp` a caller that left.  `StartRead`, `Collect` and `ReadFails`
are the goroutine, which tries the accounts in turn.  `Newest` is the list of some models
in the order upstream has: the i-th has i - 1 newer ones.  `Expire` and `RetryDelayEnds`
are the clock.  A client walks the pages of a list that changes between its calls.

### Exits

A request is given the row of its account and carries it until it is sent
(`Choose`, `Get`, `RoundTrip`); the console sets an exit in two steps, the row and then
the pool (`SetAccountProxy`, `forget`), deletes, renames and imports rows, and ids and
aliases come back.  A login keeps its exit in its session, leaves through it and then
writes the account and, in a second statement, its exit.  `since` is history.

### Responses

Events tell any of four fields, leave them out or make them null; `apply` is the
observer on what upstream sent, `adjust` the adapter on what the client gets, and
either may see the refusal first.  A whole JSON body is one event; a body may break
off anywhere.  Input, output and cache reads are treated alike and are one field.

### Diagnostics

`add` tests the limit, gives up the lock to flush and tests again; `flush` takes the
groups and `log` writes them.  The ring overwrites its oldest place; a record carries
the time its call began.

### ToolNames

A name is a number.  `mcp__` plus a name and the hash-shortened names are functions
chosen initially, so any collision is possible.  `Reserve` takes the names the client
declared, `Prefix` the plain aliases in the request's order, `Shorten` the others in
sorted order, `Send` renames, `Answer` restores.

## Runs

| run | question | bounds |
|---|---|---|
| `sessions` | are provisional session slots exact, and new sessions within their limit | 2 calls, 2 sessions, 2 accounts, one session slot each |
| `mixed` | failover, the pool fence and releases | a compatible session with a metadata account against an official caller that names its account; pools move, lookups fail |
| `quota` | are counts and limits exact under both policies, and does the tracker implement `SlotPool` | 2 calls of either kind, 1 account, limits 1 and 2, policy and limit change |
| `live` | does every call end | 2 calls of one session, 2 accounts, restarts, fairness |
| `merge` | seven parts, one at a time: is a cooldown row one whole, longest and curable decision; one card, true outcome, no overlap of resets; windows and events; fresh samples; exits; counted traffic; tool names | cooldowns: 2 calls, 1 model; resets: 2 handlers, 2 operations, 2 cards; windows: 3 events, 3 ends; samples: 2 pages, 1 answer, clock to 2; exits: 2 requests, 1 login, 1 row id, 2 aliases, 2 proxies, 2 changes; traffic: 3 attempts, 2 groups, limit 1; tools: 2 custom names, 1 fixed, 3 aliases |
| `erased` | violated: does a newer decision survive an older success | 2 calls, two instants a second |
| `chain` | exclusive refreshes, no token twice, live rows, logins, waiters | 2 goroutines, 1 row id, 2 identities, 3 pairs, fairness on the locks |
| `misplaced` | violated: do tokens stay with their identity | 1 goroutine, 1 row id, 2 identities, 3 pairs |
| `ledger` | the ledger: counted once, events kept, totals agree, clears final, clean stop complete, everything written; the catalog: whole answers, published models served | 1 call, 2 row ids, 2 identities, 2 failures; 1 policy, 1 client, 3 models, 1 to a page, 2 changes; fairness |
| `poisoned` | violated: are failed batches really retried with effect | 2 calls, no failures but the deleted account |
| `refusals` | do blocks hold, stay narrow, escalate and join; is the usage of a response its last count and a refusal billed once | 2 calls, 4 conversations that share an opening and a session, one of them open, clock to 4 with 1, 2 and 3 as the durations; 3 events, counts 1 and 3, multipliers 1 and 1.5 |
| `recent` | violated: does the recent summary count what it retains | 2 calls, ring of 2, window of 1 |

Why the bounds are enough: every hazard listed is a race of two actors, and two calls
are in each run that asks about one; `sessions` has two sessions for one slot, so the
limit is reached, and two accounts, so failover has somewhere to go.  Limits of 1 and
2 reach both branches of a release.  Three pairs are the pair of a row, its successor
and the one a second goroutine or an import brings.  The ledger run has one call
because its properties are about one entry and it checks liveness; its safety
properties are proved for any number.  In `refusals` the durations keep their order
(short, long, retention) and the clock outlasts the retention.

Three ends and three events are the least for a chain of three neighbours, and for a
message filed on one side of the end it reports and written again when the other side
has come on record; the proof has any number of both.  Three attempts fill one group, flush it and come back
while the ticker writes.  One row id and two aliases are enough for an id that comes
back under another name and another exit while a request carries the old row.  Two
custom names, three aliases and a fixed name that is one of them let prefixed and
shortened names meet each other and a declared name.  Three models, one to a page, are
a walk with a middle, and two changes let one model come and one go during it.
Bounds of counters are `MaxFailures`, `MaxTime` (`MaxClock`, `MaxNow` in `MCParts`),
`MaxUrgency`, `MaxSamplers`, `MaxChanges`, `MaxEvents`, `MaxCharge`, `MaxPages` and
`MaxTools`; everything else is bounded by the sets.

Fairness: `FairSpec` of `Admission` lets a running call continue (the client's
context, the transport and the server bound every lookup, exchange and body); it does
not make calls arrive or the console act.  `FairSpec` of `TokenRefresh` gives each
goroutine its next step (the OAuth client and the database have deadlines) and, by
strong fairness, the lock it waits for: a Go mutex in starvation mode goes to the
longest waiter.  `FairSpec` of `Ledger` lets transactions end, and gives the ticker,
which comes back every five seconds, the flush mutex by strong fairness for the same
reason; `MaxFailures` says that the database does not fail for ever.  For the catalog
the goroutine goes on (its context has a deadline, and each upstream page its
own), the clock runs, and clients go on asking: only a caller starts a read.

## What the violated runs show

* `erased` (`store.go:1023`): the upsert keeps reason and observation time of the
  decision that ends last, so a newer, shorter one leaves no trace and an older
  success removes both.  A comment at `store.go:1032` and `docs/architecture.md:177`
  say it cannot.
* `misplaced` (`store.go:930`): `UpdateTokens` goes by row id, so a refresh in flight
  during an import that replaces the row's identity writes the old identity's tokens
  under the new one.  `ReauthorizeAccount` guards against the same race.
* `recent` (`metrics.go:259`): the ring is in the order calls ended, its records carry
  the time they began, and the summary stops at the first that began before the
  window.  A long call that ends hides the calls of the window that ended before it.
* `poisoned` (`manager.go:184`): an event of a deleted account fails its foreign key,
  the batch of all accounts is merged back and fails again, for ever.

Seen while modelling, without a run of their own:

* a second concurrent first call of a session may get a local 429 after a retryable
  failure of its account although there is room elsewhere: the other call still pins
  the session's provisional slot;
* `Store.Bind` may pin a compatible conversation to an account that was moved into the
  official pool while the call ran; the fence is applied again at the next lookup;
* a 429 observed before a success and written after its recovery puts the row back;
  the next success removes it;
* a refused answer whose JSON body cannot be adapted returns before it is recorded
  (`server.go:684-693`), while `refusal_billing.go:119` keeps account consumption
  authentic;
* a login writes the account with a direct exit first and the chosen one after
  (`admin.go:743-758`): requests in between leave directly, and a failure in between
  leaves the account so;
* a clear whose transaction fails has dropped what was pending (`manager.go:265`);
* a handler that outlasts the ten seconds of `Shutdown` loses what it would record;
* pending usage is keyed by row id, and is written under the next import with that id;
* a refusal that arrives after its block ended counts as a second strike although its
  call was upstream together with the first;
* `README.md:51-52` lets the escalation history expire a day after the last cooldown
  began.  A refusal that joins a running, longer cooldown rewrites the retention from
  that cooldown's own start, so the day is exact up to the difference of the two
  durations (fifty minutes).  `EscalationRemembered` is stated with that difference.

## Proofs

The theorems hold for all values of the constants that the `ASSUME`s of the module
allow (those of `Admission` ask for finite sets of calls, accounts and sessions).  Those
of a module are proved from one inductive invariant `IInv`, whose preservation has one
step for each action.

* `AdmissionProofs`: `IInv == TypeOK /\ ControlOK /\ SlotsMatchHolders /\
  SessionsMatchHolders /\ HoldersWithinLimit`.  The counts are cardinalities of sets
  of calls, which change by one member a step; `ControlOK` says where a call can hold
  anything and that the limit a call loaded is not above `peak`.  From it follow the
  refinement of `SlotPool` and `NothingHeldWhenIdle`.  Every action is shown to be one
  of a few kinds of step on slots and sessions first (`SlotStep`, `SessionStep`), so
  the counting is done once for each kind.  Two more invariants stand beside it.  `Room`
  bounds the sessions a new one is compared with, `Counted`; it counts a provisional
  session even if its binding had been let back in uncounted, because such a session
  counts again once it idles, and no step but a new session adds to `Counted`.
  `Choice`, of one call, ties the accounts it may still choose to its place in the code:
  it gives `FailoverIsBounded` and `FenceHolds`.  The theorems are about `Spec`;
  `LegacyStartIsAsSafe` states them all for the instances that begin with the other policy.
* `TokenRefreshProofs`: `IInv == TypeOK /\ LocksHeld /\ Chain /\ RowsHoldLivePairs /\
  NoTokenReplayed`.  `Chain` says that rows, goroutines between read and write, and
  received answers hold different pairs; without it a second holder of a pair could
  consume it first.  For `LoginKeepsIdentity`, `Logins` adds that a login's pair is of the
  identity its row was read with: only the login's own write can put that pair into the
  row, and the write compares the identity again.
* `LedgerAndCatalogProofs`, of the ledger: `IInv == TypeOK /\ Detached /\ Entries /\ Pairs
  /\ Stopping`.  `Entry(k, c)` follows one call in one ledger through pending, detached
  and written; a clear is final because nothing is detached while it runs.
* `LedgerAndCatalogProofs`, of the catalogue: `CatalogInv` joins the types with `Cached`,
  `Reading` and `Waiting`.  Everything cached, read so far or got by a walk is a `ListOf`
  models, newest first (`NewestIsList`: of any models there is one, because no two have
  equally many newer ones).  `Walk` says what a walk that goes on has: every model that
  all its lists had between its beginning and the edge of what it got.  A page is cut
  right at that edge (`OlderPage`, `NewerPage`), so it can be joined to the rest (`Join`)
  and leaves no gap, whatever list it is cut from.  A call that looks again finds a list
  or an error because only a read that brings a list takes the error back.
* `RefusalCooldownProofs`, of the cooldown: `IInv == TypeOK /\ BlocksHold /\ Owned /\ Kept`.
  `Kept` ties the row of a remembered cooldown to when it began, which is what makes the
  next one a second strike.
* `RefusalCooldownProofs`, of a response: `ResponseInv == TypeOK /\ Course /\ Billing /\
  Tracks /\ UsageIsLastOfEach /\ BilledOnce` and that `seen` holds the fields that were
  told.  `Tracks` says which counts of what the adapter has absorbed are still exactly
  what upstream sent last, though what it passes on was scaled: this is the basis the next
  event is scaled from, and why no count is scaled twice.
* `PartsProofs`, of the cooldowns: `IInv == TypeOK /\ RowIsLongestDecision /\ LongestTie /\
  Recoverable /\ WorkCurable`.  A merge keeps the later end, so the remembered decisions of
  a scope all end together; a row is curable because what a call is about to write is.
* `PartsProofs`, of the exits: `ExitsInv == TypeOK /\ CarriesItsExit /\ LoginIsPending /\
  UsesItsExit`.  What a request carries, and what it may be given again when its exit is
  looked up, are exits its row has had since it was chosen.
* `PartsProofs`, of the traffic: `TrafficInv` says that a group, those who took a part of
  it and the log together hold exactly the attempts counted in it (`Balanced`), and that
  the groups stay within their limit.  The sum over those who flush at the same time
  changes in one place a step (`Total`).
* `PartsProofs`, of the windows: `WindowsInv == TypeOK /\ Unmigrated /\ OneWindowPerEnd /\
  StraysAreNear`, of each end `WindowHolds`, of each event `Queued`.  A window `Tells` of
  what it sums up: bounds all of it keeps and one of it reaches.  `Queued` ties an event
  in memory that is on record already to what it reported: the same reading, filed next
  to the reported end.  So a repeated write `Fits`: it meets the event's own window, or
  one on record on the other side of the reported end, because windows on record are not
  neighbours.  `Merges` makes the windows of a chain one; before the migration nothing is
  in memory or astray (`Unmigrated`).
* `UsageResetProofs`: `IInv == TypeOK /\ OfRecord /\ Memory /\ FirstClaim /\ Told /\
  Closed /\ Open`.  A claim is made under its operation's record; upstream remembers a
  spent id while a claim may reach it with that id; a handler that found no record is
  the only one that ever claimed, which is why a refusal it is told is the truth.
* `SamplesProofs`: `IInv == TypeOK /\ Loaded /\ Asked /\ LiveIsNewest`.  What a swap is
  to store is newer than what it loaded, so a swap that succeeds moves the live reading
  forward and one that is given up was not newer than what it met.
* `ToolNamesProofs`: `IInv == Tables /\ Reserving /\ Prefixing /\ Shortening /\
  Restorable`.  Each pass has built its part of the final table: the second decides by
  the declared names alone, the third has served the smaller exceptional names and no
  others, whatever the order of the tools.

Sums, least and greatest members of a finite set are proved about by induction over its
subsets (`SubsetInduction`), which is the library's theorem that a well-founded relation
has minimal elements, applied to the strict subsets of a finite set: no operator is taken
as a parameter.

A composition takes from a part what the part has.  A step of `PartsSpec` is a step of one
part, so what an invariant of the part needs of `Init` and of a step is all that is used;
`CompositionIsALedger` and `CompositionIsACooldown` say outright that a behaviour of the
composition is one of `Ledger`, of `RefusalCooldown`, and `PartsKeepRows` that the rows of
`MCParts` are those of `Cooldowns`.  `UsageReset`, `Samples` and `ToolNames` are proved in
modules of their own, whose invariants `PartsProofs` uses through `INSTANCE`.

What is assumed of the constants:

* `None`, `Absent` and `Null` are none of the values they stand beside (`ResetConstants`,
  `SampleConstants`, `ToolConstants`, `WindowConstants`, `ExitConstants`,
  `ResponseConstants`); the login is not one of the requests;
* bounds are natural numbers, and the clock of the samples, a page of models, the models,
  the pages of a read and the ring are not empty (`SampleConstants`, `CatalogConstants`,
  `TrafficConstants`);
* events, ends, attempts and groups are finitely many (`WindowConstants`,
  `TrafficConstants`); ends and times are not 0, which stands for none;
* counts and multipliers are numbers, and there is a largest multiplier, which bounds a
  bill (`ResponseConstants`); names that may change are numbers, which stand for their
  order, and are none of those that may not (`ToolConstants`).

TLC evaluates each of them in a run of the module that states it.

`HoldersWithinLimit`, `NothingHeldWhenIdle` and `OneRefreshPerRow` are stated by
theorems alone (`LimitsHold`, `NothingLeaks`, `RefreshesExclude`).

Every invariant and every action property that a run checks is a theorem.  Only
model-checked: all liveness (`CallsEnd`, `WaitersReturn`, `WrittenEventually`,
`ModelsServed`), which needs fairness and `ENABLED` and is out of the prover's reach, and
the four formulas a run shows violated.

## Not modelled

Parsing, rendering, logging, prices and the web UI keep no state that outlives a call.
The transport, TLS and SQLite itself are taken as they are documented.  Of the
transformation of requests and responses, the tool names are modelled; the rest
rewrites one call.  The official version policy and the settings are one console call
at a time: validate, save, publish under one mutex, so no step of another actor comes
between.  The table of pending logins is modelled with one login.  Of `UsageReset`, the
test of a card's fields (`resetGrantBlocker`), the page that lists cards and the
refresh of the samples after a reset are left out.

## Plan

1. Done: all modules above, and the proofs of every invariant and action property their
   runs check.
2. Ledgers keyed by identity beside those keyed by row id, to state what a row id that
   is given out again does to pending usage.
3. An abstract catalogue (a client gets what all lists of its walk had), which
   `ModelCatalog` implements, and the same for the ledger (a call is counted once).
