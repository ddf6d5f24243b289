---------------------------- MODULE ModelCatalog ----------------------------
(***************************************************************************)
(* The model list of an access policy: cached for an hour, read again by   *)
(* one shared goroutine, and served in pages.                              *)
(*                                                                         *)
(* A call that finds no fresh list starts the read unless one is running   *)
(* or has failed recently.  It answers with the expired list at once, or   *)
(* waits for the read outside the lock and looks again.  The console       *)
(* forces a read.  Upstream releases and withdraws models meanwhile, and   *)
(* clients page through the list over several calls.                       *)
(*                                                                         *)
(* A model is the number of its release: the newest has the largest.       *)
(***************************************************************************)
EXTENDS Integers, SequencesExt

CONSTANTS
  Access,      \* account policies that have a list
  Client,      \* callers of the Models API
  MaxModel,    \* models ever released
  Limit,       \* models to a page, here and upstream
  MaxPages,    \* modelCatalogMaxPages
  MaxChanges,  \* bound: changes of upstream and of the pool
  None

Model == 1..MaxModel
NoModel == 0          \* an empty cursor, and an index that is not there

VARIABLES
  published, usable, trouble, changes,  \* upstream, accounts a policy may use, failures
  entries,   \* cached list, or the empty sequence
  fresh,     \* fetchedAt is within modelCatalogTTL
  failedAt,  \* "none", "recent" or "old"
  lastErr,   \* a read failed and none succeeded since
  inflight,  \* a channel is on record
  read,      \* the goroutine of the read: accounts left and pages so far
  pc, policy, walk, answer  \* a caller, the walk its calls belong to, and its last answer

world == <<published, usable, trouble, changes>>
catalog == <<entries, fresh, failedAt, lastErr, inflight, read>>
clients == <<pc, policy, walk, answer>>
vars == <<world, catalog, clients>>
-----------------------------------------------------------------------------
(* Pages.                                                                   *)

\* The i-th newest of some models has i - 1 newer ones.
Newest ==
  [models \in SUBSET Model |->
     [i \in 1..Cardinality(models) |->
        CHOOSE m \in models : Cardinality({n \in models : n > m}) = i - 1]]

modelIndex(models, id) ==
  IF Contains(models, id) THEN CHOOSE i \in DOMAIN models : models[i] = id ELSE NoModel

Refused(models, after, before) ==
  \E id \in {after, before} \ {NoModel} : ~Contains(models, id)

\* Faulty: a page towards newer models is the newest one.
PageFromTop(models, after, before) ==
  LET start == modelIndex(models, after)
      end == IF before = NoModel THEN Len(models) ELSE modelIndex(models, before) - 1
      more == end - start > Limit
  IN [more |-> more,
      models |-> IF ~more THEN SubSeq(models, start + 1, end)
                 ELSE SubSeq(models, start + 1, start + Limit)]

pageModels(models, after, before) ==
  LET start == modelIndex(models, after)
      end == IF before = NoModel THEN Len(models) ELSE modelIndex(models, before) - 1
      more == end - start > Limit
  IN [more |-> more,
      models |-> IF ~more THEN SubSeq(models, start + 1, end)
                 ELSE IF before # NoModel THEN SubSeq(models, end - Limit + 1, end)
                 ELSE SubSeq(models, start + 1, start + Limit)]
-----------------------------------------------------------------------------
TypeOK ==
  /\ published \subseteq Model /\ usable \in [Access -> 0..2]
  /\ trouble \in BOOLEAN /\ changes \in 0..MaxChanges
  /\ entries \in [Access -> Seq(Model)] /\ fresh \in [Access -> BOOLEAN]
  /\ failedAt \in [Access -> {"none", "recent", "old"}] /\ lastErr \in [Access -> BOOLEAN]
  /\ inflight \in [Access -> BOOLEAN]
  /\ \A a \in Access : read[a] # None =>
       /\ inflight[a]
       /\ read[a].left \in 0..2 /\ read[a].pages \in 0..MaxPages /\ read[a].models \in Seq(Model)
  /\ pc \in [Client -> {"idle", "wait", "again"}] /\ policy \in [Client -> Access]
  /\ \A c \in Client : walk[c] # None =>
       /\ walk[c].to \in {"older", "newer", "one"} /\ walk[c].from \in Model \cup {NoModel}
       /\ walk[c].got \in Seq(Model) /\ walk[c].common \subseteq Model /\ walk[c].more \in BOOLEAN
  /\ answer \in [Client -> {"none", "list", "error", "nothing"}]

Init ==
  /\ published = 1..(MaxModel - 1) /\ usable = [a \in Access |-> 1]
  /\ trouble = FALSE /\ changes = 0
  /\ entries = [a \in Access |-> <<>>] /\ fresh = [a \in Access |-> FALSE]
  /\ failedAt = [a \in Access |-> "none"] /\ lastErr = [a \in Access |-> FALSE]
  /\ inflight = [a \in Access |-> FALSE] /\ read = [a \in Access |-> None]
  /\ pc = [c \in Client |-> "idle"] /\ policy \in [Client -> Access]
  /\ walk = [c \in Client |-> None] /\ answer = [c \in Client |-> "none"]
-----------------------------------------------------------------------------
(* A call.                                                                  *)

\* A client wants the list from the newest model on, the models newer than one it
\* knows, or one model.
Begin(c) ==
  /\ pc[c] = "idle" /\ (walk[c] # None => ~walk[c].more)
  /\ \E to \in {"older", "newer", "one"}, id \in Model :
       walk' = [walk EXCEPT ![c] = [to |-> to, from |-> IF to = "older" THEN NoModel ELSE id,
                                    got |-> <<>>, common |-> Model, more |-> TRUE]]
  /\ UNCHANGED <<world, catalog, pc, policy, answer>>

\* The list a call is served is cut to the page at the edge of what the walk has got;
\* a cursor the list no longer holds is refused.
Serve(c, models) ==
  LET w == walk[c]
      edge == IF w.got = <<>> THEN w.from ELSE IF w.to = "newer" THEN Head(w.got) ELSE Last(w.got)
      after == IF w.to = "older" THEN edge ELSE NoModel
      before == IF w.to = "newer" THEN edge ELSE NoModel
      page == pageModels(models, after, before)
      got == CASE w.to = "older" -> w.got \o page.models
               [] w.to = "newer" -> page.models \o w.got
               [] w.to = "one" -> IF modelIndex(models, w.from) = NoModel THEN <<>> ELSE <<w.from>>
  IN /\ answer' = [answer EXCEPT ![c] = IF models = <<>> THEN "nothing" ELSE "list"]
     /\ walk' = [walk EXCEPT ![c] =
          IF Refused(models, after, before) THEN None
          ELSE [w EXCEPT !.got = got, !.common = @ \cap ToSet(models),
                         !.more = w.to # "one" /\ page.more]]
     /\ pc' = [pc EXCEPT ![c] = "idle"]

modelListError(c) ==
  /\ answer' = [answer EXCEPT ![c] = "error"]
  /\ walk' = [walk EXCEPT ![c] = None]
  /\ pc' = [pc EXCEPT ![c] = "idle"]

\* The goroutine when it has n accounts left; with none it has yet to list them.
Asking(n) == [left |-> n, pages |-> 0, models |-> <<>>]

Starts(a) == ~inflight[a] /\ failedAt[a] # "recent"

refreshLocked(a) ==
  /\ inflight' = [inflight EXCEPT ![a] = TRUE]
  /\ read' = [read EXCEPT ![a] = Asking(0)]
  /\ UNCHANGED <<entries, fresh>>

\* list up to its first unlock.
List(c) ==
  LET a == policy[c] IN
  /\ pc[c] = "idle" /\ walk[c] # None /\ walk[c].more
  /\ IF ~fresh[a] /\ Starts(a)
     THEN refreshLocked(a) /\ UNCHANGED <<failedAt, lastErr>>
     ELSE UNCHANGED catalog
  /\ IF entries[a] # <<>> THEN Serve(c, entries[a])
     ELSE /\ pc' = [pc EXCEPT ![c] = IF inflight'[a] THEN "wait" ELSE "again"]
          /\ UNCHANGED <<walk, answer>>
  /\ UNCHANGED <<world, policy>>

\* The timer of a waiting call, or the end of its request.
GiveUp(c) ==
  /\ pc[c] = "wait"
  /\ modelListError(c)
  /\ UNCHANGED <<world, catalog, policy>>

\* The second critical section.
ListAgain(c) ==
  LET a == policy[c] IN
  /\ pc[c] = "again"
  /\ IF entries[a] = <<>> /\ lastErr[a] THEN modelListError(c) ELSE Serve(c, entries[a])
  /\ UNCHANGED <<world, catalog, policy>>

\* Faulty: the console's refresh forgets the last error with the time of the failure.
ForceForgetsError(a) ==
  /\ failedAt' = [failedAt EXCEPT ![a] = "none"]
  /\ lastErr' = [lastErr EXCEPT ![a] = FALSE]
  /\ IF inflight[a] THEN UNCHANGED <<entries, fresh, inflight, read>> ELSE refreshLocked(a)
  /\ UNCHANGED <<world, clients>>

\* What the console then waits for changes nothing.
forceRefresh(a) ==
  /\ failedAt' = [failedAt EXCEPT ![a] = "none"]
  /\ IF inflight[a] THEN UNCHANGED <<entries, fresh, inflight, read>> ELSE refreshLocked(a)
  /\ UNCHANGED <<world, lastErr, clients>>
-----------------------------------------------------------------------------
(* The goroutine.                                                           *)

\* The channel is taken off the record and closed, whatever came of the read.
End(a) ==
  /\ inflight' = [inflight EXCEPT ![a] = FALSE]
  /\ read' = [read EXCEPT ![a] = None]
  /\ pc' = [c \in Client |-> IF pc[c] = "wait" /\ policy[c] = a THEN "again" ELSE pc[c]]
  /\ UNCHANGED <<world, policy, walk, answer>>

StartRead(a) ==
  /\ read' = [read EXCEPT ![a] = Asking(usable[a])]
  /\ UNCHANGED <<world, entries, fresh, failedAt, lastErr, inflight, clients>>

\* Faulty: a read that finds no account leaves its channel on record.
NoAccountLeavesChannel(a) ==
  /\ read[a] # None /\ read[a].left = 0
  /\ IF usable[a] > 0 THEN StartRead(a)
     ELSE /\ lastErr' = [lastErr EXCEPT ![a] = TRUE] /\ read' = [read EXCEPT ![a] = None]
          /\ UNCHANGED <<world, entries, fresh, failedAt, inflight, clients>>

\* At most two accounts are asked; without one nothing reached upstream, and the next
\* call may try again.
fetchModelCatalog(a) ==
  /\ read[a] # None /\ read[a].left = 0
  /\ IF usable[a] > 0 THEN StartRead(a)
     ELSE End(a) /\ lastErr' = [lastErr EXCEPT ![a] = TRUE] /\ UNCHANGED <<entries, fresh, failedAt>>

\* Upstream's pages have the cursors of this program's.
UpstreamPage(models) ==
  pageModels(Newest[published], IF models = <<>> THEN NoModel ELSE Last(models), NoModel)

\* The models of a page not seen on an earlier one; a page is newest first.
Collect(models, page) == models \o Newest[ToSet(page) \ ToSet(models)]

Store(a, models) ==
  /\ entries' = [entries EXCEPT ![a] = models] /\ fresh' = [fresh EXCEPT ![a] = TRUE]
  /\ failedAt' = [failedAt EXCEPT ![a] = "none"] /\ lastErr' = [lastErr EXCEPT ![a] = FALSE]
  /\ End(a)

CursorKnown(models) == models # <<>> => Last(models) \in published

\* One page of readUpstreamModels, and with the last one the end of the read.
readUpstreamModels(a) ==
  /\ read[a] # None /\ read[a].left > 0 /\ published # {} /\ CursorKnown(read[a].models)
  /\ LET page == UpstreamPage(read[a].models)
         models == Collect(read[a].models, page.models)
         pages == read[a].pages + 1 IN
     IF page.more /\ pages < MaxPages
     THEN /\ read' = [read EXCEPT ![a].pages = pages, ![a].models = models]
          /\ UNCHANGED <<world, entries, fresh, failedAt, lastErr, inflight, clients>>
     ELSE Store(a, models)

\* No credentials, no connection, an error status, a body that is too long or no
\* list, or a list of nothing; the next account is asked, or the read has failed.
ReadFails(a) ==
  /\ read[a] # None /\ read[a].left > 0
  /\ trouble \/ published = {} \/ ~CursorKnown(read[a].models)
  /\ IF read[a].left > 1
     THEN /\ read' = [read EXCEPT ![a] = Asking(@.left - 1)]
          /\ UNCHANGED <<world, entries, fresh, failedAt, lastErr, inflight, clients>>
     ELSE /\ End(a)
          /\ failedAt' = [failedAt EXCEPT ![a] = "recent"] /\ lastErr' = [lastErr EXCEPT ![a] = TRUE]
          /\ UNCHANGED <<entries, fresh>>
-----------------------------------------------------------------------------
(* The clock, upstream and the pool.                                        *)

Expire(a) ==
  /\ fresh[a] /\ fresh' = [fresh EXCEPT ![a] = FALSE]
  /\ UNCHANGED <<world, entries, failedAt, lastErr, inflight, read, clients>>

RetryDelayEnds(a) ==
  /\ failedAt[a] = "recent" /\ failedAt' = [failedAt EXCEPT ![a] = "old"]
  /\ UNCHANGED <<world, entries, fresh, lastErr, inflight, read, clients>>

Change ==
  /\ changes < MaxChanges /\ changes' = changes + 1
  /\ \/ \E m \in Model : published' \in {published \cup {m}, published \ {m}} /\ UNCHANGED <<usable, trouble>>
     \/ \E a \in Access, n \in 0..2 : usable' = [usable EXCEPT ![a] = n] /\ UNCHANGED <<published, trouble>>
     \/ trouble' = ~trouble /\ UNCHANGED <<published, usable>>
  /\ UNCHANGED <<catalog, clients>>

Goroutine(a) == fetchModelCatalog(a) \/ readUpstreamModels(a) \/ ReadFails(a)
Answering(c) == Begin(c) \/ List(c) \/ GiveUp(c) \/ ListAgain(c)
Next ==
  \/ \E c \in Client : Answering(c)
  \/ \E a \in Access : forceRefresh(a) \/ Goroutine(a) \/ Expire(a) \/ RetryDelayEnds(a)
  \/ Change

\* The goroutine runs, the clock goes on, and clients keep asking for the list.
Fairness ==
  /\ \A a \in Access : WF_vars(Goroutine(a)) /\ WF_vars(Expire(a)) /\ WF_vars(RetryDelayEnds(a))
  /\ \A c \in Client : WF_vars(Begin(c)) /\ WF_vars(List(c)) /\ WF_vars(ListAgain(c)) /\ WF_vars(GiveUp(c))
Spec == Init /\ [][Next]_vars
FairSpec == Spec /\ Fairness
-----------------------------------------------------------------------------
(* Properties.                                                              *)

\* No call ends with neither a list nor an error, which listModels would turn into a
\* successful answer of no models, whatever the read and the console do between the
\* call's two looks at the catalogue (models.go: modelListError).
NeverEmptyAnswer == \A c \in Client : answer[c] # "nothing"

\* Pages taken from different lists still fit together: a walk gets no model twice and
\* none out of order, and when it ends it has every model on its way that all the
\* lists it was served had (models.go: pageModels over a list that is read again).
Descending(models) == \A i, j \in DOMAIN models : i < j => models[i] > models[j]
Beyond(w) ==
  CASE w.to = "older" -> Model
    [] w.to = "newer" -> {m \in Model : m > w.from}
    [] w.to = "one" -> {w.from}
WalkComplete ==
  \A c \in Client : walk[c] # None =>
    /\ Descending(walk[c].got)
    /\ ~walk[c].more => Beyond(walk[c]) \cap walk[c].common \subseteq ToSet(walk[c].got)

\* Once upstream and some account are well for good, what is served becomes what
\* upstream publishes, whatever failed before (models.go: every ending of the goroutine
\* takes its channel off the record, and only a read that reached upstream is held back).
ModelsServed ==
  \A a \in Access :
    <>[](~trouble /\ usable[a] > 0 /\ published # {}) => <>[](entries[a] = Newest[published])
=============================================================================
