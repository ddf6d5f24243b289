---------------------------- MODULE TokenRefresh ----------------------------
(***************************************************************************)
(* OAuth refresh of the relay's accounts: tokenManager, its per-row locks, *)
(* the token columns of the accounts table and the console calls that      *)
(* write them.                                                             *)
(*                                                                         *)
(* Upstream gives out token pairs; a refresh presents the refresh token of *)
(* the current pair and receives the next one, which normally consumes the *)
(* old pair.  A relay goroutine reads the row, calls upstream and writes   *)
(* the row in three steps under a mutex of the row's id, while imports,    *)
(* deletions and activation do not take that mutex.                        *)
(***************************************************************************)
EXTENDS Integers, FiniteSets

CONSTANTS
  Caller,    \* goroutines that may refresh: forwarded calls and console calls
  RowId,     \* ids of accounts rows
  Identity,  \* Anthropic accounts, account_uuid
  Pair,      \* token pairs upstream may ever give out
  None       \* no row, no identity, no pair, no goroutine

ASSUME RefreshConstants ==
  /\ RowId \subseteq Nat \ {0} /\ IsFiniteSet(RowId)
  /\ None \notin RowId \cup Identity \cup Pair \cup Caller

VARIABLES
  \* accounts table
  uuid,      \* identity of a row, None if there is no row
  pair,      \* its access and refresh token
  enabled,   \* the enabled rows
  \* upstream and the clock
  issuedTo,  \* the identity a pair was given out to, None before that
  consumed,  \* pairs whose refresh token was used up
  due,       \* pairs within refreshLeadTime of their expiry, or without one
  \* relay process
  lock,      \* tokenManager.locks
  pc, kind, target, held, who, got,   \* one goroutine each
  \* observation only
  lost       \* consumed pairs whose successor never reached the table

table == <<uuid, pair, enabled>>
upstream == <<issuedTo, consumed, due>>
callers == <<pc, kind, target, held, who, got>>
vars == <<table, upstream, lock, callers, lost>>
-----------------------------------------------------------------------------
Refreshing(c) == kind[c] # "reauth"
AwaitsWrite(c) == pc[c] = "persist" /\ Refreshing(c)
Issued == {p \in Pair : issuedTo[p] # None}

TypeOK ==
  /\ uuid \in [RowId -> Identity \cup {None}]
  /\ pair \in [RowId -> Pair \cup {None}]
  /\ enabled \in SUBSET RowId
  /\ issuedTo \in [Pair -> Identity \cup {None}]
  /\ consumed \in SUBSET Pair /\ due \in SUBSET Pair /\ lost \in SUBSET Pair
  /\ lock \in [RowId -> Caller \cup {None}]
  /\ pc \in [Caller -> {"idle", "check", "lock", "read", "exchange", "persist"}]
  /\ kind \in [Caller -> {"auto", "manual", "reauth"}]
  /\ target \in [Caller -> RowId \cup {None}]
  /\ held \in [Caller -> Pair \cup {None}]
  /\ who \in [Caller -> Identity \cup {None}]
  /\ got \in [Caller -> Pair \cup {None}]
  /\ \A i \in RowId : (uuid[i] = None <=> pair[i] = None) /\ (uuid[i] = None => i \notin enabled)
  /\ \A c \in Caller : /\ pc[c] = "idle" <=> target[c] = None
                       /\ pc[c] = "persist" <=> got[c] # None
                       /\ pc[c] \in {"check", "exchange", "persist"} => held[c] # None

Init ==
  /\ uuid = [i \in RowId |-> None]
  /\ pair = [i \in RowId |-> None]
  /\ enabled = {}
  /\ issuedTo = [p \in Pair |-> None]
  /\ consumed = {} /\ due = {} /\ lost = {}
  /\ lock = [i \in RowId |-> None]
  /\ pc = [c \in Caller |-> "idle"]
  /\ kind = [c \in Caller |-> "auto"]
  /\ target = [c \in Caller |-> None]
  /\ held = [c \in Caller |-> None]
  /\ who = [c \in Caller |-> None]
  /\ got = [c \in Caller |-> None]
-----------------------------------------------------------------------------
Goto(c, label) == pc' = [pc EXCEPT ![c] = label]

Begin(c, k, i, p, label) ==
  /\ pc[c] = "idle"
  /\ kind' = [kind EXCEPT ![c] = k]
  /\ target' = [target EXCEPT ![c] = i]
  /\ held' = [held EXCEPT ![c] = p]
  /\ Goto(c, label)
  /\ UNCHANGED <<table, upstream, lock, who, got, lost>>

\* Return from the refresh; a deferred unlock comes with it.
Leave(c) ==
  /\ Goto(c, "idle")
  /\ target' = [target EXCEPT ![c] = None]
  /\ held' = [held EXCEPT ![c] = None]
  /\ who' = [who EXCEPT ![c] = None]
  /\ got' = [got EXCEPT ![c] = None]
  /\ UNCHANGED kind

Unlock(c) == lock' = [lock EXCEPT ![target[c]] = None]
End(c) == Leave(c) /\ Unlock(c)

\* forward, account usage, the model catalog and usage resets hand ensureFresh the
\* row they selected.
Select(c) == \E i \in enabled : Begin(c, "auto", i, pair[i], "check")

\* ensureFresh before its lock: a pair with enough lifetime is returned as it is.
\* With automatic refresh off or no refresh token the call ends here as well.
Check(c) ==
  /\ pc[c] = "check"
  /\ \/ held[c] \in due /\ Goto(c, "lock") /\ UNCHANGED <<kind, target, held, who, got>>
     \/ Leave(c)
  /\ UNCHANGED <<table, upstream, lock, lost>>

\* The console's forced refresh of an enabled account.
RefreshNow(c) == \E i \in enabled : Begin(c, "manual", i, None, "lock")

\* A login that StartReauthorization bound to a row id, whatever the row is by now.
Reauthorize(c) == \E i \in RowId : Begin(c, "reauth", i, None, "lock")

Lock(c) ==
  /\ pc[c] = "lock" /\ lock[target[c]] = None
  /\ lock' = [lock EXCEPT ![target[c]] = c]
  /\ Goto(c, "read")
  /\ UNCHANGED <<table, upstream, kind, target, held, who, got, lost>>

\* AccountByID under the lock: the row may have changed while the call waited.
Refreshable(c) ==
  /\ uuid[target[c]] # None
  /\ Refreshing(c) => target[c] \in enabled
  /\ kind[c] = "auto" => pair[target[c]] \in due

\* Faulty variants, marked so, are no part of the specification: each is the
\* definition after it as a plausible defect would have it.
\* Faulty: the pair the call came with is presented, not the one read again.
ReadKeepingSelected(c) ==
  /\ pc[c] = "read"
  /\ \/ /\ Refreshable(c)
        /\ held' = [held EXCEPT ![c] = IF @ = None THEN pair[target[c]] ELSE @]
        /\ who' = [who EXCEPT ![c] = uuid[target[c]]]
        /\ Goto(c, "exchange")
        /\ UNCHANGED <<lock, kind, target, got>>
     \/ End(c)
  /\ UNCHANGED <<table, upstream, lost>>

\* Faulty: the paths that refresh nothing leave the row locked.
ReadLeavingLocked(c) ==
  /\ pc[c] = "read"
  /\ \/ /\ Refreshable(c)
        /\ held' = [held EXCEPT ![c] = pair[target[c]]]
        /\ who' = [who EXCEPT ![c] = uuid[target[c]]]
        /\ Goto(c, "exchange")
        /\ UNCHANGED <<lock, kind, target, got>>
     \/ Leave(c) /\ UNCHANGED lock
  /\ UNCHANGED <<table, upstream, lost>>

\* The row is gone, disabled or fresh already, the read fails, or the pair is held.
Read(c) ==
  /\ pc[c] = "read"
  /\ \/ /\ Refreshable(c)
        /\ held' = [held EXCEPT ![c] = pair[target[c]]]
        /\ who' = [who EXCEPT ![c] = uuid[target[c]]]
        /\ Goto(c, "exchange")
        /\ UNCHANGED <<lock, kind, target, got>>
     \/ End(c)
  /\ UNCHANGED <<table, upstream, lost>>

\* Upstream gives out a pair, consuming the presented one unless it keeps the
\* refresh token.
Rotate(c, p, used) ==
  /\ held[c] \notin consumed
  /\ p \notin Issued /\ used \in {{}, {held[c]}}
  /\ issuedTo' = [issuedTo EXCEPT ![p] = issuedTo[held[c]]]
  /\ consumed' = consumed \cup used
  /\ UNCHANGED due

Refreshed(c) ==
  /\ pc[c] = "exchange" /\ Refreshing(c)
  /\ \E p \in Pair, used \in SUBSET Pair :
       Rotate(c, p, used) /\ got' = [got EXCEPT ![c] = p]
  /\ Goto(c, "persist")
  /\ UNCHANGED <<table, lock, kind, target, held, who, lost>>

\* The answer is lost to a timeout, a broken connection or a caller that left.
ReplyLost(c) ==
  /\ pc[c] = "exchange" /\ Refreshing(c)
  /\ \E p \in Pair, used \in SUBSET Pair : Rotate(c, p, used) /\ lost' = lost \cup used
  /\ End(c)
  /\ UNCHANGED table

\* An error answer, a refused token, or nothing sent.
ExchangeFails(c) ==
  /\ pc[c] = "exchange"
  /\ End(c)
  /\ UNCHANGED <<table, upstream, lost>>

\* The authorization code's pair, for whichever identity logged in.
Login(c) ==
  /\ pc[c] = "exchange" /\ ~Refreshing(c)
  /\ \E u \in Identity, p \in Pair \ Issued :
       /\ issuedTo' = [issuedTo EXCEPT ![p] = u]
       /\ IF u = who[c]
          THEN /\ got' = [got EXCEPT ![c] = p]
               /\ Goto(c, "persist")
               /\ UNCHANGED <<lock, kind, target, held, who>>
          ELSE End(c)
  /\ UNCHANGED <<table, consumed, due, lost>>

\* Faulty: a login goes by the id alone, too.
WritableById(c) == uuid[target[c]] # None
\* Faulty: a refresh does not notice that its row is gone.
WritableUnseen(c) == Refreshing(c) \/ uuid[target[c]] = who[c]

\* The row a pair is written to: a refresh goes by the id alone, a login also by the
\* identity the row was read with.
Writable(c) == uuid[target[c]] # None /\ (Refreshing(c) \/ uuid[target[c]] = who[c])

\* Faulty: the pair is not written to a row disabled by now.
PersistDroppingPair(c) ==
  /\ pc[c] = "persist" /\ Writable(c)
  /\ pair' = IF target[c] \in enabled THEN [pair EXCEPT ![target[c]] = got[c]] ELSE pair
  /\ End(c)
  /\ UNCHANGED <<uuid, enabled, upstream, lost>>

\* Store.UpdateTokens or Store.ReauthorizeAccount.
Persist(c) ==
  /\ pc[c] = "persist" /\ Writable(c)
  /\ pair' = [pair EXCEPT ![target[c]] = got[c]]
  /\ End(c)
  /\ UNCHANGED <<uuid, enabled, upstream, lost>>

\* No row to write, a database error, or the context of a caller that left.
PersistFails(c) ==
  /\ pc[c] = "persist"
  /\ lost' = IF Refreshing(c) THEN lost \cup ({held[c]} \cap consumed) ELSE lost
  /\ End(c)
  /\ UNCHANGED <<table, upstream>>
-----------------------------------------------------------------------------
(* The console, the clock and a crash: none of them takes a row's lock.     *)

relay == <<lock, callers>>

\* A credential document or a first login brings a pair used nowhere else.
Bring(u, i) ==
  /\ \E p \in Pair \ Issued :
       /\ issuedTo' = [issuedTo EXCEPT ![p] = u]
       /\ pair' = [pair EXCEPT ![i] = p]
       /\ due' \in {due, due \cup {p}}
  /\ uuid' = [uuid EXCEPT ![i] = u]
  /\ enabled' = enabled \ {i}
  /\ UNCHANGED <<consumed, relay, lost>>

Rows == {i \in RowId : uuid[i] # None}

\* SQLite gives a new row the id after the largest one in use.
NextId == {i \in RowId \ Rows : (\A j \in Rows : j < i) /\ (i = 1 \/ i - 1 \in Rows)}

\* The row of a known identity is updated; an unknown one takes over the row of its
\* alias, or gets a new row.
ImportAccount(u) ==
  \E i \in RowId :
    /\ IF \E j \in Rows : uuid[j] = u THEN uuid[i] = u ELSE i \in Rows \cup NextId
    /\ Bring(u, i)

DeleteAccount(i) ==
  /\ uuid[i] # None
  /\ uuid' = [uuid EXCEPT ![i] = None]
  /\ pair' = [pair EXCEPT ![i] = None]
  /\ enabled' = enabled \ {i}
  /\ UNCHANGED <<upstream, relay, lost>>

SetAccountEnabled(i) ==
  /\ uuid[i] # None
  /\ enabled' = IF i \in enabled THEN enabled \ {i} ELSE enabled \cup {i}
  /\ UNCHANGED <<uuid, pair, upstream, relay, lost>>

ExpiryNears(i) ==
  /\ uuid[i] # None
  /\ due' = due \cup {pair[i]}
  /\ UNCHANGED <<table, issuedTo, consumed, relay, lost>>

\* The process dies and starts again with no lock held.
Crash ==
  /\ lost' = lost \cup {p \in consumed : \E c \in Caller : AwaitsWrite(c) /\ held[c] = p}
  /\ lock' = [i \in RowId |-> None]
  /\ pc' = [c \in Caller |-> "idle"]
  /\ target' = [c \in Caller |-> None]
  /\ held' = [c \in Caller |-> None]
  /\ who' = [c \in Caller |-> None]
  /\ got' = [c \in Caller |-> None]
  /\ UNCHANGED <<table, upstream, kind>>

Enter(c) == Select(c) \/ RefreshNow(c) \/ Reauthorize(c)
Proceed(c) ==
  \/ Check(c) \/ Read(c) \/ Refreshed(c) \/ ReplyLost(c) \/ ExchangeFails(c) \/ Login(c)
  \/ Persist(c) \/ PersistFails(c)
Operate ==
  \/ \E u \in Identity : ImportAccount(u)
  \/ \E i \in RowId : DeleteAccount(i) \/ SetAccountEnabled(i) \/ ExpiryNears(i)
  \/ Crash

Next == (\E c \in Caller : Enter(c) \/ Lock(c) \/ Proceed(c)) \/ Operate
Spec == Init /\ [][Next]_vars

\* Every step of a goroutine ends, for the OAuth client and the database have
\* deadlines, and a Go mutex is handed to the longest waiter.
FairSpec == Spec /\ \A c \in Caller : WF_vars(Proceed(c)) /\ SF_vars(Lock(c))
-----------------------------------------------------------------------------
(* Properties.                                                              *)

Inside(c) == pc[c] \in {"read", "exchange", "persist"}

\* Two goroutines never read, exchange and write one row's tokens at a time,
\* whatever became of the row in between (token_manager.go, admin.go).
OneRefreshPerRow ==
  \A c, d \in Caller : c # d /\ Inside(c) /\ Inside(d) => target[c] # target[d]

\* A refresh token is used once: what a goroutine is about to present was not
\* consumed before, unless the answer to that earlier refresh never reached the
\* table (token_manager.go: lock, read again, exchange, persist).
NoTokenReplayed ==
  \A c \in Caller : pc[c] = "exchange" /\ Refreshing(c) => held[c] \notin consumed \ lost

\* A row's pair is alive except while its successor is on the way to the table or
\* was lost on that way.
RowsHoldLivePairs ==
  \A i \in Rows : pair[i] \in consumed =>
    \/ pair[i] \in lost
    \/ \E c \in Caller : AwaitsWrite(c) /\ held[c] = pair[i] /\ target[c] = i

\* A login is never written to a row that was deleted, or taken over by another
\* identity, during its exchange (store.go, ReauthorizeAccount).
LoginKeepsIdentity ==
  [][\A c \in Caller : pc[c] = "persist" /\ ~Refreshing(c) /\ pair'[target[c]] = got[c]
       => uuid[target[c]] = issuedTo[got[c]]]_vars

\* A goroutine that waits for a row's lock returns.
WaitersReturn == \A c \in Caller : pc[c] = "lock" ~> pc[c] = "idle"
-----------------------------------------------------------------------------
(* What documents say and the code does not keep.                           *)

\* docs/architecture.md: an account's enabled relay is the owner of that account's
\* refresh-token chain.  A row's pair belongs to the identity of the row.
PairsStayWithIdentity == \A i \in Rows : issuedTo[pair[i]] = uuid[i]
=============================================================================
