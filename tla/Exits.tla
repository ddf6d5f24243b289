------------------------------- MODULE Exits -------------------------------
(***************************************************************************)
(* The way out of each account: proxy/account_proxy.go, the console's      *)
(* handlers that set, delete, rename and log in accounts, and the rows of  *)
(* store/account_proxy.go.                                                 *)
(*                                                                         *)
(* A request carries the row it was given, exit included, and the          *)
(* transport keeps a connection pool for each row id, with the exit the    *)
(* pool was made for.  Rows change under requests that are on their way,   *)
(* ids and aliases are given to other accounts, and a login has no row     *)
(* before its code is exchanged.  One login is pending at a time.          *)
(***************************************************************************)
EXTENDS Naturals

CONSTANTS
  Call,        \* requests: messages, usage queries, checks, refreshes
  Login,       \* the exchange of an OAuth code, a request of its own
  RowId,       \* ids of rows, given out again after a deletion
  Alias,
  Proxy,       \* custom proxies: address and credentials
  MaxChanges,  \* bound: how often the console changes something
  None

Direct == "direct"
Global == "global"
Exit == {Direct, Global} \cup Proxy
NoRow == 0                      \* the account id of a login
Requester == Call \cup {Login}

VARIABLES
  rows,     \* accounts: [alias, exit] of each id
  pools,    \* accountTransport.accounts: the exit of each id's pool
  pc,       \* a requester's progress
  account,  \* the row a requester carries: [id, exit]
  via,      \* the exit a requester left through
  since,    \* history: the exits its row has had since it was given the row
  session,  \* the pending login: [alias, exit, id]
  edit,     \* the console call in progress
  changes

requesters == <<pc, account, via>>
vars == <<rows, pools, requesters, since, session, edit, changes>>

Named(a) == {i \in RowId : rows[i] # None /\ rows[i].alias = a}
Here(i) == rows[i] # None
Rewritten(a, x) ==
  [i \in RowId |-> IF i \in Named(a) THEN [rows[i] EXCEPT !.exit = x] ELSE rows[i]]
-----------------------------------------------------------------------------
(* Every variable has its type.                                             *)
Carried == [id : RowId \cup {NoRow}, exit : Exit]
TypeOK ==
  /\ rows \in [RowId -> [alias : Alias, exit : Exit] \cup {None}]
  /\ pools \in [RowId -> Exit \cup {None}]
  /\ pc \in [Requester -> {"idle", "chosen", "sent", "authorized", "imported"}]
  /\ account \in [Requester -> Carried \cup {None}]
  /\ via \in [Requester -> Exit \cup {None}]
  /\ since \in [Requester -> SUBSET Exit]
  /\ session \in [alias : Alias, exit : Exit, id : RowId \cup {NoRow}] \cup {None}
  /\ edit \in [id : RowId, alias : Alias, exit : Exit \cup {None}] \cup {None}
  /\ changes \in 0 .. MaxChanges

Init ==
  /\ rows = [i \in RowId |-> None]
  /\ pools = [i \in RowId |-> None]
  /\ pc = [c \in Requester |-> "idle"]
  /\ account = [c \in Requester |-> None] /\ via = [c \in Requester |-> None]
  /\ since = [c \in Requester |-> {}]
  /\ session = None /\ edit = None /\ changes = 0

Goto(c, step) == pc' = [pc EXCEPT ![c] = step]
Carry(c, i, x) == account' = [account EXCEPT ![c] = [id |-> i, exit |-> x]]
Start(c, i, x) ==
  /\ Carry(c, i, x) /\ Goto(c, "chosen")
  /\ since' = [since EXCEPT ![c] = {x}]
End(c) ==
  /\ Goto(c, "idle")
  /\ account' = [account EXCEPT ![c] = None] /\ via' = [via EXCEPT ![c] = None]
  /\ since' = [since EXCEPT ![c] = {}]
Of(c, table) ==
  IF account[c] = None \/ account[c].id = NoRow \/ table[account[c].id] = None
  THEN {} ELSE {table[account[c].id].exit}
Write(table) ==
  /\ rows' = table
  /\ since' = [c \in Requester |-> since[c] \cup Of(c, table)]
Leave == UNCHANGED <<rows, since>>
Changed == changes < MaxChanges /\ changes' = changes + 1
-----------------------------------------------------------------------------
(* Requests.                                                                *)

\* A request is given an account.
Choose(c) ==
  /\ pc[c] = "idle"
  /\ \E i \in RowId : Here(i) /\ Start(c, i, rows[i].exit)
  /\ UNCHANGED <<rows, pools, via, session, edit, changes>>

\* The token manager hands back the row it was given, or the one it read under the
\* account's lock, which may have another exit by now, or the request ends.
Get(c) ==
  /\ pc[c] = "chosen" /\ account[c].id # NoRow
  /\ LET i == account[c].id IN
       IF Here(i) THEN Carry(c, i, rows[i].exit) /\ UNCHANGED <<pc, via, since>>
                  ELSE End(c)
  /\ UNCHANGED <<rows, pools, session, edit, changes>>

\* Faulty: a pool that is there is taken whatever exit it was made for.
PoolOfRow(carried) ==
  IF pools[carried.id] = None THEN carried.exit ELSE pools[carried.id]
\* The exit of the pool a request is given: the one on record, or a new one.
PoolFor(carried) ==
  IF pools[carried.id] = carried.exit THEN pools[carried.id] ELSE carried.exit

\* The transport's lock is held from the look at the pools to the replacement.
RoundTrip(c) ==
  /\ pc[c] = "chosen"
  /\ LET carried == account[c]
         kept == carried.id # NoRow /\ carried.exit # Global
         pool == IF kept THEN PoolFor(carried) ELSE carried.exit
     IN /\ pools' = IF kept THEN [pools EXCEPT ![carried.id] = pool] ELSE pools
        /\ via' = [via EXCEPT ![c] = pool]
  /\ Goto(c, "sent")
  /\ UNCHANGED <<rows, account, since, session, edit, changes>>

Answered(c) ==
  /\ pc[c] = "sent"
  /\ \/ End(c) /\ UNCHANGED session
     \/ c = Login /\ account[c].id # NoRow /\ End(c) /\ session' = None
     \/ /\ c = Login /\ account[c].id = NoRow /\ Goto(c, "authorized")
        /\ UNCHANGED <<account, via, since, session>>
  /\ UNCHANGED <<rows, pools, edit, changes>>
-----------------------------------------------------------------------------
(* Logging in.                                                              *)

\* A new login keeps the exit the operator chose; one for an account its row's id.
startClaudeOAuth ==
  /\ Changed /\ pc[Login] = "idle"
  /\ \/ \E a \in Alias, x \in Exit : session' = [alias |-> a, exit |-> x, id |-> NoRow]
     \/ \E i \in RowId : /\ Here(i)
                         /\ session' = [alias |-> rows[i].alias, exit |-> rows[i].exit, id |-> i]
  /\ UNCHANGED <<rows, pools, requesters, since, edit>>

\* The code is exchanged through the session's exit, or the row's as it is now.
exchangeClaudeOAuth ==
  /\ session # None /\ pc[Login] = "idle"
  /\ \/ session.id = NoRow /\ Start(Login, NoRow, session.exit)
     \/ session.id # NoRow /\ Here(session.id) /\ Start(Login, session.id, rows[session.id].exit)
  /\ UNCHANGED <<rows, pools, via, session, edit, changes>>

\* A row of that alias keeps its exit, a new row has the direct one.
Imported(a) ==
  IF Named(a) # {}
  THEN Leave
  ELSE \E i \in RowId :
         ~Here(i) /\ Write([rows EXCEPT ![i] = [alias |-> a, exit |-> Direct]])

ImportAccount ==
  /\ pc[Login] = "authorized"
  /\ Imported(session.alias)
  /\ Goto(Login, "imported")
  /\ UNCHANGED <<pools, account, via, session, edit, changes>>

\* The session's exit is written by alias; nothing is written when the alias is gone.
PersistExit ==
  /\ pc[Login] = "imported"
  /\ Write(Rewritten(session.alias, session.exit))
  /\ session' = None
  /\ Goto(Login, "idle")
  /\ account' = [account EXCEPT ![Login] = None] /\ via' = [via EXCEPT ![Login] = None]
  /\ UNCHANGED <<pools, edit, changes>>
\* A statement fails, or the operator's connection is gone: what is written stays.
LoginFails ==
  /\ pc[Login] \in {"authorized", "imported"}
  /\ End(Login)
  /\ session' = None
  /\ UNCHANGED <<rows, pools, edit, changes>>

\* After half an hour nobody finds the session any more.
SessionExpires ==
  /\ session # None /\ pc[Login] = "idle"
  /\ session' = None
  /\ UNCHANGED <<rows, pools, requesters, since, edit, changes>>
-----------------------------------------------------------------------------
(* The console.                                                             *)

importAccount ==
  /\ \E a \in Alias : Named(a) = {} /\ Imported(a)
  /\ UNCHANGED <<pools, requesters, session, edit, changes>>

\* setAccountProxy reads the account; an omitted address keeps the custom one it read.
setAccountProxy ==
  /\ edit = None /\ Changed
  /\ \E i \in RowId, x \in Exit :
       /\ Here(i)
       /\ edit' = [id |-> i, alias |-> rows[i].alias, exit |-> x]
  /\ UNCHANGED <<rows, pools, requesters, since, session>>

\* It writes by alias, and gives up when no row has it any more.
SetAccountProxy ==
  /\ edit # None /\ edit.exit # None
  /\ IF Named(edit.alias) = {}
     THEN edit' = None /\ Leave
     ELSE /\ Write(Rewritten(edit.alias, edit.exit))
          /\ edit' = [edit EXCEPT !.exit = None]
  /\ UNCHANGED <<pools, requesters, session, changes>>

deleteAccount ==
  /\ edit = None /\ Changed
  /\ \E i \in RowId :
       /\ Here(i)
       /\ Write([rows EXCEPT ![i] = None])
       /\ edit' = [id |-> i, alias |-> rows[i].alias, exit |-> None]
  /\ UNCHANGED <<pools, requesters, session>>

\* Both end by dropping the pool of the id they read.
forget ==
  /\ edit # None /\ edit.exit = None
  /\ pools' = [pools EXCEPT ![edit.id] = None]
  /\ edit' = None
  /\ UNCHANGED <<rows, requesters, since, session, changes>>

renameAccount ==
  /\ Changed
  /\ \E i \in RowId, a \in Alias :
       /\ Here(i) /\ Named(a) = {}
       /\ Write([rows EXCEPT ![i].alias = a])
  /\ UNCHANGED <<pools, requesters, session, edit>>

Next ==
  \/ \E c \in Call : Choose(c) \/ Get(c)
  \/ \E c \in Requester : RoundTrip(c) \/ Answered(c)
  \/ startClaudeOAuth \/ exchangeClaudeOAuth \/ ImportAccount \/ PersistExit
  \/ LoginFails \/ SessionExpires
  \/ importAccount \/ setAccountProxy \/ SetAccountProxy \/ deleteAccount \/ forget \/ renameAccount
Spec == Init /\ [][Next]_vars
-----------------------------------------------------------------------------
(* Properties.                                                              *)

\* A request leaves through an exit its row has had since it was given the row, and a
\* login through the one chosen for it, whatever became of the row, its id and its pool:
\* what the console was told is set holds for every request after it (account_proxy.go,
\* RoundTrip; a pool is dropped while requests with the old row are still on their way).
UsesItsExit == \A c \in Requester : pc[c] = "sent" => via[c] \in since[c]
=============================================================================
