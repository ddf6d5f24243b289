---------------------------- MODULE ToolNames ----------------------------
(***************************************************************************)
(* Tool-name adaptation of one call: internal/proxy/tool_names.go gives    *)
(* every third-party tool the client declares an MCP-shaped name before    *)
(* the request goes upstream, and tool_name_response.go gives the names of *)
(* the answer back.  The aliases are handed out in three passes over the   *)
(* declared tools; a tool_use block of the answer, streamed or not, is     *)
(* restored through the map those passes left.                             *)
(*                                                                         *)
(* A name is a natural number, so that the order of the numbers is the     *)
(* order of the strings that sort.Strings sorts by.  The two ways of       *)
(* making an alias are functions: prefixed[n] is mcp__n, or None when that *)
(* is too long, and hashed[n][k] is the k-th shortened name with the hash  *)
(* of n.  Which of these names coincide with one another, or with names    *)
(* that the client declares, is left open: any choice is a hash or a       *)
(* client that makes it so.                                                *)
(***************************************************************************)
EXTENDS Naturals, Sequences, FiniteSets

CONSTANTS Custom,    \* names the pass may change: custom tools, valid names
          Fixed,     \* names it leaves alone: server tools, mcp__ names
          Aliases,   \* what mcp__ and the hash can produce
          Attempts,  \* how many shortened names of one name are told apart
          MaxTools,  \* bound: how many tools a call declares
          None

VARIABLES prefixed,  \* [Custom -> Aliases \cup {None}]
          hashed,    \* [Custom -> [0..Attempts-1 -> Aliases]]
          tools,     \* the declared names, in the request's order
          phase,     \* "reserve", "plain", "shorten", "sent", "refused", "told"
          next,      \* the position of the loop that runs
          used,      \* names an alias may not take
          aliased,   \* names that need a shortened alias
          renamed,   \* [Custom -> Aliases \cup {None}]: the map of the request
          answer     \* <<the tool the answer calls, the name the client reads>>

vars == <<prefixed, hashed, tools, phase, next, used, aliased, renamed, answer>>

Names == Custom \cup Fixed
Declared == {tools[i] : i \in DOMAIN tools}

(* mcp__ is put before the name, so two names never share a prefixed name, *)
(* and the suffix ends in the attempt, so one name's attempts differ.      *)
Spellings ==
  /\ prefixed \in [Custom -> Aliases \cup {None}]
  /\ \A m, n \in Custom : prefixed[m] = prefixed[n] => m = n \/ prefixed[m] = None
  /\ hashed \in [Custom -> [0 .. Attempts - 1 -> Aliases]]
  /\ \A n \in Custom : \A j, k \in 0 .. Attempts - 1 :
        hashed[n][j] = hashed[n][k] => j = k

Init ==
  /\ Spellings
  /\ tools \in UNION {[1 .. n -> Names] : n \in 1 .. MaxTools}
  /\ phase = "reserve" /\ next = 1
  /\ used = {} /\ aliased = {}
  /\ renamed = [n \in Custom |-> None]
  /\ answer = None

\* Faulty: declared names are not reserved.
NothingReserved ==
  /\ phase = "reserve" /\ next \in DOMAIN tools
  /\ next' = next + 1
  /\ UNCHANGED <<prefixed, hashed, tools, phase, used, aliased, renamed, answer>>

(* The first pass reserves every declared name.  A name declared twice     *)
(* ends the call with an error.                                            *)
Reserve ==
  /\ phase = "reserve" /\ next \in DOMAIN tools
  /\ IF tools[next] \in used
     THEN phase' = "refused" /\ UNCHANGED <<next, used>>
     ELSE /\ used' = used \cup {tools[next]}
          /\ next' = next + 1
          /\ UNCHANGED phase
  /\ UNCHANGED <<prefixed, hashed, tools, aliased, renamed, answer>>

EndOfTools(this, following) ==
  /\ phase = this /\ next \notin DOMAIN tools
  /\ phase' = following /\ next' = 1
  /\ UNCHANGED <<prefixed, hashed, tools, used, aliased, renamed, answer>>

Reserved == EndOfTools("reserve", "plain")
Prefixed == EndOfTools("plain", "shorten")

Skip ==
  /\ phase = "plain" /\ next \in DOMAIN tools /\ tools[next] \in Fixed
  /\ next' = next + 1
  /\ UNCHANGED <<prefixed, hashed, tools, phase, used, aliased, renamed, answer>>

(* What stands in the way of the ordinary target of a name.                *)
Taken(n) == prefixed[n] = None \/ prefixed[n] \in used

(* The second pass, over the custom names in the request's order: the      *)
(* ordinary target, or a place among the exceptional ones.                 *)
Prefix ==
  /\ phase = "plain" /\ next \in DOMAIN tools /\ tools[next] \in Custom
  /\ LET n == tools[next] IN
       IF Taken(n)
       THEN aliased' = aliased \cup {n} /\ UNCHANGED <<renamed, used>>
       ELSE /\ renamed' = [renamed EXCEPT ![n] = prefixed[n]]
            /\ used' = used \cup {prefixed[n]}
            /\ UNCHANGED aliased
  /\ next' = next + 1
  /\ UNCHANGED <<prefixed, hashed, tools, phase, answer>>

FirstFree(n, names) ==
  {k \in 0 .. Attempts - 1 :
     /\ hashed[n][k] \notin names
     /\ \A j \in 0 .. k - 1 : hashed[n][j] \in names}

\* Faulty: the exceptional names are taken in the request's order.
UnsortedTurn(n) ==
  /\ n \in aliased
  /\ \A m \in aliased : \E i, j \in DOMAIN tools :
        i <= j /\ tools[i] = n /\ tools[j] = m

(* The name whose turn it is in the third pass.                            *)
Turn(n) == n \in aliased /\ \A m \in aliased : n <= m

(* The third pass: the exceptional names in their sorted order, each the   *)
(* first of its shortened names that is free.                              *)
Shorten ==
  /\ phase = "shorten"
  /\ \E n \in aliased : \E k \in FirstFree(n, used) :
        /\ Turn(n)
        /\ renamed' = [renamed EXCEPT ![n] = hashed[n][k]]
        /\ used' = used \cup {hashed[n][k]}
        /\ aliased' = aliased \ {n}
  /\ UNCHANGED <<prefixed, hashed, tools, phase, next, answer>>

Send ==
  /\ phase = "shorten" /\ aliased = {}
  /\ phase' = "sent"
  /\ UNCHANGED <<prefixed, hashed, tools, next, used, aliased, renamed, answer>>

(* The name a declared tool, a tool_choice or an earlier tool_use goes     *)
(* upstream under.                                                         *)
Rename(n) == IF n \in Custom /\ renamed[n] # None THEN renamed[n] ELSE n

(* The names a name of the answer may be given back as: the map holds one  *)
(* original per alias, the last that was written.                          *)
Restored(a) ==
  LET originals == {n \in Custom : renamed[n] = a}
  IN  IF originals = {} THEN {a} ELSE originals

Answer ==
  /\ phase = "sent"
  /\ \E n \in Declared : \E m \in Restored(Rename(n)) : answer' = <<n, m>>
  /\ phase' = "told"
  /\ UNCHANGED <<prefixed, hashed, tools, next, used, aliased, renamed>>

Next == Reserve \/ Reserved \/ Skip \/ Prefix \/ Prefixed \/ Shorten \/ Send \/ Answer

Spec == Init /\ [][Next]_vars

---------------------------------------------------------------------------

(* Every variable has its type.                                            *)
TypeOK ==
  /\ Spellings
  /\ tools \in Seq(Names) /\ Len(tools) \in 1 .. MaxTools
  /\ phase \in {"reserve", "plain", "shorten", "sent", "refused", "told"}
  /\ next \in 1 .. MaxTools + 1
  /\ used \subseteq Names \cup Aliases /\ aliased \subseteq Custom
  /\ renamed \in [Custom -> Aliases \cup {None}]
  /\ answer \in {None} \cup (Names \X (Names \cup Aliases))

(* The client reads the name it declared for the tool the model called,    *)
(* whatever other names it declared and whatever the aliases coincide with.*)
Restorable == phase = "told" => answer[1] = answer[2]

(* The aliases do not depend on the order of the tools: an ordinary name   *)
(* has its prefixed name, and an exceptional one the first of its          *)
(* shortened names that no declared tool, no ordinary alias and no smaller *)
(* exceptional name has.                                                   *)
OrderIndependent ==
  phase \in {"sent", "told"} =>
    LET asked == Declared \cap Custom
        ordinary == {n \in asked : prefixed[n] # None /\ prefixed[n] \notin Declared}
        before(n) == {m \in asked \ ordinary : m < n}
        reserved == Declared \cup {prefixed[m] : m \in ordinary}
    IN /\ \A n \in ordinary : renamed[n] = prefixed[n]
       /\ \A n \in asked \ ordinary :
            \E k \in FirstFree(n, reserved \cup {renamed[m] : m \in before(n)}) :
              renamed[n] = hashed[n][k]

(* What prompt caches and clients need of an alias.  A client may declare  *)
(* a name that looks like an alias, and two names may compete for one      *)
(* (tool_names.go, experimentalToolAliases).                               *)
AliasesHold == Restorable /\ OrderIndependent

===========================================================================
