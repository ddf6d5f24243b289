--------------------------- MODULE RefusalCooldown ---------------------------
(***************************************************************************)
(* The local block of a conversation that upstream refused.                *)
(*                                                                         *)
(* A Messages call is turned away while a row of its session, or of any    *)
(* prefix of its conversation, is cooling.  A refusal is recorded after    *)
(* its answer was passed on, in one transaction, for the session and the   *)
(* whole conversation: ten minutes at first, an hour from the second time  *)
(* on, remembered for a day.  Calls that were upstream together record     *)
(* their refusals one after the other, each with its own clock reading.    *)
(***************************************************************************)
EXTENDS Integers, Sequences, SequencesExt

CONSTANTS
  Call,          \* concurrent calls of forward
  SessionId,     \* explicit sessions, with their ingress
  Block,         \* content blocks with their role, the first one with its system and tools
  Conversation,  \* what callers send; an open one ends in an empty message of another role
  None,          \* no session, no row, no time
  Short, Long,   \* duration of a first and of a later cooldown
  Retain,        \* how long a cooldown is remembered
  MaxTime        \* bound of the clock

ASSUME RefusalConstants ==
  /\ Conversation \subseteq [session : SessionId \cup {None}, blocks : Seq(Block), open : BOOLEAN]
  /\ None \notin Conversation
  /\ None \notin SessionId
  /\ Short \in Nat \ {0} /\ Long \in Nat /\ Retain \in Nat /\ MaxTime \in Nat
  /\ Short <= Long /\ Long <= Retain

VARIABLES
  now,       \* the wall clock
  rows,      \* refusal_cooldowns, by fingerprint
  pc, conv,  \* a call's progress and what it sent
  observed,  \* refusalObservedAt
  \* observation only
  refused,   \* conversations upstream refused
  blocked,   \* the latest end of a block recorded for a fingerprint
  began      \* when the last cooldown written to a fingerprint's row began

calls == <<pc, conv, observed>>
history == <<refused, blocked, began>>
vars == <<now, rows, calls, history>>
-----------------------------------------------------------------------------
\* The digests are one-to-one: a fingerprint is what it is a digest of.
Session(v) == IF v.session = None THEN {} ELSE {<<"session", v.session>>}
Chain(p) == <<"chain", p>>

\* refusalFingerprints.lookup and .record
Lookup(v) == Session(v) \cup {Chain(p) : p \in Prefixes(v.blocks) \ {<<>>}}
\* The role of an empty message goes into the digest that is recorded, after the last
\* one that is looked up.
Whole(v) == IF v.open THEN <<"open", v.blocks>> ELSE Chain(v.blocks)
Record(v) == Session(v) \cup (IF v.blocks = <<>> THEN {} ELSE {Whole(v)})

LookedUp == UNION {Lookup(v) : v \in Conversation}
Fingerprint == LookedUp \cup UNION {Record(v) : v \in Conversation}
Row == [strikes : 1..2, until : Nat, retain : Nat]
ASSUME NoneIsNoValue == None \notin Row /\ None \notin Nat

\* Rows that a reader with this clock still sees.
Live(keys, t) == {f \in keys : rows[f] # None /\ rows[f].retain > t}
Cooling(v, t) == \E f \in Live(Lookup(v), t) : rows[f].until > t

\* The row readRefusalCooldown returns: the last to end, then the most strikes.
Standing(keys, t) ==
  {rows[f] : f \in {g \in Live(keys, t) : \A h \in Live(keys, t) :
     \/ rows[h].until < rows[g].until
     \/ rows[h].until = rows[g].until /\ rows[h].strikes <= rows[g].strikes}}

\* Faulty variants, marked so, are no part of the specification: each is the
\* definition after it as a plausible defect would have it.
\* Faulty: the strikes go on counting.
CooldownUncapped(strikes, t) ==
  [strikes |-> strikes, until |-> t + (IF strikes >= 2 THEN Long ELSE Short), retain |-> t + Retain]

Cooldown(strikes, t) ==
  [strikes |-> IF strikes >= 2 THEN 2 ELSE strikes,
   until   |-> t + (IF strikes >= 2 THEN Long ELSE Short),
   retain  |-> t + Retain]

\* Faulty: every refusal begins a new cooldown.
AfterEscalating(keys, t) ==
  {Cooldown(r.strikes + 1, t) : r \in Standing(keys, t)}
    \cup (IF Live(keys, t) = {} THEN {Cooldown(1, t)} ELSE {})

\* Faulty: what the rows say is not looked at.
AfterUnread(keys, t) == {Cooldown(1, t)}

\* A refusal during a cooldown joins it; otherwise a new one begins.
After(keys, t) ==
  {IF r.until > t THEN r ELSE Cooldown(r.strikes + 1, t) : r \in Standing(keys, t)}
    \cup (IF Live(keys, t) = {} THEN {Cooldown(1, t)} ELSE {})

Pruned(t) == [f \in Fingerprint |-> IF rows[f] # None /\ rows[f].retain <= t THEN None ELSE rows[f]]

\* Faulty: every prefix gets a row of its own.
WrittenToPrefixes(v, t) == Lookup(v)

\* Ancestors that have a row are updated; only the session and the whole
\* conversation are inserted.
Written(v, t) == {f \in Lookup(v) : Pruned(t)[f] # None} \cup Record(v)

TypeOK ==
  /\ now \in Nat
  /\ rows \in [Fingerprint -> Row \cup {None}]
  /\ pc \in [Call -> {"idle", "upstream", "refused"}]
  /\ conv \in [Call -> Conversation \cup {None}]
  /\ observed \in [Call -> Nat]
  /\ refused \subseteq Conversation
  /\ blocked \in [Fingerprint -> Nat] /\ began \in [Fingerprint -> Nat \cup {None}]
  /\ \A c \in Call : /\ observed[c] <= now
                     /\ pc[c] # "idle" => conv[c] # None
  /\ \A f \in Fingerprint : rows[f] # None =>
       /\ rows[f].until + (Retain - Long) <= rows[f].retain
       /\ rows[f].until <= now + Long

Init ==
  /\ now = 0
  /\ rows = [f \in Fingerprint |-> None]
  /\ pc = [c \in Call |-> "idle"] /\ conv = [c \in Call |-> None]
  /\ observed = [c \in Call |-> 0]
  /\ refused = {}
  /\ blocked = [f \in Fingerprint |-> 0] /\ began = [f \in Fingerprint |-> None]
-----------------------------------------------------------------------------
End(c) ==
  /\ pc' = [pc EXCEPT ![c] = "idle"]
  /\ conv' = [conv EXCEPT ![c] = None]
  /\ observed' = [observed EXCEPT ![c] = 0]

\* The check let the call through; it is forwarded.
Forward(c) ==
  /\ pc[c] = "idle"
  /\ \E v \in Conversation :
       /\ ~Cooling(v, now)
       /\ conv' = [conv EXCEPT ![c] = v]
  /\ pc' = [pc EXCEPT ![c] = "upstream"]
  /\ UNCHANGED <<now, rows, observed, history>>

\* An answer without a refusal, or none at all.
Answer(c) ==
  /\ pc[c] = "upstream"
  /\ End(c)
  /\ UNCHANGED <<now, rows, history>>

Refuse(c) ==
  /\ pc[c] = "upstream"
  /\ observed' = [observed EXCEPT ![c] = now]
  /\ pc' = [pc EXCEPT ![c] = "refused"]
  /\ refused' = refused \cup {conv[c]}
  /\ UNCHANGED <<now, rows, conv, blocked, began>>

RecordRefusalCooldown(c) ==
  /\ pc[c] = "refused" /\ Record(conv[c]) # {}
  /\ LET v == conv[c]  t == observed[c]  keys == Written(v, t) IN
     \E state \in After(Lookup(v), t) :
       /\ rows' = [f \in Fingerprint |-> IF f \in keys THEN state ELSE Pruned(t)[f]]
       /\ blocked' = [f \in Fingerprint |->
                        IF f \in keys /\ state.until > blocked[f] THEN state.until ELSE blocked[f]]
       /\ began' = [f \in Fingerprint |->
                      IF f \in keys /\ ~Cooling(v, t) THEN t ELSE began[f]]
  /\ End(c)
  /\ UNCHANGED <<now, refused>>

\* Nothing to record, or the write failed; the answer was sent before.
RecordFails(c) ==
  /\ pc[c] = "refused"
  /\ End(c)
  /\ UNCHANGED <<now, rows, history>>

\* Faulty: the startup deletes every row whose cooldown is over.
RestartForgetting ==
  /\ rows' = [f \in Fingerprint |-> IF rows[f] # None /\ rows[f].until <= now THEN None ELSE rows[f]]
  /\ pc' = [c \in Call |-> "idle"] /\ conv' = [c \in Call |-> None]
  /\ observed' = [c \in Call |-> 0]
  /\ UNCHANGED <<now, history>>

\* The process dies; its startup deletes the rows that are no longer remembered.
Restart ==
  /\ rows' = Pruned(now)
  /\ pc' = [c \in Call |-> "idle"] /\ conv' = [c \in Call |-> None]
  /\ observed' = [c \in Call |-> 0]
  /\ UNCHANGED <<now, history>>

Tick ==
  /\ now < MaxTime
  /\ now' = now + 1
  /\ UNCHANGED <<rows, calls, history>>

Next ==
  \/ \E c \in Call : \/ Forward(c) \/ Answer(c) \/ Refuse(c)
                     \/ RecordRefusalCooldown(c) \/ RecordFails(c)
  \/ Restart \/ Tick
Spec == Init /\ [][Next]_vars
-----------------------------------------------------------------------------
(* Properties.                                                              *)

\* A block recorded for a fingerprint that calls look up holds to its end: whatever
\* refusals of other calls are recorded meanwhile, in whatever order, and whatever
\* restarts happen, no later record shortens it and no call with that fingerprint gets
\* through (refusal_cooldown.go: the longest row is taken and written to all).  A
\* conversation that ends in an empty message is not blocked by its own refusal, unless it
\* has a session: its fingerprint is recorded and never looked up.
BlocksHold ==
  \A f \in LookedUp : blocked[f] > now => rows[f] # None /\ rows[f].until >= blocked[f]

\* Only a conversation that continues a refused one, or a session in which one was
\* refused, can be turned away; an earlier, harmless exchange they share with others
\* is not blocked (refusal_cooldown.go, RecordRefusalCooldown).
OnlyRefusedBlock ==
  \A v \in Conversation : Cooling(v, now) =>
    \E w \in refused : \/ w.session = v.session /\ w.session # None
                       \/ /\ w.blocks # <<>> /\ w.blocks \in Prefixes(v.blocks)
                          /\ ~w.open

\* Another refusal within a day, less the difference of the two durations, of the
\* cooldown that last began for one of its fingerprints never counts as a first one.
\* The difference is what a refusal that joins an older, longer cooldown gives up.
Remembered(f) == began[f] # None /\ now < began[f] + Retain - (Long - Short)
EscalationRemembered ==
  [][\A c \in Call : RecordRefusalCooldown(c) /\ ~Cooling(conv[c], observed[c]) =>
       \A f \in Record(conv[c]) :
         rows'[f].strikes = 1 => \A g \in Lookup(conv[c]) : ~Remembered(g)]_vars

\* An answer that was under way when a block was recorded joins it: while any row of a
\* refused call is cooling, its record makes no row last longer or weigh more.
Joined(c) == pc[c] = "refused" /\ pc'[c] = "idle" /\ Cooling(conv[c], observed[c])
RefusalsJoin ==
  [][\A c \in Call : Joined(c) => \A f \in Fingerprint : rows'[f] # None =>
       \E g \in Fingerprint : /\ rows[g] # None
                              /\ rows'[f].until <= rows[g].until
                              /\ rows'[f].strikes <= rows[g].strikes]_vars
=============================================================================
