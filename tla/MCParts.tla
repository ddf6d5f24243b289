------------------------------ MODULE MCParts ------------------------------
(* Instances for TLC of the parts whose properties are safety properties and whose    *)
(* instances are small: the cooldowns of a subscription, its reset cards, five-hour   *)
(* windows, samples and exit, and of a call its traces in the diagnostics and the     *)
(* names of its tools.  They share no state, so a behaviour is one of one     *)
(* part.  Cooldowns is extended, the others are instances; a variable or constant     *)
(* whose name two of them use is renamed for one.                                     *)
EXTENDS Cooldowns, FiniteSets, TLC

CONSTANTS
  Handler, Operation, Subscription, Card,
  Event, ResetTime, Time, Percent,
  Page, Reply, MaxClock, MaxSamplers,
  Outgoing, Login, RowId, Alias, Proxy, MaxChanges,
  Attempt, Ticker, TrafficGroup, MaxGroups, Capacity, Recent, MaxNow,
  Custom, Fixed, Aliases, Attempts, MaxTools,
  None

VARIABLES
  part,
  ops, old, spent, remembered, late, lock, pc, req, found, answer,       \* UsageReset
  version, said, pending, batch, written, events, windows, astray,       \* FiveHourWindows
  clock, usage, mutex, live, entry, reader, force, since, at, sampler, previous,  \* Samples
  accounts, pools, step, account, via, seen, session, edit, changes,     \* Exits
  instant, attempt, started, group, groups, taken, logged, ring, place, filled,  \* Diagnostics
  prefixed, hashed, tools, phase, next, used, aliased, renamed, call     \* ToolNames

resetVars == <<ops, old, spent, remembered, late, lock, pc, req, found, answer>>
windowVars == <<version, said, pending, batch, written, events, windows, astray>>
sampleVars == <<clock, usage, mutex, live, entry, reader, force, since, at, sampler, previous>>
exitVars == <<accounts, pools, step, account, via, seen, session, edit, changes>>
trafficVars == <<instant, attempt, started, group, groups, taken, logged, ring, place, filled>>
toolVars == <<prefixed, hashed, tools, phase, next, used, aliased, renamed, call>>

Reset == INSTANCE UsageReset
Windows == INSTANCE FiveHourWindows WITH Second <- ResetTime
Sample == INSTANCE Samples WITH now <- clock, lock <- mutex, pc <- reader, MaxTime <- MaxClock
Exits == INSTANCE Exits WITH Call <- Outgoing, rows <- accounts, pc <- step, since <- seen
Traffic == INSTANCE Diagnostics
  WITH Call <- Attempt, Group <- TrafficGroup, Window <- Recent, MaxTime <- MaxNow,
       now <- instant, pc <- attempt, batch <- taken, next <- place
Tools == INSTANCE ToolNames WITH answer <- call

\* A part that is not this behaviour's has no state, and no cooldown is on record.
NoCooldowns == Init /\ rows = {}
NoReset ==
  /\ ops = None /\ old = None /\ spent = None /\ remembered = None /\ late = None
  /\ lock = None /\ pc = None /\ req = None /\ found = None /\ answer = None
NoWindows ==
  /\ version = None /\ said = None /\ pending = None /\ batch = None /\ written = None
  /\ events = None /\ windows = None /\ astray = None
NoSamples ==
  /\ clock = None /\ usage = None /\ mutex = None /\ live = None /\ entry = None
  /\ reader = None /\ force = None /\ since = None /\ at = None
  /\ sampler = None /\ previous = None
NoExits ==
  /\ accounts = None /\ pools = None /\ step = None /\ account = None /\ via = None
  /\ seen = None /\ session = None /\ edit = None /\ changes = None
NoTraffic ==
  /\ instant = None /\ attempt = None /\ started = None /\ group = None /\ groups = None
  /\ taken = None /\ logged = None /\ ring = None /\ place = None /\ filled = None
NoTools ==
  /\ prefixed = None /\ hashed = None /\ tools = None /\ phase = None /\ next = None
  /\ used = None /\ aliased = None /\ renamed = None /\ call = None

\* What all parts but one leave as it is, and how that one begins and goes on.
Others(name) ==
  /\ name # "cooldowns" => NoCooldowns
  /\ name # "reset" => NoReset
  /\ name # "windows" => NoWindows
  /\ name # "samples" => NoSamples
  /\ name # "exits" => NoExits
  /\ name # "traffic" => NoTraffic
  /\ name # "tools" => NoTools
AnyPart ==
  /\ part \in {"cooldowns", "reset", "windows", "samples", "exits", "traffic", "tools"}
  /\ Others(part)
  /\ part = "cooldowns" => Init
  /\ part = "reset" => Reset!Init
  /\ part = "windows" => Windows!Init
  /\ part = "samples" => Sample!Init
  /\ part = "exits" => Exits!Init
  /\ part = "traffic" => Traffic!Init
  /\ part = "tools" => Tools!Init
OnePart ==
  /\ UNCHANGED part
  /\ IF part = "cooldowns" THEN Next ELSE UNCHANGED vars
  /\ IF part = "reset" THEN Reset!Next ELSE UNCHANGED resetVars
  /\ IF part = "windows" THEN Windows!Next ELSE UNCHANGED windowVars
  /\ IF part = "samples" THEN Sample!Next ELSE UNCHANGED sampleVars
  /\ IF part = "exits" THEN Exits!Next ELSE UNCHANGED exitVars
  /\ IF part = "traffic" THEN Traffic!Next ELSE UNCHANGED trafficVars
  /\ IF part = "tools" THEN Tools!Next ELSE UNCHANGED toolVars
PartsSpec ==
  AnyPart /\ [][OnePart]_<<part, vars, resetVars, windowVars, sampleVars, exitVars,
                           trafficVars, toolVars>>

\* Every variable has its type, as the parts' own invariants say.
PartsTypeOK ==
  CASE part = "cooldowns" -> TypeOK
    [] part = "reset" -> Reset!TypeOK
    [] part = "windows" -> Windows!TypeOK
    [] part = "samples" -> Sample!TypeOK
    [] part = "exits" -> Exits!TypeOK
    [] part = "traffic" -> Traffic!TypeOK
    [] part = "tools" -> Tools!TypeOK
\* UsageReset: upstream spends an operation's card at most once.
SpentOnce == part = "reset" => Reset!SpentOnce
\* UsageReset: an operation that is settled as spent was spent.
SettledIsTrue == part = "reset" => Reset!SettledIsTrue
\* UsageReset: two operations of a subscription may not both spend.
OneAtATime == part = "reset" => Reset!OneAtATime
\* FiveHourWindows: one window for an end, each the sum of its events, and of an event
\* that was written again at most two windows two seconds away.
WindowsAreTheEvents ==
  part = "windows" =>
    Windows!OneWindowPerEnd /\ Windows!WindowsSumUpEvents /\ Windows!StraysAreNear
\* Samples: what pages show is the newest, and what they force is new.
SamplesAreCurrent == part = "samples" => Sample!SamplesAreCurrent
\* Exits: a request leaves through its account's exit.
LeavesThroughItsExit == part = "exits" => Exits!UsesItsExit
\* Diagnostics: every attempt is logged or counted once.
TrafficCounted == part = "traffic" => Traffic!TrafficCounted
\* ToolNames: every name comes back, and aliases do not depend on the tools' order.
AliasesHold == part = "tools" => Tools!AliasesHold

-----------------------------------------------------------------------------
\* None is no value of a part, and what a part counts is finite.
ASSUME ResetConstants ==
  None \notin Handler \cup Reset!Record \cup Reset!Request \cup Reset!Answers
ASSUME SampleConstants == MaxClock \in Nat \ {0} /\ MaxSamplers \in Nat /\ None \notin Page
ASSUME ToolConstants ==
  /\ Custom \subseteq Nat /\ Custom \cap Fixed = {}
  /\ None \notin Tools!Names \cup Aliases
  /\ Attempts \in Nat /\ MaxTools \in Nat
ASSUME WindowConstants ==
  /\ IsFiniteSet(Event) /\ IsFiniteSet(ResetTime)
  /\ ResetTime \subseteq Nat \ {0} /\ Time \subseteq Nat \ {0} /\ Percent \subseteq Nat
  /\ None \notin Windows!Observation \cup Windows!Window
ASSUME ExitConstants ==
  /\ Login \notin Outgoing /\ MaxChanges \in Nat
  /\ None \notin Exits!Carried
  /\ None \notin [alias : Alias, exit : Exits!Exit, id : RowId \cup {Exits!NoRow}]
ASSUME TrafficConstants ==
  /\ IsFiniteSet(Attempt) /\ IsFiniteSet(TrafficGroup)
  /\ MaxGroups \in Nat /\ Capacity \in Nat \ {0} /\ MaxNow \in Nat
-----------------------------------------------------------------------------
Ages == [w \in Window |-> IF w = "5h" THEN 1 ELSE 2]

\* A success says nothing of the windows, or allows one, or allows all.
NoneOneOrAll == {{}, {"5h"}, Window}

\* All of the state but the history of the cooldowns no checked formula reads.
View == <<part, now, rows, exists, work, longest, resetVars, windowVars, sampleVars,
          exitVars, trafficVars, toolVars>>

Interchangeable == Permutations(Response) \cup Permutations(Operation)
=============================================================================
