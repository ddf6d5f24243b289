----------------------------- MODULE Responses -----------------------------
(***************************************************************************)
(* The token counts of one answer of the Messages API, on their two ways   *)
(* through the relay.                                                      *)
(*                                                                         *)
(* The accounting observer reads what upstream sends: every count is the   *)
(* last one sent, and counts that name no cache lifetime are told from     *)
(* those that do, whichever comes first.  The refusal adapter works on     *)
(* what the observer has passed on: once the answer is a refusal of a      *)
(* category with a multiplier, the counts the client gets are those of     *)
(* upstream times the multiplier that was set when the request began.      *)
(*                                                                         *)
(* Of the counts that are treated alike (input, output, cache reads) there *)
(* is one.  Multipliers are in halves.                                     *)
(***************************************************************************)
EXTENDS Integers, FiniteSetsExt

CONSTANTS
  Category,    \* refusal categories
  Multiplier,  \* multipliers times two
  Count,       \* token counts upstream may send
  MaxCharge,   \* the largest count that may be billed
  MaxEvents,   \* bound: events of an answer
  None,        \* no refusal, no record
  Absent, Null \* a field that is not there, and one that is null

Field == {"input", "total", "five", "hour"}
Detail == [five : Count \cup {Absent}, hour : Count \cup {Absent}]
Usage == [input : Count \cup {Absent}, total : Count \cup {Absent, Null},
          detail : Detail \cup {Absent, Null}]
NoUsage == [input |-> Absent, total |-> Absent, detail |-> Absent]
Nothing == [f \in Field |-> Absent]

VARIABLES
  options,   \* refusal billing as it is set
  snapshot,  \* as it was when the request began
  pc, json, events,
  usage, seen, refused, stopped,  \* the observer's
  original, billing,              \* the adapter's
  client,    \* the count of each field as the client has it
  counted,   \* what was given to accounting
  last, withdrawn  \* history: the last count of each field, and whether the detail was null

observer == <<usage, seen, refused, stopped>>
adapter == <<original, billing>>
history == <<last, withdrawn>>
vars == <<options, snapshot, pc, json, events, observer, adapter, client, counted, history>>
-----------------------------------------------------------------------------
Options == [enabled : BOOLEAN, of : [Category -> Multiplier]]

TypeOK ==
  /\ options \in Options /\ snapshot \in Options
  /\ pc \in {"idle", "streaming", "done", "failed"} /\ json \in BOOLEAN /\ events \in 0..MaxEvents
  /\ usage \in [Field -> Nat] /\ seen \subseteq Field
  /\ refused \in Category \cup {None} /\ stopped \in BOOLEAN
  /\ original \in Usage
  /\ billing # None => billing.category \in Category /\ billing.factor \in Multiplier
  /\ \A f \in Field : client[f] # Absent => client[f] \in 0..MaxCharge \cup Count
  /\ counted # None => counted.usage \in [Field -> Nat] /\ counted.complete \in BOOLEAN
  /\ last \in [Field -> Count \cup {Absent}] /\ withdrawn \in BOOLEAN

Init ==
  /\ options = [enabled |-> TRUE, of |-> [c \in Category |-> Max(Multiplier)]]
  /\ snapshot = options
  /\ pc = "idle" /\ json = FALSE /\ events = 0
  /\ usage = [f \in Field |-> 0] /\ seen = {} /\ refused = None /\ stopped = FALSE
  /\ original = NoUsage /\ billing = None
  /\ client = Nothing /\ counted = None
  /\ last = Nothing /\ withdrawn = FALSE
-----------------------------------------------------------------------------
(* Counts.                                                                  *)

\* The fields of a usage object that hold a count.
Counts(u) ==
  [f \in Field |->
     CASE f = "input" -> u.input
       [] f = "total" -> IF u.total = Null THEN Absent ELSE u.total
       [] OTHER -> IF u.detail \in {Absent, Null} THEN Absent
                   ELSE IF f = "five" THEN u.detail.five ELSE u.detail.hour]

Overlay(old, new) == [f \in Field |-> IF new[f] = Absent THEN old[f] ELSE new[f]]

\* Faulty: once a lifetime is told it is left alone.
DeriveUntilTold(now, told) ==
  IF "total" \notin told \/ told \cap {"five", "hour"} # {} THEN now
  ELSE [now EXCEPT !["five"] = now["total"]]

\* The cache counts no event named are derived from the total.
Derive(now, told) ==
  IF "total" \notin told \/ {"five", "hour"} \subseteq told THEN now
  ELSE IF "five" \in told THEN [now EXCEPT !["hour"] = Max({0, now["total"] - now["five"]})]
  ELSE IF "hour" \in told THEN [now EXCEPT !["five"] = Max({0, now["total"] - now["hour"]})]
  ELSE [now EXCEPT !["five"] = now["total"]]

apply(patch) ==
  LET counts == Counts(patch)
      told == seen \cup {f \in Field : counts[f] # Absent}
  IN /\ seen' = told
     /\ usage' = Derive([f \in Field |-> IF counts[f] = Absent THEN usage[f] ELSE counts[f]], told)

\* What the adapter remembers of upstream's usage, field by field of the detail too.
Absorb(old, patch) ==
  [input |-> IF patch.input = Absent THEN old.input ELSE patch.input,
   total |-> IF patch.total = Absent THEN old.total ELSE patch.total,
   detail |-> IF patch.detail \in {Absent, Null} \/ old.detail \in {Absent, Null}
              THEN IF patch.detail = Absent THEN old.detail ELSE patch.detail
              ELSE [f \in {"five", "hour"} |->
                      IF patch.detail[f] = Absent THEN old.detail[f] ELSE patch.detail[f]]]

scaleRefusalTokens(n, factor) == (n * factor + 1) \div 2

Billed(counts, factor) ==
  [f \in Field |-> IF counts[f] = Absent THEN Absent ELSE scaleRefusalTokens(counts[f], factor)]

Unbillable(u, factor) ==
  \/ u = NoUsage \/ u.total = Null
  \/ \E f \in Field : Counts(u)[f] # Absent /\ scaleRefusalTokens(Counts(u)[f], factor) > MaxCharge

\* Faulty: a further event scales what the client has.
BasisOfClient(u) == IF billing = None THEN Counts(u) ELSE Overlay(Counts(u), client)

Basis(u) == Counts(u)
-----------------------------------------------------------------------------
(* An answer.                                                               *)

\* The new settings are persisted and published under one lock.
setRefusalBilling ==
  /\ options' \in Options
  /\ UNCHANGED <<snapshot, pc, json, events, observer, adapter, client, counted, history>>

Begin ==
  /\ pc = "idle" /\ pc' = "streaming"
  /\ snapshot' = options
  /\ json' \in BOOLEAN
  /\ UNCHANGED <<options, events, observer, adapter, client, counted, history>>

Result(complete) == [usage |-> usage', refusal |-> refused', complete |-> complete]

\* The event reaches the client as it is.
Pass(patch) ==
  /\ client' = Overlay(client, Counts(patch))
  /\ UNCHANGED <<billing, pc, counted>>

\* The adaptation fails: a stream breaks off and is counted as far as it was read, a
\* body is replaced by an error and is not counted.
AdaptFails ==
  /\ pc' = "failed"
  /\ counted' = IF json THEN None ELSE Result(FALSE)
  /\ UNCHANGED <<client, billing>>

Scale(category, factor) ==
  /\ billing' = [category |-> category, factor |-> factor]
  /\ client' = Overlay(client, Billed(Basis(original'), factor))
  /\ UNCHANGED <<pc, counted>>

\* A confirmed refusal keeps its policy though a later event may omit the reason.
adjust(final, patch, category) ==
  IF ~snapshot.enabled THEN Pass(patch) /\ UNCHANGED original
  ELSE /\ original' = Absorb(original, patch)
       /\ LET factor == IF billing # None THEN billing.factor
                        ELSE IF category # None THEN snapshot.of[category] ELSE 0
              name == IF billing # None THEN billing.category ELSE category IN
          IF ~final \/ factor <= 2 THEN Pass(patch)
          ELSE IF Unbillable(original', factor) THEN AdaptFails
          ELSE Scale(name, factor)

\* A message_start, which comes first, a message_delta or, of a body, the message: the
\* observer reads it, then the adapter.
consumeEvent ==
  /\ pc = "streaming" /\ events < MaxEvents /\ ~stopped
  /\ events' = events + 1
  /\ \E patch \in Usage, category \in Category \cup {None}, final \in BOOLEAN :
       /\ json => final
       /\ ~final => events = 0
       /\ category # None => final
       /\ apply(patch)
       /\ refused' = IF category = None THEN refused ELSE category
       /\ last' = Overlay(last, Counts(patch))
       /\ withdrawn' = (withdrawn \/ patch.detail = Null)
       /\ adjust(final, patch, category)
  /\ stopped' = json
  /\ UNCHANGED <<options, snapshot, json>>

messageStop ==
  /\ pc = "streaming" /\ ~json /\ ~stopped
  /\ stopped' = TRUE
  /\ UNCHANGED <<options, snapshot, pc, json, events, usage, seen, refused, adapter, client, counted, history>>

\* The body ends; a stream is complete if it was stopped, a body if it told a count.
EndOfBody ==
  /\ pc = "streaming" /\ (json => stopped)
  /\ pc' = "done"
  /\ UNCHANGED <<options, snapshot, json, events, observer, adapter, client, history>>
  /\ counted' = Result(IF json THEN seen # {} ELSE stopped)

\* The connection breaks; a body that was to be adapted is given up.
BrokenOff ==
  /\ pc = "streaming"
  /\ pc' = "done"
  /\ UNCHANGED <<options, snapshot, json, events, observer, adapter, client, history>>
  /\ counted' = IF json /\ snapshot.enabled THEN None ELSE Result(FALSE)

Next == setRefusalBilling \/ Begin \/ consumeEvent \/ messageStop \/ EndOfBody \/ BrokenOff
Spec == Init /\ [][Next]_vars
-----------------------------------------------------------------------------
(* Properties.                                                              *)

\* The counts given to accounting depend on the last value of each field alone, not on
\* which events told them nor on their order: no tokens are counted twice, as of a
\* lifetime and of the total, and none is missed (observer.go: apply).
Split(told) ==
  [f \in Field |->
     CASE told[f] # Absent -> told[f]
       [] told[f] = Absent /\ f = "five" /\ told["total"] # Absent ->
            IF told["hour"] = Absent THEN told["total"] ELSE Max({0, told["total"] - told["hour"]})
       [] told[f] = Absent /\ f = "hour" /\ told["total"] # Absent /\ told["five"] # Absent ->
            Max({0, told["total"] - told["five"]})
       [] OTHER -> 0]
UsageIsLastOfEach ==
  /\ usage = Split(last)
  /\ counted # None => counted.usage = Split(last)

\* What the client is billed for a refusal is what upstream counted, times the
\* multiplier that was set when the request began, once: however often the counts are
\* repeated, and though the settings change meanwhile (refusal_billing.go: adjust).
\* A lifetime is not told any more once upstream has made the detail null.
BilledOnce ==
  billing # None /\ pc # "failed" =>
    /\ billing.factor = snapshot.of[billing.category]
    /\ \A f \in Field : last[f] # Absent /\ (f \in {"five", "hour"} => ~withdrawn) =>
         client[f] = scaleRefusalTokens(last[f], billing.factor)
=============================================================================
