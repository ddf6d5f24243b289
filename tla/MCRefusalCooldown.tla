-------------------------- MODULE MCRefusalCooldown --------------------------
(* Instances for TLC of the two parts a refusal goes through: the cooldown of the    *)
(* conversation, and the response with its counts and its bill.  They share no state,*)
(* so a behaviour is one of one part, the other left as it begins.                   *)
EXTENDS RefusalCooldown, TLC

CONSTANTS s1, hello, ask,
          Category, Multiplier, Count, MaxCharge, MaxEvents, Absent, Null

VARIABLES
  part,
  options, snapshot, stage, json, events, usage, seen, refusal, stopped, original,
  billing, client, counted, last, withdrawn

responseVars == <<options, snapshot, stage, json, events, usage, seen, refusal, stopped,
                  original, billing, client, counted, last, withdrawn>>

Response == INSTANCE Responses WITH pc <- stage, refused <- refusal

AnyPart == part \in {"cooldown", "response"} /\ Init /\ Response!Init
OnePart ==
  /\ UNCHANGED part
  /\ IF part = "cooldown" THEN Next ELSE UNCHANGED vars
  /\ IF part = "response" THEN Response!Next ELSE UNCHANGED responseVars
PartsSpec == AnyPart /\ [][OnePart]_<<part, vars, responseVars>>

\* Every variable has its type, as the parts' own invariants say.
PartsTypeOK == TypeOK /\ Response!TypeOK
\* Responses: the usage of a call is the last count of each field.
UsageIsLastOfEach == Response!UsageIsLastOfEach
\* Responses: a refusal is billed once, on top of what upstream counted.
BilledOnce == Response!BilledOnce

\* A harmless opening, two ways to go on, one in a session and one that ends in an empty
\* message, and the session after its caller started over.
Conversations ==
  {[session |-> None, blocks |-> <<hello>>, open |-> FALSE],
   [session |-> None, blocks |-> <<hello, ask>>, open |-> TRUE],
   [session |-> s1, blocks |-> <<hello, ask>>, open |-> FALSE],
   [session |-> s1, blocks |-> <<hello>>, open |-> FALSE]}

InterchangeableCalls == Permutations(Call)

\* Counts and multipliers are numbers, one multiplier is the largest, and what stands for no field is none of them.
ASSUME ResponseConstants ==
  /\ Count \subseteq Nat /\ MaxCharge \in Nat /\ MaxEvents \in Nat
  /\ Multiplier \subseteq Nat /\ \E m \in Multiplier : \A n \in Multiplier : m >= n
  /\ Absent \notin Nat /\ Null # Absent /\ Null \notin Nat
  /\ None \notin Category /\ {Absent, Null} \cap Response!Detail = {}
=============================================================================
