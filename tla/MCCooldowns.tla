---------------------------- MODULE MCCooldowns ----------------------------
(* Instances of Cooldowns for TLC: two instants to a second, and window ages *)
(* short enough for a reset to be implausible.                               *)
EXTENDS Cooldowns, TLC

Ages == [w \in Window |-> IF w = "5h" THEN 1 ELSE 2]

\* A success says nothing of the windows, or allows one, or allows all.
NoneOneOrAll == {{}, {"5h"}, Window}

\* What the table and the calls hold, without the history no checked formula reads.
TableView == <<now, rows, exists, work, longest>>

Interchangeable == Permutations(Response) \cup Permutations(Model)
=============================================================================
