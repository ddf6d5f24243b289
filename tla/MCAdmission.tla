---------------------------- MODULE MCAdmission ----------------------------
(* Instances of Admission for TLC: named accounts and keys, and the mixes of *)
(* traffic the runs use.  No traffic set below names an account where the     *)
(* accounts are declared symmetric.                                           *)
EXTENDS Admission, TLC

CONSTANTS a1, a2, s1, s2, c1

Call(key, access, hint, forced, count) ==
  [key |-> key, access |-> access, hint |-> hint, forced |-> forced, count |-> count]

\* Two explicit sessions and a prefix without a declared cache.
SessionTraffic == {Call(s1, "official", None, None, FALSE), Call(s2, "official", None, None, FALSE)}

\* A compatible session with a metadata account and an official cache prefix whose
\* caller names its account.
MixedTraffic == {Call(s1, "compatible", a2, None, FALSE), Call(c1, "official", None, a1, FALSE)}

\* Messages and count_tokens calls of one session.
CountTraffic == {Call(s1, "official", None, None, FALSE), Call(s1, "official", None, None, TRUE)}

OneSession == {Call(s1, "official", None, None, FALSE)}

NoReadings == -1
AllCompatible == {[a \in Account |-> "compatible"]}
OneOfEach == {[a \in Account |-> IF a = a1 THEN "compatible" ELSE "official"]}

\* An idle relay whose operator has switched to affinity-first routing.
LegacySpec == InitWith("legacy") /\ [][Next]_vars
LegacyFairSpec == LegacySpec /\ \A q \in Request : WF_vars(Choose(q) \/ Serve(q))

Interchangeable == Permutations(Request) \cup Permutations(Account) \cup Permutations(Session)
InterchangeableCalls == Permutations(Request)
=============================================================================
