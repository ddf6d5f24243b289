----------------------------- MODULE PartsProofs -----------------------------
(* The cooldowns of a subscription and the other parts MCParts composes, for   *)
(* any values of the constants.                                                *)
(*                                                                             *)
(* The cooldowns, the exits, the traffic and the five-hour windows have their  *)
(* invariants here; those of the reset cards, the samples and the tool names   *)
(* are in modules of their own, of which a behaviour of the composition is one *)
(* as soon as it is of that part.  Each theorem about the composition says of  *)
(* every behaviour what a property of a part says of that part's.              *)
EXTENDS MCParts, Sequences, FiniteSetTheorems, TLAPS

ResetP == INSTANCE UsageResetProofs
SampleP == INSTANCE SamplesProofs
  WITH now <- clock, lock <- mutex, pc <- reader, MaxTime <- MaxClock
ToolsP == INSTANCE ToolNamesProofs WITH answer <- call
-----------------------------------------------------------------------------
(* Cooldowns.                                                               *)

\* Among the decisions kept for a scope none ends before another.
LongestTie == \A d, e \in longest : d.scope = e.scope => d.until = e.until

\* What a call is about to write is a row some success would remove.
Curable(r) ==
  r.reason # "oauth_refresh_failed" =>
    \E m \in Model : <<r.scope, r.reason>> \in Disproved(Window, m)
WorkCurable == \A c \in Response : work[c].kind = "cool" => Curable(work[c].row)

IInv == TypeOK /\ RowIsLongestDecision /\ LongestTie /\ Recoverable /\ WorkCurable
-----------------------------------------------------------------------------
\* What the database keeps of an instant is an instant.
LEMMA SecondsAreNat == ASSUME NEW t \in Nat PROVE InSeconds(t) \in Nat
BY CooldownConstants, SMT DEF InSeconds

\* A rejection's exhausted windows are among those it reports, with its resets.
LEMMA ExhaustedReset ==
  ASSUME NEW x \in Rejection
  PROVE  /\ Exhausted(x) \subseteq Window
         /\ \A w \in Exhausted(x) : x.reset[w] \in Nat
         /\ x.retryAfter \in Nat
         /\ Exhausted(x) \cap AccountWindow # {} => LaterWindow(x) \in Exhausted(x) \cap AccountWindow
<1>1. PICK e \in SUBSET Window : x \in [exhausted : {e}, reset : [e -> Resets], retryAfter : Delays]
  BY DEF Rejection
<1>2. x.exhausted = e /\ x.reset \in [e -> Resets] /\ x.retryAfter \in Delays
  BY <1>1
<1>3. Exhausted(x) \subseteq e BY <1>2 DEF Exhausted
<1>4. Exhausted(x) \cap AccountWindow # {} => LaterWindow(x) \in Exhausted(x) \cap AccountWindow
  BY DEF LaterWindow, AccountWindow
<1> QED BY <1>2, <1>3, <1>4, CooldownConstants

\* The classification of a 429 is a row that some success would remove.
LEMMA DecideRow ==
  ASSUME TypeOK, NEW x \in Rejection, NEW m \in Model
  PROVE  Decide(x, m) \in Row /\ Curable(Decide(x, m))
<1> DEFINE d == Decide(x, m)
<1>0. now \in Nat /\ m \in Scope /\ All \in Scope /\ m # All
  BY CooldownConstants DEF TypeOK, Scope
<1>1. CASE Exhausted(x) \cap AccountWindow # {}
  <2>0. Exhausted(x) # {"7d_oi"} /\ Exhausted(x) # {} BY <1>1 DEF AccountWindow
  <2>1. d = Until(All, x.reset[LaterWindow(x)], LaterWindow(x)) BY <1>1, <2>0 DEF Decide
  <2>2. LaterWindow(x) \in {"5h", "7d"} /\ x.reset[LaterWindow(x)] \in Nat
    BY <1>1, ExhaustedReset DEF AccountWindow
  <2>3. <<All, LaterWindow(x)>> \in Disproved(Window, m)
    BY <2>2 DEF Disproved, Window, AccountWindow
  <2> QED
    BY <1>0, <2>1, <2>2, <2>3 DEF Until, Row, Curable, Reason, Window, AccountReason,
       AccountWindow
<1>2. CASE Exhausted(x) = {"7d_oi"}
  <2>0. Exhausted(x) \cap AccountWindow = {} BY <1>2 DEF AccountWindow
  <2>1. d = Until(m, x.reset["7d_oi"], "7d_oi") BY <1>2, <2>0 DEF Decide
  <2>2. x.reset["7d_oi"] \in Nat BY <1>2, ExhaustedReset
  <2>3. <<m, "7d_oi">> \in Disproved(Window, m) BY DEF Disproved, Window, AccountWindow
  <2> QED
    BY <1>0, <2>1, <2>2, <2>3 DEF Until, Row, Curable, Reason, Window, AccountReason,
       AccountWindow
<1>3. CASE Exhausted(x) = {}
  <2>1. x.retryAfter * Second \in Nat /\ ShortDelay * Second \in Nat
    BY ExhaustedReset, CooldownConstants
  <2>2. InSeconds(now + x.retryAfter * Second) \in Nat /\ InSeconds(now + ShortDelay * Second) \in Nat
    BY <1>0, <2>1, SecondsAreNat
  <2>3. d = For(m, x.retryAfter, "retry_after") \/ d = For(m, ShortDelay, "ambiguous")
    BY <1>3 DEF Decide
  <2>4. <<m, "retry_after">> \in Disproved(Window, m) /\ <<m, "ambiguous">> \in Disproved(Window, m)
    BY DEF Disproved
  <2> QED
    BY <1>0, <2>2, <2>3, <2>4 DEF For, Until, Row, Curable, Reason, AccountReason,
       AccountWindow
<1>4. Exhausted(x) \cap AccountWindow # {} \/ Exhausted(x) = {"7d_oi"} \/ Exhausted(x) = {}
  BY ExhaustedReset DEF Window, AccountWindow
<1> QED BY <1>1, <1>2, <1>3, <1>4

\* Merging a decision keeps the table and its history in step.
LEMMA MergeKeeps ==
  ASSUME IInv, NEW d \in Row, rows' = Merge(d), longest' = NotOutlasted(longest \cup {d})
  PROVE  RowIsLongestDecision' /\ LongestTie' /\ rows' \subseteq rows \cup {d}
<1> USE DEF IInv, TypeOK
<1>0. \A r \in rows \cup longest \cup {d} : r \in Row /\ r.until \in Nat BY DEF Row
<1>1. LongestTie' BY <1>0 DEF LongestTie, NotOutlasted
<1>2. \A r \in rows : r \in longest BY DEF RowIsLongestDecision
<1>3. CASE Outlasted(d)
  <2>1. PICK r \in rows : r.scope = d.scope /\ r.until > d.until BY <1>3 DEF Outlasted
  <2>2. rows' = rows BY <1>3 DEF Merge
  <2>3. d \notin longest' BY <2>1, <1>2, <1>0 DEF NotOutlasted
  <2>4. longest' = longest
    BY <1>0, <1>2, <2>1, <2>3 DEF NotOutlasted, LongestTie
  <2> QED BY <1>1, <2>2, <2>4 DEF RowIsLongestDecision
<1>4. CASE ~Outlasted(d)
  <2>1. rows' = {r \in rows : r.scope # d.scope} \cup {d} BY <1>4 DEF Merge
  <2>2. \A e \in longest : e.scope = d.scope => e.until <= d.until
    <3> TAKE e \in longest
    <3> HAVE e.scope = d.scope
    <3>1. PICK r \in rows : r.scope = e.scope BY DEF RowIsLongestDecision
    <3>2. r.until = e.until BY <3>1, <1>2 DEF LongestTie
    <3> QED BY <3>1, <3>2, <1>4, <1>0 DEF Outlasted
  <2>3. d \in longest' BY <2>2, <1>0 DEF NotOutlasted
  <2>4. \A r \in longest : r.scope # d.scope => r \in longest'
    BY <1>0 DEF NotOutlasted, LongestTie
  <2>5. longest' \subseteq longest \cup {d} BY DEF NotOutlasted
  <2>6. rows' \subseteq longest' BY <2>1, <2>3, <2>4, <1>2
  <2>7. \A e \in longest' : \E r \in rows' : r.scope = e.scope
    BY <2>1, <2>5 DEF RowIsLongestDecision
  <2>8. \A r, s \in rows' : r.scope = s.scope => r = s BY <2>1 DEF RowIsLongestDecision
  <2> QED BY <1>1, <2>1, <2>6, <2>7, <2>8 DEF RowIsLongestDecision
<1> QED BY <1>3, <1>4

\* Removing rows together with what was merged into them does too.
LEMMA RemoveKeeps ==
  ASSUME IInv, NEW gone, gone \subseteq rows, Remove(gone)
  PROVE  RowIsLongestDecision' /\ LongestTie' /\ rows' \subseteq rows /\ longest' \subseteq longest
<1> USE DEF IInv, Remove
<1>1. LongestTie' BY DEF LongestTie
<1>2. \A r \in rows' : r \in longest'
  <2> TAKE r \in rows'
  <2>1. r \in rows /\ r \notin gone OBVIOUS
  <2>2. \A g \in gone : r.scope # g.scope BY <2>1 DEF RowIsLongestDecision
  <2> QED BY <2>1, <2>2 DEF RowIsLongestDecision
<1>3. \A d \in longest' : \E r \in rows' : r.scope = d.scope
  <2> TAKE d \in longest'
  <2>1. PICK r \in rows : r.scope = d.scope BY DEF RowIsLongestDecision
  <2>2. r \notin gone BY <2>1
  <2> QED BY <2>1, <2>2
<1> QED BY <1>1, <1>2, <1>3 DEF RowIsLongestDecision
-----------------------------------------------------------------------------
\* A new row has no cooldown anybody decided.
LEMMA InitInvariant == Init => IInv
<1> SUFFICES ASSUME Init PROVE IInv OBVIOUS
<1> USE DEF Init
<1>1. PICK rejected \in SUBSET Model :
        rows = {[scope |-> m, until |-> 1, reason |-> "too_many_requests", seen |-> 0] : m \in rejected}
  OBVIOUS
<1>2. \A r \in rows : /\ r.scope \in Model /\ r.until = 1
                      /\ r.reason = "too_many_requests" /\ r.seen = 0 /\ r \in Row
  BY <1>1, CooldownConstants DEF Row, Scope, Reason, AccountReason, AccountWindow
<1>3. TypeOK BY <1>2 DEF TypeOK, NoWork
<1>4. RowIsLongestDecision BY <1>1 DEF RowIsLongestDecision
<1>5. LongestTie BY <1>2 DEF LongestTie
<1>6. Recoverable
  <2> SUFFICES ASSUME NEW r \in rows PROVE <<r.scope, r.reason>> \in Disproved(Window, r.scope)
    BY <1>2 DEF Recoverable
  <2> QED BY <1>2 DEF Disproved, Window
<1>7. WorkCurable BY DEF WorkCurable, NoWork
<1> QED BY <1>3, <1>4, <1>5, <1>6, <1>7 DEF IInv

\* A call that has classified an answer and written nothing keeps the invariant.
LEMMA ClassifyKeeps ==
  ASSUME IInv, NEW c \in Response, NEW w, Classify(c, w),
         \/ \E r \in Row : w = Cool(r) /\ Curable(r)
         \/ \E m \in SUBSET Match, t \in Nat : w = Recover(m, t)
  PROVE  IInv'
<1> USE DEF IInv, Classify, history
<1>1. w \in [kind : {"cool"}, row : Row] \cup [kind : {"recover"}, matches : SUBSET Match, at : Nat]
  BY DEF Cool, Recover
<1>2. TypeOK' BY <1>1 DEF TypeOK
<1>3. w.kind = "cool" => Curable(w.row) BY DEF Cool, Recover
<1>4. WorkCurable' BY <1>3 DEF WorkCurable, TypeOK, Curable
<1> QED BY <1>2, <1>4 DEF RowIsLongestDecision, LongestTie, Recoverable

\* A call that has nothing left to write keeps what the calls are about to write.
LEMMA WorkDone ==
  ASSUME IInv, NEW c \in Response, work' = [work EXCEPT ![c] = NoWork]
  PROVE  /\ work' \in [Response -> {NoWork} \cup [kind : {"cool"}, row : Row]
                         \cup [kind : {"recover"}, matches : SUBSET Match, at : Nat]]
         /\ WorkCurable'
<1> USE DEF IInv, TypeOK
<1>1. NoWork.kind # "cool" BY DEF NoWork
<1> QED BY <1>1 DEF WorkCurable, Curable

\* Every step keeps the inductive invariant.
LEMMA StepInvariant == IInv /\ [Next]_vars => IInv'
<1> SUFFICES ASSUME IInv, [Next]_vars PROVE IInv' OBVIOUS
<1>0. TypeOK BY DEF IInv
<1>1. ASSUME NEW c \in Response, Rejected(c) PROVE IInv'
  <2>1. PICK m \in Model, x \in Rejection : Classify(c, Cool(Decide(x, m))) BY <1>1 DEF Rejected
  <2> QED BY <1>0, <2>1, DecideRow, ClassifyKeeps
<1>2. ASSUME NEW c \in Response, AuthFailed(c) PROVE IInv'
  <2> DEFINE r == For(All, AuthDelay, "oauth_refresh_failed")
  <2>1. AuthDelay * Second \in Nat /\ now \in Nat BY <1>0, CooldownConstants DEF TypeOK
  <2>2. InSeconds(now + AuthDelay * Second) \in Nat BY <2>1, SecondsAreNat
  <2>3. r \in Row /\ Curable(r)
    BY <2>1, <2>2 DEF For, Until, Row, Scope, Reason, Curable, AccountReason
  <2> QED BY <1>2, <2>3, ClassifyKeeps DEF AuthFailed
<1>3. ASSUME NEW c \in Response, Succeeded(c) PROVE IInv'
  <2>1. PICK m \in Model, allowed \in Allowances : Classify(c, Recover(Disproved(allowed, m), now))
    BY <1>3 DEF Succeeded
  <2>2. Disproved(allowed, m) \in SUBSET Match
    <3>1. m \in Scope /\ All \in Scope /\ allowed \subseteq Reason
      BY CooldownConstants DEF Scope, Reason, Window
    <3>2. {m} \X {"ambiguous", "retry_after"} \subseteq Match BY <3>1 DEF Match, Reason
    <3>3. /\ {All} \X (allowed \cap AccountWindow) \subseteq Match
          /\ {m} \X (allowed \ AccountWindow) \subseteq Match
      BY <3>1 DEF Match
    <3>4. <<m, "too_many_requests">> \in Match BY <3>1 DEF Match, Reason
    <3> QED BY <3>2, <3>3, <3>4 DEF Disproved
  <2>3. now \in Nat BY <1>0 DEF TypeOK
  <2> QED BY <2>1, <2>2, <2>3, ClassifyKeeps
<1>4. ASSUME NEW c \in Response, GiveUp(c) PROVE IInv'
  <2>1. TypeOK' BY <1>4, WorkDone DEF GiveUp, history, IInv, TypeOK
  <2> QED BY <1>4, <2>1, WorkDone
      DEF GiveUp, history, IInv, RowIsLongestDecision, LongestTie, Recoverable
<1>5. ASSUME NEW c \in Response, CooldownObservedAt(c) PROVE IInv'
  <2> DEFINE d == work[c].row
  <2>1. d \in Row /\ Curable(d)
    BY <1>5 DEF CooldownObservedAt, IInv, TypeOK, WorkCurable, NoWork
  <2>2. rows' = Merge(d) /\ longest' = NotOutlasted(longest \cup {d})
    BY <1>5 DEF CooldownObservedAt
  <2>3. RowIsLongestDecision' /\ LongestTie' /\ rows' \subseteq rows \cup {d} BY <2>1, <2>2, MergeKeeps
  <2>4. Recoverable' BY <2>1, <2>3 DEF Recoverable, Curable, IInv
  <2>5. longest' \subseteq Row /\ newer' \subseteq Row
    BY <1>5, <2>1, <2>2 DEF CooldownObservedAt, NotOutlasted, IInv, TypeOK
  <2>6. TypeOK' BY <1>5, <2>1, <2>3, <2>5, WorkDone DEF CooldownObservedAt, IInv, TypeOK
  <2> QED BY <1>5, <2>3, <2>4, <2>6, WorkDone DEF CooldownObservedAt, IInv
<1>6. ASSUME NEW c \in Response, ClearCooldownMatchesObservedBefore(c) PROVE IInv'
  <2> DEFINE w == work[c]
  <2>1. w \in [kind : {"recover"}, matches : SUBSET Match, at : Nat]
    BY <1>6 DEF ClearCooldownMatchesObservedBefore, IInv, TypeOK, NoWork
  <2>2. Matched(w) \subseteq rows /\ Remove(Matched(w))
    BY <1>6 DEF ClearCooldownMatchesObservedBefore, Matched
  <2>3. RowIsLongestDecision' /\ LongestTie' /\ rows' \subseteq rows /\ longest' \subseteq longest
    BY <2>2, RemoveKeeps
  <2>4. Recoverable' BY <2>3 DEF Recoverable, IInv
  <2>5. proven' \in [Match -> Nat \cup {-1}]
    BY <1>6, <2>1 DEF ClearCooldownMatchesObservedBefore, IInv, TypeOK
  <2>6. newer' \subseteq Row BY <1>6 DEF ClearCooldownMatchesObservedBefore, IInv, TypeOK
  <2>7. TypeOK'
    BY <1>6, <2>3, <2>5, <2>6, WorkDone DEF ClearCooldownMatchesObservedBefore, IInv, TypeOK
  <2> QED BY <1>6, <2>3, <2>4, <2>7, WorkDone DEF ClearCooldownMatchesObservedBefore, IInv
<1>7. ASSUME NEW gone, gone \subseteq rows, Revoke(gone), exists' \in BOOLEAN PROVE IInv'
  <2>1. Remove(gone) BY <1>7 DEF Revoke
  <2>2. RowIsLongestDecision' /\ LongestTie' /\ rows' \subseteq rows /\ longest' \subseteq longest
    BY <1>7, <2>1, RemoveKeeps
  <2>3. TypeOK' BY <1>7, <2>2 DEF Revoke, IInv, TypeOK
  <2>4. Recoverable' BY <2>2 DEF Recoverable, IInv
  <2>5. WorkCurable' BY <1>7 DEF Revoke, IInv, WorkCurable
  <2> QED BY <2>2, <2>3, <2>4, <2>5 DEF IInv
<1>8. ASSUME Operate PROVE IInv'
  <2>1. ASSUME ClearCooldowns PROVE IInv' BY <2>1, <1>0, <1>7 DEF ClearCooldowns, TypeOK
  <2>2. ASSUME FinishUsageReset PROVE IInv'
    <3>1. PICK clears \in SUBSET Window : Revoke({r \in rows : r.reason \in clears})
      BY <2>2 DEF FinishUsageReset
    <3> QED BY <2>2, <3>1, <1>0, <1>7 DEF FinishUsageReset, TypeOK
  <2>3. ASSUME DeleteAccount PROVE IInv' BY <2>3, <1>7 DEF DeleteAccount
  <2>4. ASSUME ImportAccount PROVE IInv'
    BY <2>4 DEF ImportAccount, history, IInv, TypeOK, RowIsLongestDecision, LongestTie,
                Recoverable, WorkCurable
  <2> QED BY <1>8, <2>1, <2>2, <2>3, <2>4 DEF Operate
<1>9. ASSUME Tick PROVE IInv'
  BY <1>9 DEF Tick, history, IInv, TypeOK, RowIsLongestDecision, LongestTie, Recoverable,
     WorkCurable
<1>10. ASSUME UNCHANGED vars PROVE IInv'
  BY <1>10 DEF vars, IInv, TypeOK, RowIsLongestDecision, LongestTie, Recoverable, WorkCurable
<1> QED BY <1>1, <1>2, <1>3, <1>4, <1>5, <1>6, <1>8, <1>9, <1>10 DEF Next, Answer, Persist

\* The inductive invariant of the specification.
LEMMA Invariant == Spec => []IInv
BY InitInvariant, StepInvariant, PTL DEF Spec
-----------------------------------------------------------------------------
\* Every row and every write keeps its type.
THEOREM CooldownTypes == Spec => []TypeOK
BY Invariant, PTL DEF IInv

\* In whatever order concurrent calls write, a row is one whole decision that none
\* merged since the row appeared outlasts (store.go, CooldownObservedAt).
THEOREM RowsAreLongestDecisions == Spec => []RowIsLongestDecision
BY Invariant, PTL DEF IInv

\* Every row but the one of a failed token refresh can be removed by a success
\* (cooldown_policy.go: decisions and recovery name the same scopes and reasons).
THEOREM RowsCanRecover == Spec => []Recoverable
BY Invariant, PTL DEF IInv
-----------------------------------------------------------------------------
(* Sums.  What holds of a finite set is shown of its subsets, the smaller ones *)
(* first.                                                                      *)

\* What holds of the empty set, and of a subset of S when it holds of what is left of
\* that one without any element of it, holds of every subset of S.
LEMMA SubsetInduction ==
  ASSUME NEW S, IsFiniteSet(S), NEW T, {} \in T,
         \A s \in SUBSET S : s # {} /\ (\A x \in s : s \ {x} \in T) => s \in T
  PROVE  \A s \in SUBSET S : s \in T
<1> DEFINE R == StrictSubsetOrdering(S)
           U == (SUBSET S) \ T
<1>1. IsWellFoundedOn(R, SUBSET S)
  BY FS_StrictSubsetOrderingWellFounded, FS_FiniteSubsetsOfFinite
<1>2. \A s \in SUBSET S : \A x \in s : <<s \ {x}, s>> \in R
  BY DEF StrictSubsetOrdering
<1> HIDE DEF R
<1>3. ASSUME U # {} PROVE FALSE
  <2>1. PICK s \in U : \A t \in U : ~(<<t, s>> \in R)
    BY <1>1, <1>3, WFMin
  <2>2. s # {}
    OBVIOUS
  <2>3. PICK x \in s : s \ {x} \in U
    BY <2>2
  <2>4. <<s \ {x}, s>> \in R
    BY <1>2
  <2> QED BY <2>1, <2>3, <2>4
<1> QED BY <1>3

\* A sum over the subsets of S, one chosen element at a time.
Chosen(s) == CHOOSE x \in s : TRUE
SumsUp(sum, F, S) ==
  /\ sum \in [SUBSET S -> Int]
  /\ \A s \in SUBSET S :
       sum[s] = IF s = {} THEN 0 ELSE F[Chosen(s)] + sum[s \ {Chosen(s)}]

\* A set that is not empty has the member CHOOSE takes.
LEMMA ChosenIn == ASSUME NEW s, s # {} PROVE Chosen(s) \in s
BY DEF Chosen

\* Two sums agree wherever both are defined.
LEMMA SumsAgree ==
  ASSUME NEW S, IsFiniteSet(S), NEW S1, NEW S2, S \subseteq S1, S \subseteq S2,
         NEW F, NEW sum1, NEW sum2, SumsUp(sum1, F, S1), SumsUp(sum2, F, S2)
  PROVE  \A s \in SUBSET S : sum1[s] = sum2[s]
<1> DEFINE T == {s \in SUBSET S : sum1[s] = sum2[s]}
<1>1. {} \in T BY DEF SumsUp
<1>2. ASSUME NEW s \in SUBSET S, s # {}, \A x \in s : s \ {x} \in T PROVE s \in T
  <2>1. Chosen(s) \in s BY <1>2, ChosenIn
  <2>2. s \in SUBSET S1 /\ s \in SUBSET S2 OBVIOUS
  <2>3. sum1[s] = F[Chosen(s)] + sum1[s \ {Chosen(s)}] BY <1>2, <2>2 DEF SumsUp
  <2>4. sum2[s] = F[Chosen(s)] + sum2[s \ {Chosen(s)}] BY <1>2, <2>2 DEF SumsUp
  <2> QED BY <1>2, <2>1, <2>3, <2>4
<1> HIDE DEF T
<1>3. \A s \in SUBSET S : s \in T BY <1>1, <1>2, SubsetInduction
<1> QED BY <1>3 DEF T

\* There is a sum.
LEMMA SumExists ==
  ASSUME NEW S, IsFiniteSet(S), NEW F \in [S -> Int]
  PROVE  \E sum : SumsUp(sum, F, S)
<1> DEFINE T == {s \in SUBSET S : \E sum : SumsUp(sum, F, s)}
<1>1. {} \in T
  <2>1. SumsUp([s \in SUBSET {} |-> 0], F, {}) BY DEF SumsUp
  <2> QED BY <2>1
<1>2. ASSUME NEW s \in SUBSET S, s # {}, \A x \in s : s \ {x} \in T PROVE s \in T
  <2> DEFINE W == [x \in s |-> CHOOSE sum : SumsUp(sum, F, s \ {x})]
             Left(t) == CHOOSE x \in s : x \notin t
             sum == [t \in SUBSET s |->
                       IF t = s THEN F[Chosen(s)] + W[Chosen(s)][s \ {Chosen(s)}]
                       ELSE W[Left(t)][t]]
  <2>1. \A x \in s : SumsUp(W[x], F, s \ {x})
    <3>1. \A x \in s : \E h : SumsUp(h, F, s \ {x}) BY <1>2
    <3> QED BY <3>1
  <2>2. \A t \in SUBSET s : t # s => Left(t) \in s /\ Left(t) \notin t
    <3>1. \A t \in SUBSET s : t # s => \E x \in s : x \notin t OBVIOUS
    <3> QED BY <3>1
  <2>3. Chosen(s) \in s BY <1>2, ChosenIn
  <2> HIDE DEF W, Left
  <2>4. \A t \in SUBSET s : \A x \in s : x \notin t => W[x][t] \in Int
    <3>1. ASSUME NEW t \in SUBSET s, NEW x \in s, x \notin t PROVE W[x][t] \in Int
      <4>1. t \in SUBSET (s \ {x}) BY <3>1
      <4>2. W[x] \in [SUBSET (s \ {x}) -> Int] BY <2>1 DEF SumsUp
      <4> QED BY <4>1, <4>2
    <3> QED BY <3>1
  <2>5. sum \in [SUBSET s -> Int]
    <3>1. ASSUME NEW t \in SUBSET s PROVE sum[t] \in Int
      BY <2>2, <2>3, <2>4
    <3> QED BY <3>1
  <2>6. \A t \in SUBSET s, x \in s : x \notin t /\ t # s => sum[t] = W[x][t]
    <3>1. ASSUME NEW t \in SUBSET s, NEW x \in s, x \notin t, t # s PROVE sum[t] = W[x][t]
      <4>1. t \subseteq s \ {x} /\ t \subseteq s \ {Left(t)} BY <2>2, <3>1
      <4>2. IsFiniteSet(t) BY FS_Subset
      <4>3. SumsUp(W[x], F, s \ {x}) /\ SumsUp(W[Left(t)], F, s \ {Left(t)})
        BY <2>1, <2>2, <3>1
      <4>4. \A u \in SUBSET t : W[x][u] = W[Left(t)][u]
        BY ONLY <4>1, <4>2, <4>3, SumsAgree
      <4> QED BY <3>1, <4>4
    <3> QED BY <3>1
  <2>7. ASSUME NEW t \in SUBSET s
        PROVE sum[t] = IF t = {} THEN 0 ELSE F[Chosen(t)] + sum[t \ {Chosen(t)}]
    <3>1. CASE t = {}
      <4>1. t # s /\ Left(t) \in s BY <1>2, <2>2, <3>1
      <4>2. W[Left(t)][t] = 0 BY <2>1, <3>1, <4>1 DEF SumsUp
      <4> QED BY <3>1, <4>1, <4>2
    <3>2. CASE t = s
      <4>1. sum[s] = F[Chosen(s)] + W[Chosen(s)][s \ {Chosen(s)}] OBVIOUS
      <4>2. s \ {Chosen(s)} # s BY <2>3
      <4>3. sum[s \ {Chosen(s)}] = W[Chosen(s)][s \ {Chosen(s)}]
        BY <2>3, <2>6, <4>2
      <4> QED BY <1>2, <3>2, <4>1, <4>3
    <3>3. CASE t # {} /\ t # s
      <4> DEFINE x == Left(t)
                 c == Chosen(t)
      <4>1. x \in s /\ x \notin t /\ c \in t BY <2>2, <3>3, ChosenIn
      <4> HIDE DEF x, c
      <4>2. sum[t] = W[x][t] BY <2>6, <3>3, <4>1
      <4>3. sum[t \ {c}] = W[x][t \ {c}] BY <2>6, <3>3, <4>1
      <4>4. W[x][t] = F[c] + W[x][t \ {c}]
        <5>1. SumsUp(W[x], F, s \ {x}) /\ t \in SUBSET (s \ {x}) BY <2>1, <4>1
        <5> QED BY <3>3, <5>1 DEF SumsUp, c
      <4> QED BY <3>3, <4>2, <4>3, <4>4 DEF c
    <3> QED BY <3>1, <3>2, <3>3
  <2> HIDE DEF sum
  <2>8. SumsUp(sum, F, s) BY <2>5, <2>7 DEF SumsUp
  <2> QED BY <2>8
<1> HIDE DEF T
<1>3. \A s \in SUBSET S : s \in T BY <1>1, <1>2, SubsetInduction
<1> QED BY <1>3 DEF T

\* A sum changes by what one of its summands changes by.
LEMMA SumChanges ==
  ASSUME NEW S, IsFiniteSet(S), NEW F \in [S -> Int], NEW G \in [S -> Int], NEW a \in S,
         \A x \in S : x # a => F[x] = G[x],
         NEW sumF, NEW sumG, SumsUp(sumF, F, S), SumsUp(sumG, G, S)
  PROVE  sumG[S] = sumF[S] + (G[a] - F[a])
<1> DEFINE T == {s \in SUBSET S :
                   sumG[s] = sumF[s] + (IF a \in s THEN G[a] - F[a] ELSE 0)}
<1>1. {} \in T
  <2>1. sumF[{}] = 0 /\ sumG[{}] = 0 BY DEF SumsUp
  <2>2. a \notin {} OBVIOUS
  <2> QED BY <2>1, <2>2
<1>2. ASSUME NEW s \in SUBSET S, s # {}, \A x \in s : s \ {x} \in T PROVE s \in T
  <2> DEFINE c == Chosen(s)
             r == s \ {c}
  <2>1. c \in s BY <1>2, ChosenIn
  <2>2. sumF[s] = F[c] + sumF[r] /\ sumG[s] = G[c] + sumG[r] BY <1>2 DEF SumsUp
  <2>3. r \in SUBSET S OBVIOUS
  <2>4. sumF[r] \in Int /\ sumG[r] \in Int BY <2>3 DEF SumsUp
  <2>5. sumG[r] = sumF[r] + (IF a \in r THEN G[a] - F[a] ELSE 0) BY <1>2, <2>1
  <2>6. F[c] \in Int /\ G[c] \in Int /\ F[a] \in Int /\ G[a] \in Int BY <2>1
  <2>7. a \in r <=> a \in s /\ a # c OBVIOUS
  <2> HIDE DEF r, c
  <2>8. CASE a = c
    <3>1. a \in s /\ a \notin r BY <2>1, <2>7, <2>8
    <3>2. sumG[s] = sumF[s] + (G[a] - F[a]) BY <2>2, <2>4, <2>5, <2>6, <2>8, <3>1
    <3> QED BY <3>1, <3>2
  <2>9. CASE a # c
    <3>1. F[c] = G[c] BY <2>1, <2>9
    <3>2. sumG[s] = sumF[s] + (IF a \in s THEN G[a] - F[a] ELSE 0)
      BY <2>2, <2>4, <2>5, <2>6, <2>7, <2>9, <3>1
    <3> QED BY <3>2
  <2> QED BY <2>8, <2>9
<1> HIDE DEF T
<1>3. \A s \in SUBSET S : s \in T BY <1>1, <1>2, SubsetInduction
<1>4. S \in T BY <1>3
<1> QED BY <1>4 DEF T

\* What the part computes is such a sum: over the flushers, of what each holds of group g.
Total(held, g, S) == Traffic!MapThenSumSet(LAMBDA f : held[f][g], S)

\* The sum the traffic counts by satisfies its defining equation.
LEMMA TotalIsSum ==
  ASSUME NEW S, IsFiniteSet(S), NEW held, NEW g, \A f \in S : held[f][g] \in Int
  PROVE  \E sum : /\ SumsUp(sum, [f \in S |-> held[f][g]], S)
                  /\ Total(held, g, S) = sum[S]
<1> DEFINE F == [f \in S |-> held[f][g]]
           Iter(h) == h = [s \in SUBSET S |->
                             IF s = {} THEN 0
                             ELSE held[CHOOSE x \in s : TRUE][g]
                                  + h[s \ {CHOOSE x \in s : TRUE}]]
           sum == CHOOSE h : Iter(h)
<1>1. \E h : SumsUp(h, F, S) BY SumExists
<1>2. ASSUME NEW s \in SUBSET S, s # {} PROVE F[Chosen(s)] = held[Chosen(s)][g]
  BY <1>2, ChosenIn
<1>3. \E h : Iter(h)
  <2>1. PICK h : SumsUp(h, F, S) BY <1>1
  <2>2. Iter(h) BY <1>2, <2>1 DEF SumsUp, Chosen
  <2> QED BY <2>2
<1>4. ASSUME NEW h, Iter(h) PROVE SumsUp(h, F, S)
  <2> DEFINE T == {s \in SUBSET S : h[s] \in Int}
  <2>1. \A s \in SUBSET S : h[s] = IF s = {} THEN 0
                                   ELSE F[Chosen(s)] + h[s \ {Chosen(s)}]
    BY <1>2, <1>4 DEF Chosen
  <2>2. {} \in T
    <3>1. h[{}] = 0 BY <2>1
    <3> QED BY <3>1
  <2>3. ASSUME NEW s \in SUBSET S, s # {}, \A x \in s : s \ {x} \in T PROVE s \in T
    <3>1. Chosen(s) \in s BY <2>3, ChosenIn
    <3>2. F[Chosen(s)] \in Int /\ h[s \ {Chosen(s)}] \in Int BY <2>3, <3>1
    <3>3. h[s] = F[Chosen(s)] + h[s \ {Chosen(s)}] BY <2>1, <2>3
    <3> QED BY <3>2, <3>3
  <2> HIDE DEF T
  <2>4. \A s \in SUBSET S : s \in T BY <2>2, <2>3, SubsetInduction
  <2>5. \A s \in SUBSET S : h[s] \in Int BY <2>4 DEF T
  <2>6. h \in [SUBSET S -> Int]
    <3>1. DOMAIN h = SUBSET S /\ h = [s \in SUBSET S |-> h[s]] BY <1>4
    <3> QED BY <2>5, <3>1
  <2> QED BY <2>1, <2>6 DEF SumsUp
<1>5. Total(held, g, S) = sum[S]
  BY DEF Total, Traffic!MapThenSumSet, Traffic!MapThenFoldSet
<1>6. SumsUp(sum, F, S)
  <2> HIDE DEF Iter
  <2>1. Iter(sum) BY <1>3
  <2> QED BY <1>4, <2>1
<1> QED BY <1>5, <1>6

\* The total changes by what one flusher's share changes by.
LEMMA TotalChanges ==
  ASSUME NEW S, IsFiniteSet(S), NEW a \in S, NEW held, NEW kept, NEW g,
         \A f \in S : held[f][g] \in Int /\ kept[f][g] \in Int,
         \A f \in S : f # a => held[f][g] = kept[f][g]
  PROVE  /\ Total(held, g, S) \in Int
         /\ Total(kept, g, S) = Total(held, g, S) + (kept[a][g] - held[a][g])
<1> DEFINE F == [f \in S |-> held[f][g]]
           G == [f \in S |-> kept[f][g]]
<1>1. PICK sumF : SumsUp(sumF, F, S) /\ Total(held, g, S) = sumF[S] BY TotalIsSum
<1>2. PICK sumG : SumsUp(sumG, G, S) /\ Total(kept, g, S) = sumG[S] BY TotalIsSum
<1>3. sumF[S] \in Int BY <1>1 DEF SumsUp
<1>4. F \in [S -> Int] /\ G \in [S -> Int] OBVIOUS
<1>5. \A f \in S : f # a => F[f] = G[f] OBVIOUS
<1>6. F[a] = held[a][g] /\ G[a] = kept[a][g] OBVIOUS
<1> HIDE DEF F, G
<1>7. sumG[S] = sumF[S] + (G[a] - F[a]) BY <1>1, <1>2, <1>4, <1>5, SumChanges
<1> QED BY <1>1, <1>2, <1>3, <1>6, <1>7

\* A total of nothing is nothing.
LEMMA TotalOfNothing ==
  ASSUME NEW S, IsFiniteSet(S), NEW held, NEW g, \A f \in S : held[f][g] = 0
  PROVE  Total(held, g, S) = 0
<1> DEFINE F == [f \in S |-> held[f][g]]
<1>1. PICK sum : SumsUp(sum, F, S) /\ Total(held, g, S) = sum[S] BY TotalIsSum
<1> DEFINE T == {s \in SUBSET S : sum[s] = 0}
<1>2. {} \in T BY <1>1 DEF SumsUp
<1>3. ASSUME NEW s \in SUBSET S, s # {}, \A x \in s : s \ {x} \in T PROVE s \in T
  <2>1. Chosen(s) \in s BY <1>3, ChosenIn
  <2>2. sum[s] = F[Chosen(s)] + sum[s \ {Chosen(s)}] BY <1>1, <1>3 DEF SumsUp
  <2>3. F[Chosen(s)] = 0 BY <2>1
  <2> QED BY <1>3, <2>1, <2>2, <2>3
<1> HIDE DEF T
<1>4. \A s \in SUBSET S : s \in T BY <1>2, <1>3, SubsetInduction
<1>5. S \in T BY <1>4
<1> QED BY <1>1, <1>5 DEF T
-----------------------------------------------------------------------------
(* Exits.                                                                   *)

\* What a request carries before it leaves, and what it may be given instead, are exits
\* its row has had since it was chosen.
CarriesItsExit ==
  \A c \in Exits!Requester :
    /\ step[c] # "idle" => account[c] # None
    /\ step[c] = "chosen" => account[c].exit \in seen[c]
    /\ step[c] = "chosen" /\ account[c].id # Exits!NoRow /\ accounts[account[c].id] # None =>
         accounts[account[c].id].exit \in seen[c]
\* A login is on its way only while it is pending.
LoginIsPending == step[Login] # "idle" => session # None

\* A request carries and uses an exit its account has had since it was chosen.
ExitsInv == Exits!TypeOK /\ CarriesItsExit /\ LoginIsPending /\ Exits!UsesItsExit
-----------------------------------------------------------------------------

\* The first states.
LEMMA ExitsBegin == ASSUME Exits!Init PROVE ExitsInv
BY ExitConstants DEF Exits!Init, ExitsInv, Exits!TypeOK, CarriesItsExit, LoginIsPending,
   Exits!UsesItsExit, Exits!Requester

AccountRow == [alias : Alias, exit : Exits!Exit]

\* A request starts with the exit of a row that is there, or of a login.
LEMMA StartKeeps ==
  ASSUME ExitsInv, NEW c \in Exits!Requester,
         NEW i \in RowId \cup {Exits!NoRow}, NEW x \in Exits!Exit,
         Exits!Start(c, i, x), UNCHANGED <<accounts, pools, via, session, edit, changes>>,
         i # Exits!NoRow => accounts[i].exit = x,
         c = Login => session # None
  PROVE  ExitsInv'
<1> USE DEF ExitsInv, Exits!TypeOK, Exits!Start, Exits!Carry, Exits!Goto
<1>0. [id |-> i, exit |-> x] \in Exits!Carried BY DEF Exits!Carried
<1>1. Exits!TypeOK' BY <1>0
<1>2. CarriesItsExit' BY <1>0, ExitConstants DEF CarriesItsExit
<1>3. LoginIsPending' BY DEF LoginIsPending
<1>4. Exits!UsesItsExit' BY DEF Exits!UsesItsExit
<1> QED BY <1>1, <1>2, <1>3, <1>4

\* A request ends and is forgotten.
LEMMA EndKeeps ==
  ASSUME ExitsInv, NEW c \in Exits!Requester, Exits!End(c),
         UNCHANGED <<accounts, pools, edit, changes>>,
         session' = session \/ (c = Login /\ session' = None)
  PROVE  ExitsInv'
<1> USE DEF ExitsInv, Exits!TypeOK, Exits!End, Exits!Goto
<1>1. Exits!TypeOK' OBVIOUS
<1>2. CarriesItsExit' BY DEF CarriesItsExit
<1>3. LoginIsPending' BY DEF LoginIsPending, Exits!Requester
<1>4. Exits!UsesItsExit' BY DEF Exits!UsesItsExit
<1> QED BY <1>1, <1>2, <1>3, <1>4

\* The table is written, and no request but one that ends is given another row.
LEMMA WriteKeeps ==
  ASSUME ExitsInv, NEW table \in [RowId -> AccountRow \cup {None}], Exits!Write(table),
         UNCHANGED pools,
         \/ UNCHANGED <<step, account, via, session>>
         \/ /\ session # None /\ step[Login] = "authorized"
            /\ Exits!Goto(Login, "imported") /\ UNCHANGED <<account, via, session>>
         \/ /\ Exits!Goto(Login, "idle") /\ session' = None
            /\ account' = [account EXCEPT ![Login] = None] /\ via' = [via EXCEPT ![Login] = None],
         edit' \in [id : RowId, alias : Alias, exit : Exits!Exit \cup {None}] \cup {None},
         changes' \in 0 .. MaxChanges
  PROVE  ExitsInv'
<1> USE DEF ExitsInv, Exits!TypeOK, Exits!Write, Exits!Goto
<1>1. \A c \in Exits!Requester : Exits!Of(c, table) \subseteq Exits!Exit
  BY DEF Exits!Of, AccountRow, Exits!Carried
<1>2. Exits!TypeOK' BY <1>1 DEF AccountRow, Exits!Requester
<1>3. \A c \in Exits!Requester : seen[c] \subseteq seen'[c]
  BY <1>1
<1>4. CarriesItsExit'
  <2> SUFFICES ASSUME NEW c \in Exits!Requester, step'[c] # "idle" PROVE CarriesItsExit!(c)'
    BY DEF CarriesItsExit
  <2>1. step[c] # "idle" /\ account'[c] = account[c] /\ account[c] # None
    BY DEF CarriesItsExit, Exits!Requester
  <2>2. step'[c] = "chosen" => step[c] = "chosen"
    BY DEF Exits!Requester
  <2>3. account[c].id # Exits!NoRow /\ table[account[c].id] # None
        => table[account[c].id].exit \in seen'[c]
    BY <2>1 DEF Exits!Of
  <2> QED BY <2>1, <2>2, <2>3, <1>3 DEF CarriesItsExit
<1>5. LoginIsPending' BY DEF LoginIsPending, Exits!Requester
<1>6. Exits!UsesItsExit' BY <1>3 DEF Exits!UsesItsExit, Exits!Requester
<1> QED BY <1>2, <1>4, <1>5, <1>6

\* A request that chooses an account takes over its exit.
LEMMA ChooseStep == ASSUME ExitsInv, NEW c \in Outgoing, Exits!Choose(c) PROVE ExitsInv'
<1>1. PICK i \in RowId : Exits!Here(i) /\ Exits!Start(c, i, accounts[i].exit)
  BY DEF Exits!Choose
<1>2. accounts[i].exit \in Exits!Exit BY <1>1 DEF Exits!Here, ExitsInv, Exits!TypeOK
<1>3. c \in Exits!Requester /\ c # Login BY ExitConstants DEF Exits!Requester
<1> QED BY <1>1, <1>2, <1>3, StartKeeps DEF Exits!Choose

\* A pool is looked up, and built anew when the exit of the row has changed.
LEMMA GetStep == ASSUME ExitsInv, NEW c \in Outgoing, Exits!Get(c) PROVE ExitsInv'
<1> DEFINE i == account[c].id
           x == accounts[i].exit
<1>0. c \in Exits!Requester BY DEF Exits!Requester
<1>1. CASE Exits!Here(i)
  <2>1. /\ step[c] = "chosen" /\ i \in RowId /\ account[c] # None
        /\ x \in Exits!Exit /\ x \in seen[c]
    BY <1>0, <1>1 DEF Exits!Get, Exits!Here, ExitsInv, Exits!TypeOK, Exits!Carried,
       CarriesItsExit
  <2>2. [id |-> i, exit |-> x] \in Exits!Carried BY <2>1 DEF Exits!Carried
  <2>3. /\ account' = [account EXCEPT ![c] = [id |-> i, exit |-> x]]
        /\ UNCHANGED <<accounts, pools, step, via, seen, session, edit, changes>>
    BY <1>1 DEF Exits!Get, Exits!Carry
  <2>4. Exits!TypeOK' BY <2>2, <2>3 DEF ExitsInv, Exits!TypeOK
  <2>5. CarriesItsExit'
    BY <1>0, <2>1, <2>2, <2>3, ExitConstants DEF ExitsInv, Exits!TypeOK, CarriesItsExit
  <2> QED BY <2>3, <2>4, <2>5 DEF ExitsInv, LoginIsPending, Exits!UsesItsExit
<1>2. CASE ~Exits!Here(i)
  BY <1>0, <1>2, EndKeeps DEF Exits!Get
<1> QED BY <1>1, <1>2

\* The exit of the pool is the one the request carries.
LEMMA RoundTripStep ==
  ASSUME ExitsInv, NEW c \in Exits!Requester, Exits!RoundTrip(c) PROVE ExitsInv'
<1> USE DEF ExitsInv, Exits!TypeOK
<1>1. /\ step[c] = "chosen" /\ account[c] \in Exits!Carried
      /\ account[c].exit \in seen[c] /\ account[c].exit \in Exits!Exit
  BY DEF Exits!RoundTrip, CarriesItsExit, Exits!Carried
<1>2. /\ via' = [via EXCEPT ![c] = account[c].exit]
      /\ \/ UNCHANGED pools
         \/ /\ account[c].id # Exits!NoRow
            /\ pools' = [pools EXCEPT ![account[c].id] = account[c].exit]
  BY DEF Exits!RoundTrip, Exits!PoolFor
<1>3. /\ step' = [step EXCEPT ![c] = "sent"]
      /\ UNCHANGED <<accounts, account, seen, session, edit, changes>>
  BY DEF Exits!RoundTrip, Exits!Goto
<1>4. Exits!TypeOK' BY <1>1, <1>2, <1>3 DEF Exits!Carried
<1>5. CarriesItsExit' BY <1>1, <1>3 DEF CarriesItsExit
<1>6. LoginIsPending' BY <1>1, <1>3 DEF LoginIsPending
<1>7. Exits!UsesItsExit' BY <1>1, <1>2, <1>3 DEF Exits!UsesItsExit
<1> QED BY <1>4, <1>5, <1>6, <1>7

\* An answer leaves accounts and pools as they are.
LEMMA AnsweredStep == ASSUME ExitsInv, NEW c \in Exits!Requester, Exits!Answered(c) PROVE ExitsInv'
<1>1. CASE /\ c = Login /\ account[c].id = Exits!NoRow /\ Exits!Goto(c, "authorized")
           /\ UNCHANGED <<account, via, seen, session>>
  <2> USE DEF ExitsInv, Exits!TypeOK, Exits!Goto, Exits!Answered
  <2>1. Exits!TypeOK' BY <1>1
  <2>2. CarriesItsExit' BY <1>1 DEF CarriesItsExit
  <2>3. LoginIsPending' BY <1>1 DEF LoginIsPending
  <2>4. Exits!UsesItsExit' BY <1>1 DEF Exits!UsesItsExit
  <2> QED BY <2>1, <2>2, <2>3, <2>4
<1> QED BY <1>1, EndKeeps DEF Exits!Answered

\* The pending login is another one, or over, while none of its requests is under way.
LEMMA SessionStep ==
  ASSUME ExitsInv, Exits!startClaudeOAuth \/ Exits!SessionExpires PROVE ExitsInv'
<1> USE DEF Exits!startClaudeOAuth, Exits!SessionExpires, Exits!requesters, ExitsInv, Exits!TypeOK
<1>1. /\ step[Login] = "idle" /\ UNCHANGED <<accounts, pools, step, account, via, seen, edit>>
      /\ session' \in [alias : Alias, exit : Exits!Exit, id : RowId \cup {Exits!NoRow}] \cup {None}
      /\ changes' \in 0 .. MaxChanges
  BY ExitConstants DEF Exits!Changed, Exits!Here
<1>2. Exits!TypeOK' BY <1>1
<1> QED BY <1>1, <1>2 DEF CarriesItsExit, LoginIsPending, Exits!UsesItsExit

\* A login exchanges its code through the exit of its session.
LEMMA ExchangeStep == ASSUME ExitsInv, Exits!exchangeClaudeOAuth PROVE ExitsInv'
<1>0. Login \in Exits!Requester BY DEF Exits!Requester
<1>1. /\ session # None /\ session.id \in RowId \cup {Exits!NoRow} /\ session.exit \in Exits!Exit
      /\ Exits!Here(session.id) /\ session.id \in RowId => accounts[session.id].exit \in Exits!Exit
  BY DEF Exits!exchangeClaudeOAuth, ExitsInv, Exits!TypeOK, Exits!Here
<1> QED BY <1>0, <1>1, StartKeeps DEF Exits!exchangeClaudeOAuth

\* An import fails or writes a table of accounts.
LEMMA ImportTable ==
  ASSUME ExitsInv, NEW a \in Alias, Exits!Imported(a)
  PROVE  Exits!Leave \/ \E table \in [RowId -> AccountRow \cup {None}] : Exits!Write(table)
<1>1. CASE Exits!Named(a) # {} BY <1>1 DEF Exits!Imported
<1>2. CASE Exits!Named(a) = {}
  <2>1. PICK i \in RowId : Exits!Write([accounts EXCEPT ![i] = [alias |-> a, exit |-> Exits!Direct]])
    BY <1>2 DEF Exits!Imported
  <2>2. [accounts EXCEPT ![i] = [alias |-> a, exit |-> Exits!Direct]]
          \in [RowId -> AccountRow \cup {None}]
    BY DEF ExitsInv, Exits!TypeOK, AccountRow, Exits!Exit
  <2> QED BY <2>1, <2>2
<1> QED BY <1>1, <1>2

\* A table with one row rewritten is a table.
LEMMA RewrittenTable ==
  ASSUME ExitsInv, NEW a \in Alias, NEW x \in Exits!Exit
  PROVE  Exits!Rewritten(a, x) \in [RowId -> AccountRow \cup {None}]
BY DEF Exits!Rewritten, Exits!Named, ExitsInv, Exits!TypeOK, AccountRow

\* The login writes its account.
LEMMA ImportAccountStep == ASSUME ExitsInv, Exits!ImportAccount PROVE ExitsInv'
<1>1. /\ step[Login] = "authorized" /\ session # None /\ session.alias \in Alias
      /\ edit' = edit /\ changes' = changes
  BY DEF Exits!ImportAccount, ExitsInv, Exits!TypeOK, LoginIsPending
<1>2. /\ edit' \in [id : RowId, alias : Alias, exit : Exits!Exit \cup {None}] \cup {None}
      /\ changes' \in 0 .. MaxChanges
  BY <1>1 DEF ExitsInv, Exits!TypeOK
<1>3. CASE Exits!Leave
  <2> USE DEF ExitsInv, Exits!TypeOK, Exits!Goto, Exits!ImportAccount, Exits!Leave, Exits!Requester
  <2>1. Exits!TypeOK' BY <1>3
  <2>2. CarriesItsExit' BY <1>3 DEF CarriesItsExit
  <2>3. LoginIsPending' BY <1>3 DEF LoginIsPending
  <2>4. Exits!UsesItsExit' BY <1>3 DEF Exits!UsesItsExit
  <2> QED BY <2>1, <2>2, <2>3, <2>4
<1>4. ASSUME NEW table \in [RowId -> AccountRow \cup {None}], Exits!Write(table) PROVE ExitsInv'
  BY <1>1, <1>2, <1>4, WriteKeeps DEF Exits!ImportAccount
<1> QED BY <1>1, <1>3, <1>4, ImportTable DEF Exits!ImportAccount

\* The exit chosen for the login is written after its account.
LEMMA PersistStep == ASSUME ExitsInv, Exits!PersistExit PROVE ExitsInv'
<1>1. session # None /\ session.alias \in Alias /\ session.exit \in Exits!Exit
  BY DEF Exits!PersistExit, ExitsInv, Exits!TypeOK, LoginIsPending
<1>2. Exits!Rewritten(session.alias, session.exit) \in [RowId -> AccountRow \cup {None}]
  BY <1>1, RewrittenTable
<1>3. /\ edit' \in [id : RowId, alias : Alias, exit : Exits!Exit \cup {None}] \cup {None}
      /\ changes' \in 0 .. MaxChanges
  BY DEF Exits!PersistExit, ExitsInv, Exits!TypeOK
<1> QED BY <1>2, <1>3, WriteKeeps DEF Exits!PersistExit

\* A login that fails writes nothing.
LEMMA LoginFailsStep == ASSUME ExitsInv, Exits!LoginFails PROVE ExitsInv'
BY EndKeeps DEF Exits!LoginFails, Exits!Requester

\* The console's calls; none of them moves a request.
LEMMA ConsoleStep ==
  ASSUME ExitsInv,
         \/ Exits!importAccount \/ Exits!setAccountProxy \/ Exits!SetAccountProxy
         \/ Exits!deleteAccount \/ Exits!forget \/ Exits!renameAccount
  PROVE  ExitsInv'
<1> DEFINE Edits == [id : RowId, alias : Alias, exit : Exits!Exit \cup {None}] \cup {None}
<1>0. edit \in Edits /\ changes \in 0 .. MaxChanges BY DEF ExitsInv, Exits!TypeOK
<1>1. ASSUME Exits!Leave, UNCHANGED <<step, account, via, session>>, edit' \in Edits,
             changes' \in 0 .. MaxChanges, pools' \in [RowId -> Exits!Exit \cup {None}]
      PROVE  ExitsInv'
  <2>1. Exits!TypeOK' BY <1>1 DEF Exits!Leave, ExitsInv, Exits!TypeOK
  <2> QED
    BY <1>1, <2>1 DEF Exits!Leave, ExitsInv, CarriesItsExit, LoginIsPending,
       Exits!UsesItsExit
<1>2. pools \in [RowId -> Exits!Exit \cup {None}] BY DEF ExitsInv, Exits!TypeOK
<1>3. Exits!Changed => changes' \in 0 .. MaxChanges BY <1>0, ExitConstants DEF Exits!Changed
<1>4. CASE Exits!importAccount
  <2>1. PICK a \in Alias : Exits!Imported(a) BY <1>4 DEF Exits!importAccount
  <2>2. ASSUME NEW table \in [RowId -> AccountRow \cup {None}], Exits!Write(table) PROVE ExitsInv'
    BY <1>0, <1>4, <2>2, WriteKeeps DEF Exits!importAccount, Exits!requesters
  <2> QED
    BY <1>0, <1>1, <1>2, <1>4, <2>1, <2>2, ImportTable DEF Exits!importAccount,
       Exits!requesters
<1>5. CASE Exits!setAccountProxy
  <2>1. PICK i \in RowId, x \in Exits!Exit :
          Exits!Here(i) /\ edit' = [id |-> i, alias |-> accounts[i].alias, exit |-> x]
    BY <1>5 DEF Exits!setAccountProxy
  <2>2. edit' \in Edits BY <2>1 DEF Exits!Here, ExitsInv, Exits!TypeOK
  <2> QED
    BY <1>1, <1>2, <1>3, <1>5, <2>2 DEF Exits!setAccountProxy, Exits!requesters, Exits!Leave
<1>6. CASE Exits!SetAccountProxy
  <2>1. /\ edit.alias \in Alias /\ edit.exit \in Exits!Exit
        /\ edit \in [id : RowId, alias : Alias, exit : Exits!Exit \cup {None}]
    BY <1>0, <1>6 DEF Exits!SetAccountProxy
  <2>2. CASE edit' = None /\ Exits!Leave
    BY <1>0, <1>1, <1>2, <1>6, <2>2 DEF Exits!SetAccountProxy, Exits!requesters
  <2>3. CASE /\ Exits!Write(Exits!Rewritten(edit.alias, edit.exit))
             /\ edit' = [edit EXCEPT !.exit = None]
    <3>1. edit' \in Edits BY <2>1, <2>3
    <3> QED
      BY <1>0, <1>6, <2>1, <2>3, <3>1, RewrittenTable, WriteKeeps DEF Exits!SetAccountProxy,
         Exits!requesters
  <2> QED BY <1>6, <2>2, <2>3 DEF Exits!SetAccountProxy
<1>7. CASE Exits!deleteAccount
  <2>1. PICK i \in RowId :
          /\ Exits!Here(i) /\ Exits!Write([accounts EXCEPT ![i] = None])
          /\ edit' = [id |-> i, alias |-> accounts[i].alias, exit |-> None]
    BY <1>7 DEF Exits!deleteAccount
  <2>2. edit' \in Edits BY <2>1 DEF Exits!Here, ExitsInv, Exits!TypeOK
  <2>3. [accounts EXCEPT ![i] = None] \in [RowId -> AccountRow \cup {None}]
    BY DEF ExitsInv, Exits!TypeOK, AccountRow
  <2> QED BY <1>3, <1>7, <2>1, <2>2, <2>3, WriteKeeps DEF Exits!deleteAccount, Exits!requesters
<1>8. CASE Exits!forget
  <2>1. pools' \in [RowId -> Exits!Exit \cup {None}] BY <1>2, <1>8 DEF Exits!forget
  <2> QED BY <1>0, <1>1, <1>8, <2>1 DEF Exits!forget, Exits!requesters, Exits!Leave
<1>9. CASE Exits!renameAccount
  <2>1. PICK i \in RowId, a \in Alias :
          Exits!Here(i) /\ Exits!Write([accounts EXCEPT ![i].alias = a])
    BY <1>9 DEF Exits!renameAccount
  <2>2. [accounts EXCEPT ![i].alias = a] \in [RowId -> AccountRow \cup {None}]
    BY <2>1 DEF Exits!Here, ExitsInv, Exits!TypeOK, AccountRow
  <2> QED BY <1>0, <1>3, <1>9, <2>1, <2>2, WriteKeeps DEF Exits!renameAccount, Exits!requesters
<1> QED BY <1>4, <1>5, <1>6, <1>7, <1>8, <1>9

\* Every step of the exits keeps their invariant.
LEMMA ExitsStep == ASSUME ExitsInv, Exits!Next \/ UNCHANGED exitVars PROVE ExitsInv'
<1>1. CASE UNCHANGED exitVars
  BY <1>1 DEF exitVars, ExitsInv, Exits!TypeOK, CarriesItsExit, LoginIsPending,
     Exits!UsesItsExit
<1> QED BY <1>1, ChooseStep, GetStep, RoundTripStep, AnsweredStep, SessionStep, ExchangeStep,
           ImportAccountStep, PersistStep, LoginFailsStep, ConsoleStep DEF Exits!Next
-----------------------------------------------------------------------------
(* Traffic.                                                                 *)

\* The instance's cardinality is that of the standard module.
LEMMA TrafficCardinality == \A S : Traffic!Cardinality(S) = Cardinality(S)
BY DEF Traffic!Cardinality, Cardinality, Traffic!IsFiniteSet, IsFiniteSet

CountedOf(g) == {c \in Attempt : group[c] = g /\ attempt[c] \in {"record", "done"}}
Balanced ==
  \A g \in TrafficGroup :
    groups[g] + logged[g] + Total(taken, g, Traffic!Flusher) = Cardinality(CountedOf(g))

\* What an attempt has taken from the groups it still has to log, and an attempt is counted
\* once: in its group, with whoever took the group, or in the log.
TrafficInv ==
  /\ Traffic!TypeOK
  /\ \A f \in Traffic!Flusher : attempt[f] # "log" => taken[f] = Traffic!NoCounts
  /\ Cardinality(Traffic!Held) <= MaxGroups
  /\ Balanced

\* What the traffic's property says.
LEMMA CountIs == TrafficInv => Traffic!TrafficCounted
<1> SUFFICES ASSUME TrafficInv PROVE Traffic!TrafficCounted OBVIOUS
<1>1. ASSUME NEW g \in TrafficGroup
      PROVE groups[g] + logged[g]
            + Traffic!MapThenSumSet(LAMBDA f : taken[f][g], Traffic!Flusher)
            = Traffic!Cardinality({c \in Attempt : /\ group[c] = g
                                                   /\ attempt[c] \in {"record", "done"}})
  <2>1. groups[g] + logged[g] + Total(taken, g, Traffic!Flusher) = Cardinality(CountedOf(g))
    BY DEF TrafficInv, Balanced
  <2> QED BY <2>1, TrafficCardinality DEF Total, CountedOf
<1> QED BY <1>1, TrafficCardinality DEF TrafficInv, Traffic!TrafficCounted

\* Attempts and the ticker are finitely many.
LEMMA FlushersAreFinite == IsFiniteSet(Traffic!Flusher)
BY TrafficConstants, FS_AddElement DEF Traffic!Flusher

\* The first states.
LEMMA TrafficBegins == Traffic!Init => TrafficInv
<1> SUFFICES ASSUME Traffic!Init PROVE TrafficInv OBVIOUS
<1> USE TrafficConstants
<1>1. Traffic!TypeOK
  <2>1. 0 \in 0..MaxNow /\ 0 \in Traffic!Place BY DEF Traffic!Place
  <2> QED BY <2>1 DEF Traffic!Init, Traffic!TypeOK, Traffic!NoCounts
<1>2. \A f \in Traffic!Flusher : taken[f] = Traffic!NoCounts BY DEF Traffic!Init
<1>3. Cardinality(Traffic!Held) <= MaxGroups
  <2>1. Traffic!Held = {} BY DEF Traffic!Held, Traffic!Init, Traffic!NoCounts
  <2> QED BY <2>1, FS_EmptySet
<1>4. ASSUME NEW g \in TrafficGroup
      PROVE groups[g] + logged[g] + Total(taken, g, Traffic!Flusher)
            = Cardinality(CountedOf(g))
  <2>1. groups[g] = 0 /\ logged[g] = 0 BY DEF Traffic!Init, Traffic!NoCounts
  <2>2. \A f \in Traffic!Flusher : taken[f][g] = 0 BY <1>2 DEF Traffic!NoCounts
  <2>3. Total(taken, g, Traffic!Flusher) = 0 BY <2>2, FlushersAreFinite, TotalOfNothing
  <2>4. CountedOf(g) = {} BY DEF CountedOf, Traffic!Init, Traffic!Flusher
  <2> QED BY <2>1, <2>3, <2>4, FS_EmptySet
<1> QED BY <1>1, <1>2, <1>3, <1>4 DEF TrafficInv, Balanced

\* A step that moves no count keeps the balance.
LEMMA CountsNothing ==
  ASSUME TrafficInv, UNCHANGED <<groups, logged, taken, group>>,
         \A c \in Attempt : attempt'[c] \in {"record", "done"} <=>
                            attempt[c] \in {"record", "done"}
  PROVE  Cardinality(Traffic!Held)' <= MaxGroups /\ Balanced'
<1>1. Traffic!Held' = Traffic!Held BY DEF Traffic!Held
<1>2. \A g \in TrafficGroup : CountedOf(g)' = CountedOf(g) BY DEF CountedOf
<1>3. \A g \in TrafficGroup :
        Total(taken', g, Traffic!Flusher) = Total(taken, g, Traffic!Flusher)
  OBVIOUS
<1> QED BY <1>1, <1>2, <1>3 DEF TrafficInv, Balanced

\* An attempt that is added, before or after a flush makes room for its group.
LEMMA AddKeeps ==
  ASSUME TrafficInv, NEW c \in Attempt, Traffic!add(c)
  PROVE  TrafficInv'
<1> DEFINE Old == Traffic!Held
           n == group[c]
<1>1. n \in TrafficGroup /\ c \in Traffic!Flusher
  BY DEF TrafficInv, Traffic!TypeOK, Traffic!Flusher
<1>2. Traffic!TypeOK'
  <2>0. attempt' \in {[attempt EXCEPT ![c] = "flush"], [attempt EXCEPT ![c] = "record"]}
    BY DEF Traffic!add, Traffic!Goto
  <2>1. attempt' \in [Traffic!Flusher -> {"idle", "open", "add", "flush", "log", "record", "done"}]
    BY <1>1, <2>0 DEF TrafficInv, Traffic!TypeOK
  <2>2. groups' \in [TrafficGroup -> Nat]
    BY <1>1 DEF Traffic!add, Traffic!Goto, TrafficInv, Traffic!TypeOK
  <2> QED BY <2>1, <2>2 DEF Traffic!add, TrafficInv, Traffic!TypeOK, Traffic!recorder
<1>3. (\A f \in Traffic!Flusher : attempt[f] # "log" => taken[f] = Traffic!NoCounts)'
  BY <1>1 DEF Traffic!add, Traffic!Goto, TrafficInv, Traffic!TypeOK
<1> HIDE DEF Old, n
<1>a. \/ /\ n \notin Old /\ Cardinality(Old) >= MaxGroups
         /\ UNCHANGED groups /\ attempt' = [attempt EXCEPT ![c] = "flush"]
      \/ /\ n \in Old \/ ~(Cardinality(Old) >= MaxGroups)
         /\ groups' = [groups EXCEPT ![n] = @ + 1]
         /\ attempt' = [attempt EXCEPT ![c] = "record"]
  BY TrafficCardinality DEF Traffic!add, Traffic!Goto, Old, n
<1>b. attempt[c] = "add" /\ UNCHANGED <<logged, taken, group>>
  BY DEF Traffic!add
<1>4. CASE n \notin Old /\ Cardinality(Old) >= MaxGroups
  <2>1. UNCHANGED <<groups, logged, taken, group>> BY <1>4, <1>a, <1>b
  <2>2. \A x \in Attempt : attempt'[x] \in {"record", "done"} <=>
                            attempt[x] \in {"record", "done"}
    <3>1. attempt' = [attempt EXCEPT ![c] = "flush"] BY <1>4, <1>a
    <3> QED BY <1>b, <3>1 DEF TrafficInv, Traffic!TypeOK, Traffic!Flusher
  <2>3. Cardinality(Traffic!Held)' <= MaxGroups /\ Balanced' BY <2>1, <2>2, CountsNothing
  <2> QED BY <1>2, <1>3, <2>3 DEF TrafficInv
<1>5. CASE n \in Old \/ ~(Cardinality(Old) >= MaxGroups)
  <2>1. /\ groups' = [groups EXCEPT ![n] = @ + 1] /\ attempt' = [attempt EXCEPT ![c] = "record"]
        /\ UNCHANGED <<logged, taken, group>> /\ attempt[c] = "add"
    BY <1>5, <1>a, <1>b
  <2>2. Cardinality(Traffic!Held)' <= MaxGroups
    <3>1. Traffic!Held' = Old \cup {n}
      BY <1>1, <2>1 DEF Old, Traffic!Held, TrafficInv, Traffic!TypeOK
    <3>2. IsFiniteSet(Old) BY TrafficConstants, FS_Subset DEF Old, Traffic!Held
    <3>3. Cardinality(Old) \in Nat BY <3>2, FS_CardinalityType
    <3>4. Cardinality(Old \cup {n}) = IF n \in Old THEN Cardinality(Old) ELSE Cardinality(Old) + 1
      BY <3>2, FS_AddElement
    <3>5. Cardinality(Old) <= MaxGroups BY DEF Old, TrafficInv
    <3>6. Cardinality(Old \cup {n}) <= MaxGroups
      BY <1>5, <3>3, <3>4, <3>5, TrafficConstants
    <3> QED BY <3>1, <3>6
  <2>3. ASSUME NEW g \in TrafficGroup
        PROVE groups'[g] + logged'[g] + Total(taken', g, Traffic!Flusher)
              = Cardinality(CountedOf(g))'
    <3>1. groups[g] + logged[g] + Total(taken, g, Traffic!Flusher) = Cardinality(CountedOf(g))
      BY DEF TrafficInv, Balanced
    <3>2. \A f \in Traffic!Flusher : taken[f][g] \in Int BY DEF TrafficInv, Traffic!TypeOK
    <3>3. Total(taken, g, Traffic!Flusher) \in Int
      BY ONLY <1>1, <3>2, FlushersAreFinite, TotalChanges
    <3>4. groups[g] \in Nat /\ logged[g] \in Nat BY DEF TrafficInv, Traffic!TypeOK
    <3>5. CASE g # n
      <4>1. CountedOf(g)' = CountedOf(g)
        BY <1>1, <2>1, <3>5 DEF n, CountedOf, TrafficInv, Traffic!TypeOK
      <4>2. groups'[g] = groups[g] BY <2>1, <3>5 DEF TrafficInv, Traffic!TypeOK
      <4> QED BY <2>1, <3>1, <4>1, <4>2
    <3>6. CASE g = n
      <4>1. CountedOf(g)' = CountedOf(g) \cup {c}
        BY <1>1, <2>1, <3>6 DEF n, CountedOf, TrafficInv, Traffic!TypeOK
      <4>2. c \notin CountedOf(g) BY <2>1 DEF CountedOf
      <4>3. IsFiniteSet(CountedOf(g)) BY TrafficConstants, FS_Subset DEF CountedOf
      <4>4. Cardinality(CountedOf(g) \cup {c}) = Cardinality(CountedOf(g)) + 1
        BY <4>2, <4>3, FS_AddElement
      <4>5. groups'[g] = groups[g] + 1 BY <1>1, <2>1, <3>6 DEF TrafficInv, Traffic!TypeOK
      <4>6. logged'[g] = logged[g] /\ taken' = taken BY <2>1
      <4>7. groups'[g] + logged'[g] + Total(taken, g, Traffic!Flusher)
            = Cardinality(CountedOf(g)) + 1
        BY <3>1, <3>3, <3>4, <4>5, <4>6
      <4> QED BY <4>1, <4>4, <4>6, <4>7
    <3> QED BY <3>5, <3>6
  <2> QED BY <1>2, <1>3, <2>2, <2>3 DEF TrafficInv, Balanced
<1> QED BY <1>4, <1>5

\* A flush moves what is in the groups to its caller.
LEMMA FlushKeeps ==
  ASSUME TrafficInv, NEW f \in Traffic!Flusher, Traffic!flush(f)
  PROVE  TrafficInv'
<1>1. Traffic!TypeOK'
  <2>1. attempt' \in [Traffic!Flusher -> {"idle", "open", "add", "flush", "log", "record", "done"}]
    BY DEF Traffic!flush, Traffic!Goto, TrafficInv, Traffic!TypeOK
  <2>2. groups' \in [TrafficGroup -> Nat] /\ taken' \in [Traffic!Flusher -> [TrafficGroup -> Nat]]
    BY DEF Traffic!flush, Traffic!NoCounts, TrafficInv, Traffic!TypeOK
  <2> QED BY <2>1, <2>2 DEF Traffic!flush, TrafficInv, Traffic!TypeOK, Traffic!recorder
<1>2. (\A x \in Traffic!Flusher : attempt[x] # "log" => taken[x] = Traffic!NoCounts)'
  BY DEF Traffic!flush, Traffic!Goto, TrafficInv, Traffic!TypeOK
<1>3. Cardinality(Traffic!Held)' <= MaxGroups
  <2>1. Traffic!Held' = {} BY DEF Traffic!Held, Traffic!flush, Traffic!NoCounts
  <2> QED BY <2>1, FS_EmptySet, TrafficConstants
<1>4. ASSUME NEW g \in TrafficGroup
      PROVE groups'[g] + logged'[g] + Total(taken', g, Traffic!Flusher)
            = Cardinality(CountedOf(g))'
  <2>1. groups[g] + logged[g] + Total(taken, g, Traffic!Flusher) = Cardinality(CountedOf(g))
    BY DEF TrafficInv, Balanced
  <2>2. taken[f][g] = 0 BY DEF Traffic!flush, TrafficInv, Traffic!NoCounts
  <2>3. \A x \in Traffic!Flusher : taken[x][g] \in Int /\ taken'[x][g] \in Int
    BY <1>1 DEF TrafficInv, Traffic!TypeOK
  <2>4. taken'[f][g] = groups[g] /\ groups'[g] = 0 /\ logged'[g] = logged[g]
    BY DEF Traffic!flush, TrafficInv, Traffic!TypeOK, Traffic!NoCounts
  <2>5. \A x \in Traffic!Flusher : x # f => taken[x][g] = taken'[x][g]
    BY DEF Traffic!flush, TrafficInv, Traffic!TypeOK
  <2>6. /\ Total(taken, g, Traffic!Flusher) \in Int
        /\ Total(taken', g, Traffic!Flusher)
           = Total(taken, g, Traffic!Flusher) + (taken'[f][g] - taken[f][g])
    BY ONLY <2>3, <2>5, FlushersAreFinite, TotalChanges
  <2>7. CountedOf(g)' = CountedOf(g)
    BY DEF CountedOf, Traffic!flush, Traffic!Goto, TrafficInv, Traffic!TypeOK
  <2>8. groups[g] \in Nat /\ logged[g] \in Nat BY DEF TrafficInv, Traffic!TypeOK
  <2>9. groups'[g] + logged'[g] + Total(taken', g, Traffic!Flusher)
        = groups[g] + logged[g] + Total(taken, g, Traffic!Flusher)
    BY <2>2, <2>4, <2>6, <2>8
  <2> QED BY <2>1, <2>7, <2>9
<1> QED BY <1>1, <1>2, <1>3, <1>4 DEF TrafficInv, Balanced

\* What a flush took is written once.
LEMMA LogKeeps ==
  ASSUME TrafficInv, NEW f \in Traffic!Flusher, Traffic!log(f)
  PROVE  TrafficInv'
<1>1. Traffic!TypeOK'
  <2>1. attempt' \in [Traffic!Flusher -> {"idle", "open", "add", "flush", "log", "record", "done"}]
    BY DEF Traffic!log, Traffic!Goto, TrafficInv, Traffic!TypeOK
  <2>2. logged' \in [TrafficGroup -> Nat]
    BY DEF Traffic!log, Traffic!Add, TrafficInv, Traffic!TypeOK
  <2>3. taken' \in [Traffic!Flusher -> [TrafficGroup -> Nat]]
    BY DEF Traffic!log, Traffic!NoCounts, TrafficInv, Traffic!TypeOK
  <2> QED BY <2>1, <2>2, <2>3 DEF Traffic!log, TrafficInv, Traffic!TypeOK, Traffic!recorder
<1>2. (\A x \in Traffic!Flusher : attempt[x] # "log" => taken[x] = Traffic!NoCounts)'
  BY DEF Traffic!log, Traffic!Goto, TrafficInv, Traffic!TypeOK
<1>3. Cardinality(Traffic!Held)' <= MaxGroups
  BY DEF Traffic!Held, Traffic!log, TrafficInv
<1>4. ASSUME NEW g \in TrafficGroup
      PROVE groups'[g] + logged'[g] + Total(taken', g, Traffic!Flusher)
            = Cardinality(CountedOf(g))'
  <2>1. groups[g] + logged[g] + Total(taken, g, Traffic!Flusher) = Cardinality(CountedOf(g))
    BY DEF TrafficInv, Balanced
  <2>2. taken'[f][g] = 0 /\ groups'[g] = groups[g] /\ logged'[g] = logged[g] + taken[f][g]
    BY DEF Traffic!log, Traffic!Add, TrafficInv, Traffic!TypeOK, Traffic!NoCounts
  <2>3. \A x \in Traffic!Flusher : taken[x][g] \in Int /\ taken'[x][g] \in Int
    BY <1>1 DEF TrafficInv, Traffic!TypeOK
  <2>5. \A x \in Traffic!Flusher : x # f => taken[x][g] = taken'[x][g]
    BY DEF Traffic!log, TrafficInv, Traffic!TypeOK
  <2>6. /\ Total(taken, g, Traffic!Flusher) \in Int
        /\ Total(taken', g, Traffic!Flusher)
           = Total(taken, g, Traffic!Flusher) + (taken'[f][g] - taken[f][g])
    BY ONLY <2>3, <2>5, FlushersAreFinite, TotalChanges
  <2>7. CountedOf(g)' = CountedOf(g)
    BY DEF CountedOf, Traffic!log, Traffic!Goto, TrafficInv, Traffic!TypeOK
  <2>8. groups[g] \in Nat /\ logged[g] \in Nat /\ taken[f][g] \in Nat
    BY DEF TrafficInv, Traffic!TypeOK
  <2>9. groups'[g] + logged'[g] + Total(taken', g, Traffic!Flusher)
        = groups[g] + logged[g] + Total(taken, g, Traffic!Flusher)
    BY <2>2, <2>6, <2>8
  <2> QED BY <2>1, <2>7, <2>9
<1> QED BY <1>1, <1>2, <1>3, <1>4 DEF TrafficInv, Balanced

\* Every step of the traffic keeps its invariant.
LEMMA TrafficStep ==
  ASSUME TrafficInv, Traffic!Next \/ UNCHANGED trafficVars
  PROVE  TrafficInv'
<1> DEFINE Quiet == /\ UNCHANGED <<groups, logged, taken, group>>
                    /\ \A c \in Attempt : attempt'[c] \in {"record", "done"} <=>
                                          attempt[c] \in {"record", "done"}
                    /\ \A f \in Traffic!Flusher : attempt'[f] # "log" => attempt[f] # "log"
<1>1. ASSUME Quiet, Traffic!TypeOK' PROVE TrafficInv'
  BY <1>1, CountsNothing DEF TrafficInv
<1>2. Attempt \subseteq Traffic!Flusher BY DEF Traffic!Flusher
<1>3. Traffic!TypeOK BY DEF TrafficInv
<1>4. ASSUME NEW c \in Attempt, Traffic!observeTraffic(c) PROVE TrafficInv'
  <2>1. Traffic!TypeOK'
    BY <1>2, <1>3, <1>4 DEF Traffic!TypeOK, Traffic!observeTraffic, Traffic!Goto,
       Traffic!traffic, Traffic!recorder
  <2>2. Quiet
    BY <1>2, <1>3, <1>4 DEF Traffic!TypeOK, Traffic!observeTraffic, Traffic!Goto,
       Traffic!traffic
  <2> QED BY <1>1, <2>1, <2>2
<1>5. ASSUME NEW c \in Attempt, Traffic!finish(c) PROVE TrafficInv'
  <2>1. Traffic!TypeOK'
    BY <1>2, <1>3, <1>5 DEF Traffic!TypeOK, Traffic!finish, Traffic!Goto, Traffic!traffic,
       Traffic!recorder
  <2>2. Quiet
    BY <1>2, <1>3, <1>5 DEF Traffic!TypeOK, Traffic!finish, Traffic!Goto, Traffic!traffic
  <2> QED BY <1>1, <2>1, <2>2
<1>6. ASSUME NEW c \in Attempt, Traffic!record(c) PROVE TrafficInv'
  <2>1. Traffic!TypeOK'
    <3>1. attempt' \in [Traffic!Flusher -> {"idle", "open", "add", "flush", "log", "record", "done"}]
      BY <1>2, <1>3, <1>6 DEF Traffic!TypeOK, Traffic!record, Traffic!Goto
    <3>2. place' \in Traffic!Place
      <4>1. place \in Nat /\ place + 1 \in Int
        BY <1>3, TrafficConstants DEF Traffic!TypeOK, Traffic!Place
      <4>2. (place + 1) % Capacity \in 0..(Capacity - 1) BY <4>1, TrafficConstants
      <4> QED BY <1>6, <4>2 DEF Traffic!record, Traffic!Place
    <3>3. ring' \in [Traffic!Place -> Traffic!Record \cup {None}]
      BY <1>3, <1>6 DEF Traffic!TypeOK, Traffic!record, Traffic!Record
    <3>4. filled' \in BOOLEAN BY <1>3, <1>6 DEF Traffic!TypeOK, Traffic!record
    <3> QED
      BY <1>3, <1>6, <3>1, <3>2, <3>3, <3>4 DEF Traffic!TypeOK, Traffic!record,
         Traffic!traffic
  <2>2. Quiet
    BY <1>2, <1>3, <1>6 DEF Traffic!TypeOK, Traffic!record, Traffic!Goto, Traffic!traffic
  <2> QED BY <1>1, <2>1, <2>2
<1>7. ASSUME Traffic!tick PROVE TrafficInv'
  <2>1. Traffic!TypeOK'
    BY <1>3, <1>7 DEF Traffic!TypeOK, Traffic!tick, Traffic!Goto, Traffic!traffic,
       Traffic!recorder
  <2>2. Quiet
    BY <1>2, <1>3, <1>7 DEF Traffic!TypeOK, Traffic!tick, Traffic!Goto, Traffic!traffic
  <2> QED BY <1>1, <2>1, <2>2
<1>8. ASSUME Traffic!Tick PROVE TrafficInv'
  <2>1. Traffic!TypeOK'
    BY <1>3, <1>8, TrafficConstants DEF Traffic!TypeOK, Traffic!Tick, Traffic!traffic,
       Traffic!recorder
  <2>2. Quiet BY <1>8 DEF Traffic!Tick, Traffic!traffic
  <2> QED BY <1>1, <2>1, <2>2
<1>9. ASSUME UNCHANGED trafficVars PROVE TrafficInv'
  <2>1. Traffic!TypeOK' BY <1>3, <1>9 DEF Traffic!TypeOK, trafficVars
  <2>2. Quiet BY <1>9 DEF trafficVars
  <2> QED BY <1>1, <2>1, <2>2
<1> QED
  BY <1>4, <1>5, <1>6, <1>7, <1>8, <1>9, AddKeeps, FlushKeeps, LogKeeps DEF Traffic!Next
-----------------------------------------------------------------------------
(* Five-hour windows.                                                       *)

\* What the least and the greatest element of a set of integers are.
LEMMA MinIs ==
  ASSUME NEW T \in SUBSET Int, NEW x \in T, \A y \in T : x <= y
  PROVE  Windows!Min(T) = x
<1>1. \A z \in T : (\A y \in T : z <= y) => z = x
  <2>1. ASSUME NEW z \in T, \A y \in T : z <= y PROVE z = x
    <3>1. z <= x /\ x <= z /\ x \in Int /\ z \in Int BY <2>1
    <3> QED BY <3>1
  <2> QED BY <2>1
<1> QED BY <1>1 DEF Windows!Min

\* An upper bound that is a member is the maximum.
LEMMA MaxIs ==
  ASSUME NEW T \in SUBSET Int, NEW x \in T, \A y \in T : y <= x
  PROVE  Windows!Max(T) = x
<1>1. \A z \in T : (\A y \in T : z >= y) => z = x
  <2>1. ASSUME NEW z \in T, \A y \in T : z >= y PROVE z = x
    <3>1. z >= x /\ x >= z /\ x \in Int /\ z \in Int BY <2>1
    <3> QED BY <3>1
  <2> QED BY <2>1
<1>2. \A y \in T : x >= y BY SMT
<1> QED BY <1>1, <1>2 DEF Windows!Max

\* A finite set of integers that is not empty has a least and a greatest member.
LEMMA FiniteBounds ==
  ASSUME NEW S \in SUBSET Int, IsFiniteSet(S), S # {}
  PROVE  /\ \E x \in S : \A y \in S : x <= y
         /\ \E x \in S : \A y \in S : y <= x
<1> DEFINE Bounded(s) == /\ \E x \in s : \A y \in s : x <= y
                         /\ \E x \in s : \A y \in s : y <= x
           T == {s \in SUBSET S : s = {} \/ Bounded(s)}
<1>1. {} \in T OBVIOUS
<1>2. ASSUME NEW s \in SUBSET S, s # {}, \A x \in s : s \ {x} \in T PROVE s \in T
  <2>1. PICK c \in s : TRUE BY <1>2
  <2>2. c \in Int OBVIOUS
  <2>3. CASE s \ {c} = {}
    <3>1. s = {c} BY <2>1, <2>3
    <3>2. c <= c BY <2>2
    <3>3. Bounded(s) BY <3>1, <3>2
    <3> QED BY <3>3
  <2>4. CASE s \ {c} # {}
    <3>1. Bounded(s \ {c}) BY <1>2, <2>1, <2>4
    <3>2. PICK x \in s \ {c} : \A y \in s \ {c} : x <= y BY <3>1
    <3>3. PICK z \in s \ {c} : \A y \in s \ {c} : y <= z BY <3>1
    <3>4. x \in Int /\ z \in Int OBVIOUS
    <3>5. \E u \in s : \A y \in s : u <= y
      <4>1. CASE x <= c
        <5>1. \A y \in s : x <= y BY <3>2, <4>1
        <5> QED BY <5>1
      <4>2. CASE c <= x
        <5>1. \A y \in s : c <= y
          <6>1. ASSUME NEW y \in s, y # c PROVE c <= y
            <7>1. x <= y /\ y \in Int BY <3>2, <6>1
            <7> QED BY <2>2, <3>4, <4>2, <7>1
          <6>2. c <= c BY <2>2
          <6> QED BY <6>1, <6>2
        <5> QED BY <2>1, <5>1
      <4> QED BY <2>2, <3>4, <4>1, <4>2
    <3>6. \E u \in s : \A y \in s : y <= u
      <4>1. CASE c <= z
        <5>1. \A y \in s : y <= z BY <3>3, <4>1
        <5> QED BY <5>1
      <4>2. CASE z <= c
        <5>1. \A y \in s : y <= c
          <6>1. ASSUME NEW y \in s, y # c PROVE y <= c
            <7>1. y <= z /\ y \in Int BY <3>3, <6>1
            <7> QED BY <2>2, <3>4, <4>2, <7>1
          <6>2. c <= c BY <2>2
          <6> QED BY <6>1, <6>2
        <5> QED BY <2>1, <5>1
      <4> QED BY <2>2, <3>4, <4>1, <4>2
    <3>7. Bounded(s) BY <3>5, <3>6
    <3> QED BY <3>7
  <2> QED BY <2>3, <2>4
<1> HIDE DEF T
<1>3. \A s \in SUBSET S : s \in T BY <1>1, <1>2, SubsetInduction
<1>4. S \in T BY <1>3
<1> QED BY <1>4 DEF T

\* The least member of a finite set of integers.
LEMMA MinOf ==
  ASSUME NEW S \in SUBSET Int, IsFiniteSet(S), S # {}
  PROVE  Windows!Min(S) \in S /\ \A y \in S : Windows!Min(S) <= y
<1>1. PICK x \in S : \A y \in S : x <= y BY FiniteBounds
<1>2. Windows!Min(S) = x BY <1>1, MinIs
<1> QED BY <1>1, <1>2

\* The greatest member of a finite set of integers.
LEMMA MaxOf ==
  ASSUME NEW S \in SUBSET Int, IsFiniteSet(S), S # {}
  PROVE  Windows!Max(S) \in S /\ \A y \in S : y <= Windows!Max(S)
<1>1. PICK x \in S : \A y \in S : y <= x BY FiniteBounds
<1>2. Windows!Max(S) = x BY <1>1, MaxIs
<1> QED BY <1>1, <1>2

\* The lesser and the greater of two integers.
LEMMA OfTwo ==
  ASSUME NEW x \in Int, NEW y \in Int
  PROVE  /\ Windows!Min({x, y}) = IF x <= y THEN x ELSE y
         /\ Windows!Max({x, y}) = IF x <= y THEN y ELSE x
<1>1. CASE x <= y
  <2>1. Windows!Min({x, y}) = x BY <1>1, MinIs
  <2>2. Windows!Max({x, y}) = y BY <1>1, MaxIs
  <2> QED BY <1>1, <2>1, <2>2
<1>2. CASE ~(x <= y)
  <2>1. y <= x /\ x <= x /\ y <= y BY <1>2
  <2>2. Windows!Min({x, y}) = y BY <2>1, MinIs
  <2>3. Windows!Max({x, y}) = x BY <2>1, MaxIs
  <2> QED BY <1>2, <2>2, <2>3
<1> QED BY <1>1, <1>2
-----------------------------------------------------------------------------
\* A window says of a set of events what they say themselves.
Tells(w, E, ev) ==
  /\ w \in Windows!Window
  /\ \E e \in E : ev[e].at = w.first /\ ev[e].used = w.firstUsed
  /\ \E e \in E : ev[e].at = w.last /\ ev[e].used = w.lastUsed
  /\ \E e \in E : ev[e].used = w.maxUsed
  /\ \A e \in E : w.first <= ev[e].at /\ ev[e].at <= w.last /\ ev[e].used <= w.maxUsed
  /\ \/ w.exhausted = 0 /\ \A e \in E : ev[e].kind # "exhaustion"
     \/ /\ \E e \in E : ev[e].kind = "exhaustion" /\ ev[e].at = w.exhausted
        /\ \A e \in E : ev[e].kind = "exhaustion" => w.exhausted <= ev[e].at

\* A window has an event of its own and says of all it has summed up what they say
\* themselves.
WindowHolds(s) ==
  IF Windows!EventsOf(s) = {} THEN windows[s] = None /\ Windows!SummedUp(s) = {}
  ELSE Tells(windows[s], Windows!SummedUp(s), events)

\* An event in memory that is on record is there as it was reported, under an end next to
\* the one it reported.
Queued(e) ==
  said[e] # None /\ events[e] # None =>
    /\ events[e].at = said[e].at /\ events[e].used = said[e].used
    /\ events[e].kind = said[e].kind
    /\ said[e].end = 0 <=> events[e].end = 0
    /\ events[e].end # 0 => events[e].end \in said[e].end - 1 .. said[e].end + 1

\* Before the migration no event is in memory or astray.
Unmigrated ==
  version = 8 => \A e \in Event : said[e] = None /\ astray[e] = {}

WindowsInv ==
  /\ Windows!TypeOK /\ Unmigrated
  /\ Windows!OneWindowPerEnd /\ Windows!StraysAreNear
  /\ \A s \in ResetTime : WindowHolds(s)
  /\ \A e \in Event : Queued(e)

\* Ends, times and readings are natural numbers, and no end or time is 0.
LEMMA WindowNumbers ==
  /\ \A t \in Time : t \in Nat /\ t > 0
  /\ \A t \in ResetTime : t \in Nat /\ t > 0
  /\ \A u \in Percent : u \in Nat
<1>1. ResetTime \subseteq Nat \ {0} /\ Time \subseteq Nat \ {0} /\ Percent \subseteq Nat
  BY WindowConstants, Zenon
<1> QED BY ONLY <1>1

\* The fields of a reported observation.
LEMMA ObservationTypes ==
  ASSUME NEW o \in Windows!Reported
  PROVE  /\ o.at \in Time /\ o.at \in Nat /\ o.at > 0
         /\ o.used \in Percent \cup {-1} /\ o.used \in Int
         /\ o.kind \in Windows!Kinds /\ o.end \in ResetTime \cup {0} /\ o # None
         /\ o \in Windows!Observation
<1>1. o \in Windows!Observation BY DEF Windows!Reported
<1>2. /\ o.at \in Time /\ o.used \in Percent \cup {-1}
      /\ o.kind \in Windows!Kinds /\ o.end \in ResetTime \cup {0}
  BY <1>1 DEF Windows!Observation, Windows!NoEnd, Windows!NoReading
<1>3. o # None BY <1>1, WindowConstants
<1>4. o.at \in Nat /\ o.at > 0 BY <1>2, WindowNumbers
<1>5. o.used \in Int BY <1>2, WindowNumbers
<1> QED BY <1>1, <1>2, <1>3, <1>4, <1>5

\* The fields of a window.
LEMMA WindowTypes ==
  ASSUME NEW w \in Windows!Window
  PROVE  /\ w.first \in Time /\ w.first \in Nat /\ w.last \in Time /\ w.last \in Nat
         /\ w.firstUsed \in Percent \cup {-1} /\ w.lastUsed \in Percent \cup {-1}
         /\ w.maxUsed \in Percent \cup {-1} /\ w.maxUsed \in Int
         /\ w.exhausted \in Time \cup {0} /\ w.exhausted \in Nat /\ w # None
<1>1. /\ w.first \in Time /\ w.last \in Time
      /\ w.firstUsed \in Percent \cup {-1} /\ w.lastUsed \in Percent \cup {-1}
      /\ w.maxUsed \in Percent \cup {-1} /\ w.exhausted \in Time \cup {0}
  BY DEF Windows!Window, Windows!NoReading
<1>2. w # None BY WindowConstants
<1>3. w.first \in Nat /\ w.last \in Nat /\ w.exhausted \in Nat BY <1>1, WindowNumbers
<1>4. w.maxUsed \in Int BY <1>1, WindowNumbers
<1> QED BY <1>1, <1>2, <1>3, <1>4

\* A window that has summed up one event more tells of that one too.
Summed(w, o) ==
  IF o.kind = "exhaustion" THEN Windows!MarkExhausted(Windows!SumUp(w, o), o)
  ELSE Windows!SumUp(w, o)

\* A window summed up with one more observation tells of that one too.
LEMMA SumUpTells ==
  ASSUME NEW o \in Windows!Reported, NEW w, NEW E, NEW ev, NEW ev2, NEW e,
         \A f \in E : ev[f] \in Windows!Reported /\ ev2[f] = ev[f], ev2[e] = o,
         (w = None /\ E = {}) \/ Tells(w, E, ev)
  PROVE  Tells(Summed(w, o), E \cup {e}, ev2)
<1> DEFINE u == Windows!SumUp(w, o)
           D == E \cup {e}
<1>t. /\ o.at \in Time /\ o.at \in Nat /\ o.at > 0 /\ o.used \in Percent \cup {-1}
      /\ o.used \in Int
  BY ObservationTypes
<1>r. \A f \in E : ev[f].at \in Nat /\ ev[f].at > 0 /\ ev[f].used \in Int
  BY ObservationTypes
<1>1. /\ u \in Windows!Window
      /\ \E f \in D : ev2[f].at = u.first /\ ev2[f].used = u.firstUsed
      /\ \E f \in D : ev2[f].at = u.last /\ ev2[f].used = u.lastUsed
      /\ \E f \in D : ev2[f].used = u.maxUsed
      /\ \A f \in D : u.first <= ev2[f].at /\ ev2[f].at <= u.last /\ ev2[f].used <= u.maxUsed
      /\ u.exhausted = IF w = None THEN 0 ELSE w.exhausted
  <2>1. CASE w = None /\ E = {}
    <3>1. u = [first |-> o.at, last |-> o.at, firstUsed |-> o.used, lastUsed |-> o.used,
               maxUsed |-> o.used, exhausted |-> 0]
      BY <2>1 DEF Windows!SumUp
    <3>2. u \in Windows!Window BY <1>t, <3>1 DEF Windows!Window, Windows!NoReading
    <3>3. \A f \in D : ev2[f] = o BY <2>1
    <3> HIDE DEF u
    <3>4. u.first = o.at /\ u.last = o.at /\ u.firstUsed = o.used /\ u.lastUsed = o.used
          /\ u.maxUsed = o.used /\ u.exhausted = 0
      BY <3>1
    <3>5. \A f \in D : u.first <= ev2[f].at /\ ev2[f].at <= u.last /\ ev2[f].used <= u.maxUsed
      BY <1>t, <3>3, <3>4
    <3> QED BY <2>1, <3>2, <3>3, <3>4, <3>5
  <2>2. CASE Tells(w, E, ev)
    <3>0. w \in Windows!Window BY <2>2 DEF Tells
    <3>1. /\ w.first \in Time /\ w.first \in Nat /\ w.last \in Time /\ w.last \in Nat
          /\ w.firstUsed \in Percent \cup {-1} /\ w.lastUsed \in Percent \cup {-1}
          /\ w.maxUsed \in Percent \cup {-1} /\ w.maxUsed \in Int
          /\ w.exhausted \in Time \cup {0} /\ w # None
      BY <3>0, WindowTypes
    <3>2. u = [w EXCEPT !.first = IF w.first <= o.at THEN w.first ELSE o.at,
                        !.last = IF w.last <= o.at THEN o.at ELSE w.last,
                        !.firstUsed = IF o.at < w.first THEN o.used ELSE @,
                        !.lastUsed = IF o.at > w.last THEN o.used ELSE @,
                        !.maxUsed = IF w.maxUsed <= o.used THEN o.used ELSE w.maxUsed]
      <4> DEFINE a == Windows!Min({w.first, o.at})
                 b == Windows!Max({w.last, o.at})
                 c == Windows!Max({w.maxUsed, o.used})
      <4>2. u = [w EXCEPT !.first = a, !.last = b,
                          !.firstUsed = IF o.at < w.first THEN o.used ELSE @,
                          !.lastUsed = IF o.at > w.last THEN o.used ELSE @, !.maxUsed = c]
        BY <3>1, Zenon DEF Windows!SumUp
      <4> HIDE DEF u
      <4>1. w.first \in Int /\ w.last \in Int /\ w.maxUsed \in Int /\ o.at \in Int /\ o.used \in Int
        BY <1>t, <3>1
      <4>3. a = IF w.first <= o.at THEN w.first ELSE o.at BY ONLY <4>1, OfTwo
      <4>4. b = IF w.last <= o.at THEN o.at ELSE w.last BY ONLY <4>1, OfTwo
      <4>5. c = IF w.maxUsed <= o.used THEN o.used ELSE w.maxUsed BY ONLY <4>1, OfTwo
      <4> HIDE DEF a, b, c
      <4> QED BY <4>2, <4>3, <4>4, <4>5
    <3> HIDE DEF u
    <3>3. /\ u.first = IF w.first <= o.at THEN w.first ELSE o.at
          /\ u.last = IF w.last <= o.at THEN o.at ELSE w.last
          /\ u.firstUsed = IF o.at < w.first THEN o.used ELSE w.firstUsed
          /\ u.lastUsed = IF o.at > w.last THEN o.used ELSE w.lastUsed
          /\ u.maxUsed = IF w.maxUsed <= o.used THEN o.used ELSE w.maxUsed
          /\ u.exhausted = w.exhausted
      BY <3>0, <3>2 DEF Windows!Window
    <3>4. u \in Windows!Window
      BY <1>t, <3>0, <3>1, <3>2 DEF Windows!Window, Windows!NoReading
    <3>5. \E f \in D : ev2[f].at = u.first /\ ev2[f].used = u.firstUsed
      <4>1. CASE o.at < w.first
        <5>1. u.first = o.at /\ u.firstUsed = o.used BY <1>t, <3>1, <3>3, <4>1
        <5> QED BY <5>1
      <4>2. CASE ~(o.at < w.first)
        <5>1. u.first = w.first /\ u.firstUsed = w.firstUsed BY <1>t, <3>1, <3>3, <4>2
        <5>2. PICK f \in E : ev[f].at = w.first /\ ev[f].used = w.firstUsed BY <2>2 DEF Tells
        <5> QED BY <5>1, <5>2
      <4> QED BY <4>1, <4>2
    <3>6. \E f \in D : ev2[f].at = u.last /\ ev2[f].used = u.lastUsed
      <4>1. CASE o.at > w.last
        <5>1. u.last = o.at /\ u.lastUsed = o.used BY <1>t, <3>1, <3>3, <4>1
        <5> QED BY <5>1
      <4>2. CASE ~(o.at > w.last)
        <5>1. u.last = w.last /\ u.lastUsed = w.lastUsed BY <1>t, <3>1, <3>3, <4>2
        <5>2. PICK f \in E : ev[f].at = w.last /\ ev[f].used = w.lastUsed BY <2>2 DEF Tells
        <5> QED BY <5>1, <5>2
      <4> QED BY <4>1, <4>2
    <3>7. \E f \in D : ev2[f].used = u.maxUsed
      <4>1. CASE w.maxUsed <= o.used
        <5>1. u.maxUsed = o.used BY <3>3, <4>1
        <5> QED BY <5>1
      <4>2. CASE ~(w.maxUsed <= o.used)
        <5>1. u.maxUsed = w.maxUsed BY <3>3, <4>2
        <5>2. PICK f \in E : ev[f].used = w.maxUsed BY <2>2 DEF Tells
        <5> QED BY <5>1, <5>2
      <4> QED BY <4>1, <4>2
    <3>8. \A f \in D : u.first <= ev2[f].at /\ ev2[f].at <= u.last /\ ev2[f].used <= u.maxUsed
      <4>1. ASSUME NEW f \in E
            PROVE u.first <= ev2[f].at /\ ev2[f].at <= u.last /\ ev2[f].used <= u.maxUsed
        <5>1. w.first <= ev[f].at /\ ev[f].at <= w.last /\ ev[f].used <= w.maxUsed
          BY <2>2 DEF Tells
        <5>2. ev[f].at \in Nat /\ ev[f].used \in Int /\ ev2[f] = ev[f] BY <1>r
        <5> QED BY <1>t, <3>1, <3>3, <5>1, <5>2
      <4>2. u.first <= o.at /\ o.at <= u.last /\ o.used <= u.maxUsed BY <1>t, <3>1, <3>3
      <4> QED BY <4>1, <4>2
    <3> QED BY <3>1, <3>3, <3>4, <3>5, <3>6, <3>7, <3>8
  <2> QED BY <2>1, <2>2
<1>2. \/ u.exhausted = 0 /\ \A f \in E : ev[f].kind # "exhaustion"
      \/ /\ \E f \in E : ev[f].kind = "exhaustion" /\ ev[f].at = u.exhausted
         /\ \A f \in E : ev[f].kind = "exhaustion" => u.exhausted <= ev[f].at
  <2>1. CASE w = None /\ E = {} BY <1>1, <2>1
  <2>2. CASE Tells(w, E, ev)
    <3>1. w # None BY <2>2, WindowTypes DEF Tells
    <3>2. u.exhausted = w.exhausted BY <1>1, <3>1
    <3> QED BY <2>2, <3>2 DEF Tells
  <2> QED BY <2>1, <2>2
<1>3. u.exhausted \in Nat BY <1>1, WindowTypes
<1> HIDE DEF u
<1>4. CASE o.kind # "exhaustion"
  <2>1. Summed(w, o) = u BY <1>4 DEF Summed, u
  <2>2. \/ u.exhausted = 0 /\ \A f \in D : ev2[f].kind # "exhaustion"
        \/ /\ \E f \in D : ev2[f].kind = "exhaustion" /\ ev2[f].at = u.exhausted
           /\ \A f \in D : ev2[f].kind = "exhaustion" => u.exhausted <= ev2[f].at
    <3>1. CASE u.exhausted = 0 /\ \A f \in E : ev[f].kind # "exhaustion" BY <1>4, <3>1
    <3>2. CASE /\ \E f \in E : ev[f].kind = "exhaustion" /\ ev[f].at = u.exhausted
               /\ \A f \in E : ev[f].kind = "exhaustion" => u.exhausted <= ev[f].at
      BY <1>4, <3>2
    <3> QED BY <1>2, <3>1, <3>2
  <2> QED BY <1>1, <2>1, <2>2 DEF Tells
<1>5. CASE o.kind = "exhaustion"
  <2> DEFINE v == Windows!MarkExhausted(u, o)
  <2>1. Summed(w, o) = v BY <1>5 DEF Summed, u
  <2>2. /\ v \in Windows!Window
        /\ v.first = u.first /\ v.last = u.last /\ v.firstUsed = u.firstUsed
        /\ v.lastUsed = u.lastUsed /\ v.maxUsed = u.maxUsed
        /\ v.exhausted = IF u.exhausted = 0 \/ o.at < u.exhausted THEN o.at ELSE u.exhausted
    BY <1>1, <1>t DEF Windows!MarkExhausted, Windows!Window
  <2> HIDE DEF v
  <2>3. \E f \in D : ev2[f].kind = "exhaustion" /\ ev2[f].at = v.exhausted
    <3>1. CASE u.exhausted = 0 \/ o.at < u.exhausted BY <1>5, <2>2, <3>1
    <3>2. CASE ~(u.exhausted = 0 \/ o.at < u.exhausted)
      <4>1. v.exhausted = u.exhausted BY <2>2, <3>2
      <4>2. PICK f \in E : ev[f].kind = "exhaustion" /\ ev[f].at = u.exhausted BY <1>2, <3>2
      <4> QED BY <4>1, <4>2
    <3> QED BY <3>1, <3>2
  <2>4. \A f \in D : ev2[f].kind = "exhaustion" => v.exhausted <= ev2[f].at
    <3>1. ASSUME NEW f \in E, ev[f].kind = "exhaustion" PROVE v.exhausted <= ev[f].at
      <4>1. u.exhausted <= ev[f].at BY <1>2, <3>1
      <4>2. u.exhausted # 0
        <5>1. CASE u.exhausted = 0
          <6>1. PICK g \in E : ev[g].at = 0 BY <1>2, <3>1, <5>1
          <6>2. ev[g].at > 0 /\ ev[g].at \in Nat BY <1>r
          <6> QED BY <6>1, <6>2
        <5> QED BY <5>1
      <4>3. ev[f].at \in Nat BY <1>r
      <4> QED BY <1>t, <1>3, <2>2, <4>1, <4>2, <4>3
    <3>2. v.exhausted <= o.at BY <1>t, <1>3, <2>2
    <3> QED BY <3>1, <3>2
  <2> QED BY <1>1, <2>1, <2>2, <2>3, <2>4 DEF Tells
<1> QED BY <1>4, <1>5

\* The first states.
LEMMA WindowsBegin == Windows!Init => WindowsInv
<1> SUFFICES ASSUME Windows!Init PROVE WindowsInv OBVIOUS
<1>1. Windows!TypeOK BY DEF Windows!Init, Windows!TypeOK
<1>2. Windows!OnRecord = {} BY DEF Windows!Init, Windows!OnRecord
<1>3. ASSUME NEW s \in ResetTime PROVE WindowHolds(s)
  <2>1. Windows!EventsOf(s) = {} BY DEF Windows!Init, Windows!EventsOf
  <2>2. Windows!SummedUp(s) = {} BY <2>1 DEF Windows!Init, Windows!SummedUp
  <2> QED BY <2>1, <2>2 DEF Windows!Init, WindowHolds
<1>4. \A e \in Event : said[e] = None /\ astray[e] = {} BY DEF Windows!Init
<1>5. Windows!StraysAreNear BY <1>4 DEF Windows!StraysAreNear
<1>6. Unmigrated /\ \A e \in Event : Queued(e) BY <1>4 DEF Unmigrated, Queued
<1> QED BY <1>1, <1>2, <1>3, <1>5, <1>6 DEF WindowsInv, Windows!OneWindowPerEnd

\* An observation is as much a reported one under another end.
LEMMA OtherEnd ==
  ASSUME NEW o \in Windows!Reported, NEW end,
         o.end = 0 => end = 0, o.end # 0 => end \in ResetTime
  PROVE  LET p == [o EXCEPT !.end = end]
         IN  /\ p \in Windows!Reported /\ p.end = end
             /\ p.kind = o.kind /\ p.at = o.at /\ p.used = o.used
<1> DEFINE p == [o EXCEPT !.end = end]
<1>1. o \in Windows!Observation BY DEF Windows!Reported
<1>2. p \in Windows!Observation BY <1>1, ObservationTypes DEF Windows!Observation, Windows!NoEnd
<1>3. /\ p.end = end /\ p.kind = o.kind /\ p.used = o.used /\ p.at = o.at
  BY <1>1 DEF Windows!Observation
<1>4. p.end = 0 <=> o.end = 0 BY <1>3, WindowNumbers
<1>5. o.kind \in {"messages", "oauth_refresh", "exhaustion"}
  BY <1>1 DEF Windows!Observation, Windows!Kinds
<1>6. (CASE o.kind = "messages" -> (o.end = Windows!NoEnd) <=> (o.used = Windows!NoReading)
         [] o.kind = "oauth_refresh" -> o.used # Windows!NoReading
         [] o.kind = "exhaustion" -> o.end # Windows!NoEnd)
  BY DEF Windows!Reported
<1> HIDE DEF p
<1>7. (CASE p.kind = "messages" -> (p.end = Windows!NoEnd) <=> (p.used = Windows!NoReading)
         [] p.kind = "oauth_refresh" -> p.used # Windows!NoReading
         [] p.kind = "exhaustion" -> p.end # Windows!NoEnd)
  BY <1>3, <1>4, <1>5, <1>6 DEF Windows!NoEnd
<1>8. p \in Windows!Reported BY <1>2, <1>7 DEF Windows!Reported
<1> QED BY <1>3, <1>8 DEF p

\* What a write of an observation asks of its end: that of a new event may be any that is
\* not next to a window on record but its own; an event on record is written to its own
\* window again or to one on record two seconds away.
Fits(e, p) ==
  /\ version = 9 => \/ p.end = 0 \/ p.end \in Windows!OnRecord
                    \/ \A s \in Windows!OnRecord : s \notin p.end - 1 .. p.end + 1
  /\ events[e] # None =>
       /\ version = 9 /\ p.kind = "messages"
       /\ events[e].at = p.at /\ events[e].used = p.used /\ events[e].kind = p.kind
       /\ p.end = 0 <=> events[e].end = 0
       /\ p.end # 0 /\ p.end # events[e].end =>
            p.end \in Windows!OnRecord /\ events[e].end \in {p.end - 2, p.end + 2}

\* The tables hold after a row of that kind is written.
LEMMA InsertKeepsTables ==
  ASSUME WindowsInv, NEW e \in Event, NEW p \in Windows!Reported, Fits(e, p),
         Windows!insertFiveHourEvent(e, p), version' = version
  PROVE  /\ events' \in [Event -> Windows!Reported \cup {None}]
         /\ windows' \in [ResetTime -> Windows!Window \cup {None}]
         /\ astray' \in [Event -> SUBSET ResetTime]
         /\ Windows!OneWindowPerEnd' /\ Windows!StraysAreNear'
         /\ \A s \in ResetTime : WindowHolds(s)'
         /\ version = 8 => astray' = astray
         /\ events' = [events EXCEPT ![e] = IF events[e] = None THEN p ELSE events[e]]
<1> DEFINE end == p.end
           o == events'[e]
<1>1. Windows!TypeOK BY DEF WindowsInv
<1>2. end \in ResetTime \cup {0} /\ p # None BY ObservationTypes
<1>3. /\ events' = [events EXCEPT ![e] = IF events[e] = None THEN p ELSE events[e]]
      /\ astray' = IF events[e] # None /\ events[e].end # end
                   THEN [astray EXCEPT ![e] = @ \cup {end}] ELSE astray
      /\ windows' = IF end = 0 THEN windows ELSE [windows EXCEPT ![end] = Summed(windows[end], p)]
  BY DEF Windows!insertFiveHourEvent, Windows!Row, Windows!NoEnd, Summed
<1>4. events' \in [Event -> Windows!Reported \cup {None}] BY <1>1, <1>3 DEF Windows!TypeOK
<1>5. /\ o = IF events[e] = None THEN p ELSE events[e]
      /\ \A f \in Event : f # e => events'[f] = events[f]
  BY <1>1, <1>3 DEF Windows!TypeOK
<1>6. /\ o \in Windows!Reported /\ o # None
      /\ o.at = p.at /\ o.used = p.used /\ o.kind = p.kind
  <2>1. o \in Windows!Reported BY <1>1, <1>5 DEF Windows!TypeOK
  <2>2. o.at = p.at /\ o.used = p.used /\ o.kind = p.kind BY <1>5 DEF Fits
  <2> QED BY <2>1, <2>2, ObservationTypes
<1> HIDE DEF o
<1>7. astray' \in [Event -> SUBSET ResetTime]
  <2>1. CASE events[e] # None /\ events[e].end # end
    <3>1. end \in ResetTime BY <1>2, <2>1 DEF Fits
    <3> QED BY <1>1, <1>3, <2>1, <3>1 DEF Windows!TypeOK
  <2>2. CASE ~(events[e] # None /\ events[e].end # end)
    BY <1>1, <1>3, <2>2 DEF Windows!TypeOK
  <2> QED BY <2>1, <2>2
<1>8. \A f \in Event : f # e => astray'[f] = astray[f]
  BY <1>1, <1>3 DEF Windows!TypeOK
<1>9. \/ o = p /\ events[e] = None /\ astray'[e] = astray[e]
      \/ o = events[e] /\ o.end = end /\ astray'[e] = astray[e]
      \/ o = events[e] /\ o.end # end /\ astray'[e] = astray[e] \cup {end} /\ end # 0
  <2>1. CASE events[e] = None BY <1>3, <1>5, <2>1
  <2>2. CASE events[e] # None /\ events[e].end = end BY <1>3, <1>5, <2>2
  <2>3. CASE events[e] # None /\ events[e].end # end
    <3>1. end # 0 BY <2>3 DEF Fits
    <3> QED BY <1>1, <1>3, <1>5, <2>3, <3>1 DEF Windows!TypeOK
  <2> QED BY <2>1, <2>2, <2>3
<1>10. ASSUME NEW s \in ResetTime
       PROVE  /\ Windows!SummedUp(s)' = IF s = end THEN Windows!SummedUp(s) \cup {e}
                                        ELSE Windows!SummedUp(s)
              /\ Windows!EventsOf(s) \subseteq Windows!EventsOf(s)'
              /\ s # end => Windows!EventsOf(s)' = Windows!EventsOf(s)
  <2> DEFINE In(f) == events[f] # None /\ events[f].end = s
             In2(f) == events'[f] # None /\ events'[f].end = s
  <2>1. \A f \in Event : f # e => (In2(f) <=> In(f)) /\ (s \in astray'[f] <=> s \in astray[f])
    BY <1>5, <1>8
  <2>2. /\ In2(e) \/ s \in astray'[e] <=> In(e) \/ s \in astray[e] \/ s = end
        /\ In(e) => In2(e)
        /\ s # end => (In2(e) <=> In(e))
    <3>1. In2(e) <=> o.end = s BY <1>6 DEF o
    <3>2. CASE o = p /\ events[e] = None /\ astray'[e] = astray[e] BY <3>1, <3>2
    <3>3. CASE o = events[e] /\ o.end = end /\ astray'[e] = astray[e] BY <1>6, <3>1, <3>3
    <3>4. CASE o = events[e] /\ o.end # end /\ astray'[e] = astray[e] \cup {end}
      BY <1>6, <3>1, <3>4
    <3> QED BY <1>9, <3>2, <3>3, <3>4
  <2>3. /\ Windows!EventsOf(s) = {f \in Event : In(f)}
        /\ Windows!EventsOf(s)' = {f \in Event : In2(f)}
        /\ Windows!SummedUp(s) = {f \in Event : In(f) \/ s \in astray[f]}
        /\ Windows!SummedUp(s)' = {f \in Event : In2(f) \/ s \in astray'[f]}
    BY DEF Windows!EventsOf, Windows!SummedUp
  <2> HIDE DEF In, In2
  <2> QED BY <2>1, <2>2, <2>3
<1>11. ASSUME NEW s \in ResetTime
       PROVE  \A f \in Windows!SummedUp(s) :
                events[f] \in Windows!Reported /\ events'[f] = events[f]
  <2>1. \A f \in Windows!SummedUp(s) : f \in Event /\ events[f] # None
    BY DEF WindowsInv, Windows!SummedUp, Windows!EventsOf, Windows!StraysAreNear
  <2> QED BY <1>1, <1>3, <1>5, <2>1 DEF o, Windows!TypeOK
<1>12. ASSUME end # 0
       PROVE  /\ end \in ResetTime /\ Windows!EventsOf(end)' # {}
              /\ Tells(windows'[end], Windows!SummedUp(end)', events')
  <2>0. end \in ResetTime BY <1>2, <1>12
  <2>1. \/ windows[end] = None /\ Windows!SummedUp(end) = {}
        \/ Tells(windows[end], Windows!SummedUp(end), events)
    BY <2>0 DEF WindowsInv, WindowHolds
  <2>2. Summed(windows[end], p) = Summed(windows[end], o)
    BY <1>6, Zenon DEF Summed, Windows!SumUp, Windows!MarkExhausted
  <2>3. Tells(Summed(windows[end], o), Windows!SummedUp(end) \cup {e}, events')
    BY ONLY <1>6, <1>11, <2>0, <2>1, SumUpTells, events'[e] = o
    DEF o
  <2>4. windows'[end] = Summed(windows[end], p)
    BY <1>1, <1>3, <1>12, <2>0 DEF Windows!TypeOK
  <2>5. Windows!EventsOf(end)' # {}
    <3>1. CASE o.end = end
      <4>1. e \in Windows!EventsOf(end)' BY <1>6, <3>1 DEF Windows!EventsOf, o
      <4> QED BY <4>1
    <3>2. CASE o.end # end
      <4>1. end \in Windows!OnRecord BY <1>9, <1>6, <1>12, <3>2 DEF Fits
      <4>2. windows[end] # None BY <4>1 DEF Windows!OnRecord
      <4>3. Windows!EventsOf(end) # {} BY <2>0, <4>2 DEF WindowsInv, WindowHolds
      <4> QED BY <1>10, <2>0, <4>3
    <3> QED BY <3>1, <3>2
  <2> QED BY <1>10, <2>0, <2>2, <2>3, <2>4, <2>5
<1>13. ASSUME NEW s \in ResetTime, s # end
       PROVE  windows'[s] = windows[s] /\ WindowHolds(s)'
  <2>1. windows'[s] = windows[s] BY <1>1, <1>3, <1>13 DEF Windows!TypeOK
  <2>2. /\ Windows!EventsOf(s)' = Windows!EventsOf(s)
        /\ Windows!SummedUp(s)' = Windows!SummedUp(s)
    BY <1>10, <1>13
  <2>3. ASSUME Tells(windows[s], Windows!SummedUp(s), events)
        PROVE  Tells(windows[s], Windows!SummedUp(s), events')
    BY <1>11, <2>3 DEF Tells
  <2>4. WindowHolds(s) BY DEF WindowsInv
  <2> QED BY <2>1, <2>2, <2>3, <2>4 DEF WindowHolds
<1>14. \A s \in ResetTime : WindowHolds(s)'
  <2>1. ASSUME NEW s \in ResetTime, s = end PROVE WindowHolds(s)'
    <3>1. s # 0 BY WindowNumbers
    <3> QED BY <1>12, <2>1, <3>1 DEF WindowHolds
  <2> QED BY <1>13, <2>1
<1>15. windows' \in [ResetTime -> Windows!Window \cup {None}]
  <2>1. end # 0 => end \in ResetTime /\ Summed(windows[end], p) \in Windows!Window
    <3>1. ASSUME end # 0 PROVE end \in ResetTime /\ windows'[end] \in Windows!Window
      BY <1>12, <3>1 DEF Tells
    <3> QED BY <1>1, <1>3, <3>1 DEF Windows!TypeOK
  <2> QED BY <1>1, <1>3, <2>1 DEF Windows!TypeOK
<1>16. Windows!StraysAreNear'
  <2>1. ASSUME NEW f \in Event, NEW s \in astray'[f]
        PROVE  /\ events'[f] # None /\ events'[f].kind = "messages"
               /\ events'[f].end \in {s - 2, s + 2}
    <3>1. CASE s \in astray[f]
      <4>1. events[f] # None /\ events[f].kind = "messages" /\ events[f].end \in {s - 2, s + 2}
        BY <3>1 DEF WindowsInv, Windows!StraysAreNear
      <4> QED BY <1>5, <4>1 DEF o
    <3>2. CASE s \notin astray[f]
      <4>1. f = e /\ s = end /\ o = events[e] /\ o.end # end /\ end # 0
        BY <1>8, <1>9, <2>1, <3>2
      <4> QED BY <1>6, <4>1 DEF Fits, o
    <3> QED BY <3>1, <3>2
  <2> QED BY <2>1 DEF Windows!StraysAreNear
<1>17. Windows!OneWindowPerEnd'
  <2>1. CASE version # 9 BY <2>1 DEF Windows!OneWindowPerEnd
  <2>2. CASE version = 9 /\ (end = 0 \/ end \in Windows!OnRecord)
    <3>1. Windows!OnRecord' \subseteq Windows!OnRecord
      <4>1. ASSUME NEW s \in ResetTime, windows'[s] # None PROVE windows[s] # None
        BY <1>13, <2>2, <4>1, WindowNumbers DEF Windows!OnRecord
      <4> QED BY <4>1 DEF Windows!OnRecord
    <3> QED BY <2>2, <3>1 DEF Windows!OneWindowPerEnd, WindowsInv
  <2>3. CASE version = 9 /\ end # 0 /\ end \notin Windows!OnRecord
    <3>1. \A s \in Windows!OnRecord : s \notin end - 1 .. end + 1 BY <2>3 DEF Fits
    <3>2. Windows!OnRecord' \subseteq Windows!OnRecord \cup {end}
      BY <1>13 DEF Windows!OnRecord
    <3>3. end \in Nat BY <1>2, <2>3, WindowNumbers
    <3>4. \A s \in Windows!OnRecord : s \in Nat BY WindowNumbers DEF Windows!OnRecord
    <3> HIDE DEF end
    <3>5. \A s \in Windows!OnRecord : /\ s < end => end - s > 1
                                      /\ end < s => s - end > 1
      BY <3>1, <3>3, <3>4
    <3>6. \A r, s \in Windows!OnRecord : r < s => s - r > 1
      BY <2>3 DEF WindowsInv, Windows!OneWindowPerEnd
    <3>7. ~(end < end) BY <3>3
    <3>8. \A r, s \in Windows!OnRecord \cup {end} : r < s => s - r > 1
      BY <3>5, <3>6, <3>7
    <3> QED BY <3>2, <3>8 DEF Windows!OneWindowPerEnd
  <2> QED BY <2>1, <2>2, <2>3
<1>18. version = 8 => astray' = astray BY <1>3 DEF Fits
<1> QED BY <1>3, <1>4, <1>7, <1>14, <1>15, <1>16, <1>17, <1>18

\* The end a write takes: that of a window on record, or one that is not next to any.
LEMMA CanonicalEnd ==
  ASSUME NEW r \in ResetTime \cup {0}, NEW end \in Windows!canonicalFiveHourReset(r)
  PROVE  /\ end = 0 <=> r = 0
         /\ end # 0 => end \in ResetTime /\ end \in r - 1 .. r + 1
         /\ \/ end = 0 \/ end \in Windows!OnRecord
            \/ end = r /\ \A s \in Windows!OnRecord : s \notin end - 1 .. end + 1
         /\ end # r => r \notin Windows!OnRecord /\ end \in Windows!OnRecord
<1> DEFINE near == {s \in Windows!OnRecord : s \in r - 1 .. r + 1}
<1>0. \A s \in Windows!OnRecord : s \in ResetTime /\ s # 0
  BY WindowNumbers DEF Windows!OnRecord
<1>1. r \in Nat /\ r \in r - 1 .. r + 1 BY WindowNumbers
<1>2. CASE r \in Windows!OnRecord \/ r = 0
  <2>1. end = r BY <1>2 DEF Windows!canonicalFiveHourReset, Windows!NoEnd
  <2> QED BY <1>1, <1>2, <2>1
<1>3. CASE ~(r \in Windows!OnRecord \/ r = 0)
  <2>1. end \in IF near = {} THEN {r} ELSE near
    BY <1>3 DEF Windows!canonicalFiveHourReset, Windows!NoEnd
  <2>2. CASE near = {} BY <1>1, <1>3, <2>1, <2>2
  <2>3. CASE near # {} BY <1>0, <1>3, <2>1, <2>3
  <2> QED BY <2>2, <2>3
<1> QED BY <1>2, <1>3

\* A new observation keeps the tables, and is on record next to the end it reported.
LEMMA FirstWriteKeepsTables ==
  ASSUME WindowsInv, NEW e \in Event, events[e] = None, NEW o \in Windows!Reported,
         Windows!Write(e, o)
  PROVE  /\ version' = version /\ version = 9
         /\ \E p \in Windows!Reported :
              /\ Fits(e, p) /\ Windows!insertFiveHourEvent(e, p)
              /\ p.at = o.at /\ p.used = o.used /\ p.kind = o.kind
              /\ o.end = 0 <=> p.end = 0
              /\ p.end # 0 => p.end \in o.end - 1 .. o.end + 1
<1>1. PICK end \in Windows!canonicalFiveHourReset(o.end) :
        Windows!insertFiveHourEvent(e, [o EXCEPT !.end = end])
  BY DEF Windows!Write
<1> DEFINE p == [o EXCEPT !.end = end]
<1>2. o.end \in ResetTime \cup {0} BY ObservationTypes
<1>3. /\ end = 0 <=> o.end = 0
      /\ end # 0 => end \in ResetTime /\ end \in o.end - 1 .. o.end + 1
      /\ \/ end = 0 \/ end \in Windows!OnRecord
         \/ \A s \in Windows!OnRecord : s \notin end - 1 .. end + 1
  BY <1>2, CanonicalEnd
<1>4. /\ p \in Windows!Reported /\ p.end = end
      /\ p.kind = o.kind /\ p.at = o.at /\ p.used = o.used
  BY <1>3, OtherEnd
<1>5. Windows!insertFiveHourEvent(e, p) BY <1>1
<1> HIDE DEF p
<1>6. Fits(e, p) BY <1>3, <1>4 DEF Fits
<1> QED BY <1>3, <1>4, <1>5, <1>6 DEF Windows!Write

\* An event that is written again finds its own window, or one on record two seconds away.
LEMMA RepeatKeepsTables ==
  ASSUME WindowsInv, NEW e \in Event, events[e] # None, said[e] # None,
         Windows!Write(e, said[e])
  PROVE  /\ version' = version /\ version = 9
         /\ \E p \in Windows!Reported : Fits(e, p) /\ Windows!insertFiveHourEvent(e, p)
<1> DEFINE o == said[e]
           own == events[e].end
<1>1. PICK end \in Windows!canonicalFiveHourReset(o.end) :
        Windows!insertFiveHourEvent(e, [o EXCEPT !.end = end])
  BY DEF Windows!Write
<1> DEFINE p == [o EXCEPT !.end = end]
<1>2. version = 9 /\ version' = version BY DEF Windows!Write
<1>3. o \in Windows!Reported /\ o.kind = "messages" /\ events[e] \in Windows!Reported
  BY DEF WindowsInv, Windows!TypeOK, Windows!Messages
<1>4. /\ events[e].at = o.at /\ events[e].used = o.used /\ events[e].kind = o.kind
      /\ o.end = 0 <=> own = 0
      /\ own # 0 => own \in o.end - 1 .. o.end + 1
  BY DEF WindowsInv, Queued
<1>5. o.end \in ResetTime \cup {0} /\ own \in ResetTime \cup {0} BY <1>3, ObservationTypes
<1>6. /\ end = 0 <=> o.end = 0
      /\ end # 0 => end \in ResetTime /\ end \in o.end - 1 .. o.end + 1
      /\ \/ end = 0 \/ end \in Windows!OnRecord
         \/ end = o.end /\ \A s \in Windows!OnRecord : s \notin end - 1 .. end + 1
      /\ end # o.end => o.end \notin Windows!OnRecord /\ end \in Windows!OnRecord
  BY <1>5, CanonicalEnd
<1>7. /\ p \in Windows!Reported /\ p.end = end
      /\ p.kind = o.kind /\ p.at = o.at /\ p.used = o.used
  BY <1>3, <1>6, OtherEnd
<1>8. Windows!insertFiveHourEvent(e, p) BY <1>1
<1> HIDE DEF p
<1>9. own # 0 => own \in Windows!OnRecord
  <2> SUFFICES ASSUME own # 0 PROVE own \in Windows!OnRecord OBVIOUS
  <2>1. own \in ResetTime /\ e \in Windows!EventsOf(own) BY <1>5 DEF Windows!EventsOf
  <2>2. Tells(windows[own], Windows!SummedUp(own), events)
    BY <2>1 DEF WindowsInv, WindowHolds
  <2>3. windows[own] # None BY <2>2, WindowTypes DEF Tells
  <2> QED BY <2>1, <2>3 DEF Windows!OnRecord
<1>10. ASSUME end # 0, end # own
       PROVE  end \in Windows!OnRecord /\ own \in {end - 2, end + 2}
  <2>1. own # 0 /\ o.end # 0 BY <1>4, <1>6, <1>10
  <2>2. end \in Nat /\ own \in Nat /\ o.end \in Nat BY <1>5, <1>6, <1>10, WindowNumbers
  <2>3. own \in Windows!OnRecord BY <1>9, <2>1
  <2>4. own \in o.end - 1 .. o.end + 1 /\ end \in o.end - 1 .. o.end + 1
    BY <1>4, <1>6, <1>10, <2>1
  <2> HIDE DEF own, o
  <2>5. end \in Windows!OnRecord BY <1>6, <1>10, <2>3, <2>4
  <2>6. /\ own < end => end - own > 1
        /\ end < own => own - end > 1
    BY <1>2, <2>3, <2>5 DEF WindowsInv, Windows!OneWindowPerEnd
  <2>7. own \in {end - 2, end + 2} BY <1>10, <2>2, <2>4, <2>6
  <2> QED BY <2>5, <2>7
<1>11. Fits(e, p)
  <2>1. \/ end = 0 \/ end \in Windows!OnRecord
        \/ \A s \in Windows!OnRecord : s \notin end - 1 .. end + 1
    BY <1>6
  <2>2. end = 0 <=> own = 0 BY <1>4, <1>6
  <2> QED BY <1>2, <1>3, <1>4, <1>7, <1>10, <2>1, <2>2 DEF Fits
<1> QED BY <1>2, <1>7, <1>8, <1>11

\* A write that leaves memory alone, of an event that is not in memory.
LEMMA WriteKeepsWindows ==
  ASSUME WindowsInv, NEW e \in Event, said[e] = None, NEW p \in Windows!Reported, Fits(e, p),
         Windows!insertFiveHourEvent(e, p), version' = version, UNCHANGED Windows!memory
  PROVE  WindowsInv'
<1>1. /\ events' \in [Event -> Windows!Reported \cup {None}]
      /\ windows' \in [ResetTime -> Windows!Window \cup {None}]
      /\ astray' \in [Event -> SUBSET ResetTime]
      /\ Windows!OneWindowPerEnd' /\ Windows!StraysAreNear'
      /\ \A s \in ResetTime : WindowHolds(s)'
      /\ version = 8 => astray' = astray
      /\ events' = [events EXCEPT ![e] = IF events[e] = None THEN p ELSE events[e]]
  BY InsertKeepsTables
<1>2. said' = said /\ pending' = pending /\ batch' = batch /\ written' = written
  BY DEF Windows!memory
<1>3. Windows!TypeOK' BY <1>1, <1>2 DEF WindowsInv, Windows!TypeOK
<1>4. Unmigrated' BY <1>1, <1>2 DEF WindowsInv, Unmigrated
<1>5. ASSUME NEW f \in Event PROVE Queued(f)'
  <2>1. CASE f = e BY <1>2, <2>1 DEF Queued
  <2>2. CASE f # e
    <3>1. events'[f] = events[f] BY <1>1, <2>2 DEF WindowsInv, Windows!TypeOK
    <3>2. Queued(f) BY DEF WindowsInv
    <3> QED BY <1>2, <3>1, <3>2 DEF Queued
  <2> QED BY <2>1, <2>2
<1> QED BY <1>1, <1>3, <1>4, <1>5 DEF WindowsInv

\* The next event of a batch is written, for the first time or again.
LEMMA BatchKeepsWindows ==
  ASSUME WindowsInv, Windows!AddFiveHourEvents
  PROVE  WindowsInv'
<1> DEFINE e == batch[written + 1]
<1>1. Windows!TypeOK BY DEF WindowsInv
<1>2. /\ batch \in Seq(Event) /\ written \in 0 .. Len(batch) /\ written < Len(batch)
      /\ written' = written + 1 /\ said' = said /\ pending' = pending /\ batch' = batch
      /\ Windows!Write(e, said[e])
  BY <1>1 DEF Windows!AddFiveHourEvents, Windows!TypeOK
<1>3. written + 1 \in DOMAIN batch /\ written + 1 \in 0 .. Len(batch) BY <1>2
<1>4. e \in Event /\ said[e] # None BY <1>1, <1>2, <1>3 DEF Windows!TypeOK
<1>5. said[e] \in Windows!Reported BY <1>1, <1>4 DEF Windows!TypeOK, Windows!Messages
<1> HIDE DEF e
<1>6. /\ version' = version /\ version = 9
      /\ \E p \in Windows!Reported :
           /\ Fits(e, p) /\ Windows!insertFiveHourEvent(e, p)
           /\ events[e] = None =>
                /\ p.at = said[e].at /\ p.used = said[e].used /\ p.kind = said[e].kind
                /\ said[e].end = 0 <=> p.end = 0
                /\ p.end # 0 => p.end \in said[e].end - 1 .. said[e].end + 1
  <2>1. CASE events[e] = None BY <1>2, <1>4, <1>5, <2>1, FirstWriteKeepsTables
  <2>2. CASE events[e] # None BY <1>2, <1>4, <2>2, RepeatKeepsTables
  <2> QED BY <2>1, <2>2
<1>7. PICK p \in Windows!Reported :
        /\ Fits(e, p) /\ Windows!insertFiveHourEvent(e, p)
        /\ events[e] = None =>
             /\ p.at = said[e].at /\ p.used = said[e].used /\ p.kind = said[e].kind
             /\ said[e].end = 0 <=> p.end = 0
             /\ p.end # 0 => p.end \in said[e].end - 1 .. said[e].end + 1
  BY <1>6
<1>8. /\ events' \in [Event -> Windows!Reported \cup {None}]
      /\ windows' \in [ResetTime -> Windows!Window \cup {None}]
      /\ astray' \in [Event -> SUBSET ResetTime]
      /\ Windows!OneWindowPerEnd' /\ Windows!StraysAreNear'
      /\ \A s \in ResetTime : WindowHolds(s)'
      /\ events' = [events EXCEPT ![e] = IF events[e] = None THEN p ELSE events[e]]
  BY <1>4, <1>6, <1>7, InsertKeepsTables
<1>9. Windows!TypeOK' BY <1>1, <1>2, <1>3, <1>6, <1>8 DEF Windows!TypeOK
<1>10. Unmigrated' BY <1>6 DEF Unmigrated
<1>11. ASSUME NEW f \in Event PROVE Queued(f)'
  <2>1. CASE f = e /\ events[e] = None
    <3>1. events'[f] = p BY <1>1, <1>8, <2>1 DEF Windows!TypeOK
    <3> QED BY <1>2, <1>7, <2>1, <3>1 DEF Queued
  <2>2. CASE ~(f = e /\ events[e] = None)
    <3>1. events'[f] = events[f] BY <1>1, <1>8, <2>2 DEF Windows!TypeOK
    <3>2. Queued(f) BY DEF WindowsInv
    <3> QED BY <1>2, <3>1, <3>2 DEF Queued
  <2> QED BY <2>1, <2>2
<1> QED BY <1>8, <1>9, <1>10, <1>11 DEF WindowsInv

\* What holds of the tables holds of them while only memory changes.
LEMMA MemoryKeepsWindows ==
  ASSUME WindowsInv, UNCHANGED <<version, events, windows, astray>>, Windows!TypeOK',
         Unmigrated', \A e \in Event : Queued(e)'
  PROVE  WindowsInv'
<1>1. version' = version /\ events' = events /\ windows' = windows /\ astray' = astray
  OBVIOUS
<1>2. \A s \in ResetTime : /\ Windows!EventsOf(s)' = Windows!EventsOf(s)
                           /\ Windows!SummedUp(s)' = Windows!SummedUp(s)
  BY <1>1 DEF Windows!EventsOf, Windows!SummedUp
<1>3. \A s \in ResetTime : WindowHolds(s)' BY <1>1, <1>2 DEF WindowsInv, WindowHolds
<1>4. Windows!OneWindowPerEnd' /\ Windows!StraysAreNear'
  BY <1>1 DEF WindowsInv, Windows!OneWindowPerEnd, Windows!OnRecord, Windows!StraysAreNear
<1> QED BY <1>3, <1>4 DEF WindowsInv

\* What is said of an event in memory is forgotten, or stays.
LEMMA ForgetKeepsWindows ==
  ASSUME WindowsInv, UNCHANGED <<version, events, windows, astray>>,
         said' \in [Event -> Windows!Messages \cup {None}],
         \A e \in Event : said'[e] \in {said[e], None},
         pending' \in Seq(Event), batch' \in Seq(Event), written' \in 0 .. Len(batch'),
         \A i \in DOMAIN pending' : said'[pending'[i]] # None,
         \A i \in DOMAIN batch' : said'[batch'[i]] # None
  PROVE  WindowsInv'
<1>1. version' = version /\ events' = events /\ windows' = windows /\ astray' = astray
  OBVIOUS
<1>2. Windows!TypeOK' BY <1>1 DEF WindowsInv, Windows!TypeOK
<1>3. Unmigrated' BY <1>1 DEF WindowsInv, Unmigrated
<1>4. ASSUME NEW e \in Event PROVE Queued(e)'
  <2>1. Queued(e) BY DEF WindowsInv
  <2>2. said'[e] = said[e] \/ said'[e] = None OBVIOUS
  <2> QED BY <1>1, <2>1, <2>2 DEF Queued
<1> QED BY <1>2, <1>3, <1>4, MemoryKeepsWindows

\* A call that has ended is in memory under a key of its own.
LEMMA RecordKeepsWindows ==
  ASSUME WindowsInv, NEW e \in Event, Windows!Record(e)
  PROVE  WindowsInv'
<1>1. Windows!TypeOK BY DEF WindowsInv
<1>2. PICK o \in Windows!Messages : said' = [said EXCEPT ![e] = o]
  BY DEF Windows!Record
<1>3. /\ version' = version /\ events' = events /\ windows' = windows /\ astray' = astray
      /\ batch' = batch /\ written' = written /\ pending' = Append(pending, e)
      /\ version = 9 /\ events[e] = None
  BY DEF Windows!Record, Windows!tables, Windows!Fresh
<1>4. o # None /\ o \in Windows!Reported
  BY ObservationTypes DEF Windows!Messages
<1>5. said' \in [Event -> Windows!Messages \cup {None}] /\ said'[e] # None
      /\ \A f \in Event : f # e => said'[f] = said[f]
  BY <1>1, <1>2, <1>4 DEF Windows!TypeOK
<1>6. \A f \in Event : said[f] # None => said'[f] # None BY <1>5
<1>7. pending' \in Seq(Event) /\ \A i \in DOMAIN pending' : said'[pending'[i]] # None
  <2>1. pending \in Seq(Event) /\ \A i \in DOMAIN pending : said[pending[i]] # None
    BY <1>1 DEF Windows!TypeOK
  <2>2. \A i \in DOMAIN pending : pending[i] \in Event BY <2>1
  <2>3. \A i \in DOMAIN pending' : pending'[i] = e \/ (i \in DOMAIN pending /\ pending'[i] = pending[i])
    BY <1>3, <2>1
  <2> QED BY <1>3, <1>5, <1>6, <2>1, <2>2, <2>3
<1>8. \A i \in DOMAIN batch : said'[batch[i]] # None
  <2>1. \A i \in DOMAIN batch : batch[i] \in Event /\ said[batch[i]] # None
    BY <1>1 DEF Windows!TypeOK
  <2> QED BY <1>6, <2>1
<1>9. Windows!TypeOK' BY <1>1, <1>3, <1>5, <1>7, <1>8 DEF Windows!TypeOK
<1>10. Unmigrated' BY <1>3 DEF Unmigrated
<1>11. ASSUME NEW f \in Event PROVE Queued(f)'
  <2>1. Queued(f) BY DEF WindowsInv
  <2> QED BY <1>3, <1>5, <2>1 DEF Queued
<1> QED BY <1>3, <1>9, <1>10, <1>11, MemoryKeepsWindows

\* A batch is detached, put back in front of what came since, or done with.
LEMMA FlushKeepsWindows ==
  ASSUME WindowsInv, Windows!Flush \/ Windows!MergeBack \/ Windows!Flushed
  PROVE  WindowsInv'
<1>1. /\ said \in [Event -> Windows!Messages \cup {None}]
      /\ pending \in Seq(Event) /\ batch \in Seq(Event) /\ written \in 0 .. Len(batch)
      /\ \A i \in DOMAIN pending : pending[i] \in Event /\ said[pending[i]] # None
      /\ \A i \in DOMAIN batch : batch[i] \in Event /\ said[batch[i]] # None
  BY DEF WindowsInv, Windows!TypeOK
<1>2. UNCHANGED <<version, events, windows, astray>>
  BY DEF Windows!Flush, Windows!MergeBack, Windows!Flushed, Windows!tables
<1>3. CASE Windows!Flush
  <2>1. /\ batch = <<>> /\ batch' = pending /\ pending' = <<>>
        /\ said' = said /\ written' = written
    BY <1>3 DEF Windows!Flush
  <2>2. written = 0 /\ 0 \in 0 .. Len(pending) BY <1>1, <2>1
  <2> QED BY <1>1, <1>2, <2>1, <2>2, ForgetKeepsWindows
<1>4. CASE Windows!MergeBack
  <2>1. pending' = batch \o pending /\ batch' = <<>> /\ written' = 0 /\ said' = said
    BY <1>4 DEF Windows!MergeBack
  <2>2. pending' \in Seq(Event) BY <1>1, <2>1
  <2>3. \A i \in DOMAIN pending' : said'[pending'[i]] # None
    <3>1. ASSUME NEW i \in DOMAIN pending' PROVE said'[pending'[i]] # None
      <4>1. i \in 1 .. Len(batch) + Len(pending) BY <1>1, <2>1
      <4>2. CASE i <= Len(batch)
        <5>1. i \in DOMAIN batch /\ pending'[i] = batch[i] BY <1>1, <2>1, <4>1, <4>2
        <5> QED BY <1>1, <2>1, <5>1
      <4>3. CASE ~(i <= Len(batch))
        <5>1. i - Len(batch) \in DOMAIN pending /\ pending'[i] = pending[i - Len(batch)]
          BY <1>1, <2>1, <4>1, <4>3
        <5> QED BY <1>1, <2>1, <5>1
      <4> QED BY <4>2, <4>3
    <3> QED BY <3>1
  <2> QED BY <1>1, <1>2, <2>1, <2>2, <2>3, ForgetKeepsWindows
<1>5. CASE Windows!Flushed
  <2> DEFINE Waits(e) == \E i \in DOMAIN pending : pending[i] = e
  <2>1. /\ batch' = <<>> /\ written' = 0 /\ pending' = pending
        /\ said' = [e \in Event |-> IF Waits(e) THEN said[e] ELSE None]
    BY <1>5 DEF Windows!Flushed
  <2>2. \A i \in DOMAIN pending : said'[pending[i]] # None BY <1>1, <2>1
  <2>3. \A e \in Event : said'[e] \in {said[e], None} BY <2>1
  <2>4. said' \in [Event -> Windows!Messages \cup {None}] BY <1>1, <2>1
  <2> QED BY <1>1, <1>2, <2>1, <2>2, <2>3, <2>4, ForgetKeepsWindows
<1> QED BY <1>3, <1>4, <1>5

\* A restart forgets memory; a clear removes events and windows too, or fails to.
LEMMA ClearKeepsWindows ==
  ASSUME WindowsInv, Windows!ClearFiveHourObservations \/ Windows!Restart
  PROVE  WindowsInv'
<1>1. /\ said' = [e \in Event |-> None] /\ pending' = <<>> /\ batch' = <<>> /\ written' = 0
      /\ version' = version
  BY DEF Windows!ClearFiveHourObservations, Windows!Restart, Windows!Forget
<1>2. /\ said' \in [Event -> Windows!Messages \cup {None}]
      /\ \A e \in Event : said'[e] = None
      /\ pending' \in Seq(Event) /\ batch' \in Seq(Event) /\ written' \in 0 .. Len(batch')
      /\ DOMAIN pending' = {} /\ DOMAIN batch' = {}
  BY <1>1
<1>3. CASE UNCHANGED <<events, windows, astray>>
  BY <1>1, <1>2, <1>3, ForgetKeepsWindows
<1>4. CASE /\ events' = [e \in Event |-> None] /\ windows' = [s \in ResetTime |-> None]
           /\ astray' = [e \in Event |-> {}]
  <2>1. Windows!TypeOK' BY <1>1, <1>2, <1>4 DEF WindowsInv, Windows!TypeOK
  <2>2. Windows!OnRecord' = {} BY <1>4 DEF Windows!OnRecord
  <2>3. ASSUME NEW s \in ResetTime PROVE WindowHolds(s)'
    <3>1. Windows!EventsOf(s)' = {} BY <1>4 DEF Windows!EventsOf
    <3>2. Windows!SummedUp(s)' = {} BY <1>4, <3>1 DEF Windows!SummedUp
    <3> QED BY <1>4, <3>1, <3>2 DEF WindowHolds
  <2>4. Unmigrated' BY <1>2, <1>4 DEF Unmigrated
  <2>5. \A e \in Event : Queued(e)' BY <1>2 DEF Queued
  <2>6. Windows!StraysAreNear' BY <1>4 DEF Windows!StraysAreNear
  <2> QED BY <2>1, <2>2, <2>3, <2>4, <2>5, <2>6 DEF WindowsInv, Windows!OneWindowPerEnd
<1> QED
  BY <1>3, <1>4 DEF Windows!ClearFiveHourObservations, Windows!Restart, Windows!tables

\* What the windows then say of their events.
LEMMA WindowsFollow ==
  ASSUME WindowsInv
  PROVE  Windows!OneWindowPerEnd /\ Windows!WindowsSumUpEvents /\ Windows!StraysAreNear
<1> DEFINE times(E) == {events[e].at : e \in E}
           readings(s, t) == {events[e].used : e \in {f \in Windows!SummedUp(s) : events[f].at = t}}
           exhaustions(s) == {e \in Windows!EventsOf(s) : events[e].kind = "exhaustion"}
<1>1. ASSUME NEW s \in ResetTime, Windows!EventsOf(s) # {}
      PROVE  /\ windows[s] # None
             /\ windows[s].first = Windows!Min(times(Windows!SummedUp(s)))
             /\ windows[s].firstUsed \in readings(s, windows[s].first)
             /\ windows[s].last = Windows!Max(times(Windows!SummedUp(s)))
             /\ windows[s].lastUsed \in readings(s, windows[s].last)
             /\ windows[s].maxUsed = Windows!Max({events[e].used : e \in Windows!SummedUp(s)})
             /\ windows[s].exhausted = IF exhaustions(s) = {} THEN 0
                                       ELSE Windows!Min(times(exhaustions(s)))
  <2> DEFINE E == Windows!SummedUp(s)
             w == windows[s]
  <2>1. Tells(w, E, events) BY <1>1 DEF WindowsInv, WindowHolds
  <2>0. \A e \in E : e \in Event /\ events[e] \in Windows!Reported
    BY DEF WindowsInv, Windows!TypeOK, Windows!SummedUp, Windows!EventsOf, Windows!StraysAreNear
  <2>2. \A e \in E : events[e].at \in Int /\ events[e].at > 0 /\ events[e].used \in Int
    BY <2>0, ObservationTypes
  <2>3. w # None BY <2>1, WindowTypes DEF Tells
  <2> HIDE DEF E, w
  <2>4. w.first = Windows!Min(times(E))
    <3>1. times(E) \subseteq Int BY <2>2
    <3>2. w.first \in times(E) /\ \A t \in times(E) : w.first <= t BY <2>1 DEF Tells
    <3> QED BY ONLY <3>1, <3>2, MinIs
  <2>5. w.last = Windows!Max(times(E))
    <3>1. times(E) \subseteq Int BY <2>2
    <3>2. w.last \in times(E) /\ \A t \in times(E) : t <= w.last BY <2>1 DEF Tells
    <3> QED BY ONLY <3>1, <3>2, MaxIs
  <2>6. w.maxUsed = Windows!Max({events[e].used : e \in E})
    <3>1. {events[e].used : e \in E} \subseteq Int BY <2>2
    <3>2. /\ w.maxUsed \in {events[e].used : e \in E}
          /\ \A t \in {events[e].used : e \in E} : t <= w.maxUsed
      BY <2>1 DEF Tells
    <3> QED BY ONLY <3>1, <3>2, MaxIs
  <2>7. w.firstUsed \in readings(s, w.first) BY <2>1 DEF Tells, E
  <2>8. w.lastUsed \in readings(s, w.last) BY <2>1 DEF Tells, E
  <2>9. w.exhausted = IF exhaustions(s) = {} THEN 0 ELSE Windows!Min(times(exhaustions(s)))
    <3> DEFINE X == exhaustions(s)
    <3>0. X = {e \in E : events[e].kind = "exhaustion"}
      BY DEF WindowsInv, Windows!SummedUp, Windows!StraysAreNear, E
    <3>1. CASE X = {} BY <3>0, <2>1, <3>1 DEF Tells, E
    <3>2. CASE X # {}
      <4>1. /\ \E e \in X : events[e].at = w.exhausted
            /\ \A e \in X : w.exhausted <= events[e].at
        BY <2>1, <3>0, <3>2 DEF Tells
      <4>2. times(X) \subseteq Int BY <2>2, <3>0
      <4> HIDE DEF X
      <4>3. w.exhausted \in times(X) /\ \A t \in times(X) : w.exhausted <= t BY <4>1
      <4>4. w.exhausted = Windows!Min(times(X)) BY ONLY <4>2, <4>3, MinIs
      <4> QED BY <3>2, <4>4 DEF X
    <3> QED BY <3>1, <3>2
  <2> QED BY <2>3, <2>4, <2>5, <2>6, <2>7, <2>8, <2>9 DEF E, w
<1>2. \A s \in ResetTime : Windows!EventsOf(s) = {} => windows[s] = None
  BY DEF WindowsInv, WindowHolds
<1> QED BY <1>1, <1>2, Zenon DEF WindowsInv, Windows!WindowsSumUpEvents

\* The instance's cardinality is that of the standard module.
LEMMA WindowCardinality == \A S : Windows!Cardinality(S) = Cardinality(S)
BY DEF Windows!Cardinality, Cardinality, Windows!IsFiniteSet, IsFiniteSet

\* The image of a finite set is finite.
LEMMA FiniteImage ==
  ASSUME NEW S, IsFiniteSet(S), NEW f
  PROVE  IsFiniteSet({f[x] : x \in S})
<1> DEFINE T == {f[x] : x \in S}
           g == [x \in S |-> f[x]]
<1>1. g \in Surjection(S, T) BY DEF Surjection
<1> HIDE DEF T, g
<1>2. IsFiniteSet(T) BY <1>1, FS_Surjection
<1> QED BY <1>2 DEF T

\* Every second between two ends is an end on record.
Chained(r, s) ==
  \A x \in Int : (r <= x /\ x <= s) \/ (s <= x /\ x <= r) => x \in Windows!OnRecord

\* Two windows are of one group when every end between them has a window.
LEMMA GroupIs ==
  ASSUME NEW s \in Windows!OnRecord
  PROVE  Windows!Group(s) = {r \in Windows!OnRecord : Chained(r, s)}
<1>1. \A x \in Windows!OnRecord : x \in Int BY WindowNumbers DEF Windows!OnRecord
<1>2. ASSUME NEW r \in Windows!OnRecord
      PROVE (Windows!Min({r, s}) .. Windows!Max({r, s}) \subseteq Windows!OnRecord) <=> Chained(r, s)
  <2> DEFINE a == Windows!Min({r, s})
             b == Windows!Max({r, s})
  <2>1. r \in Int /\ s \in Int BY <1>1
  <2>2. a = IF r <= s THEN r ELSE s BY <2>1, OfTwo
  <2>3. b = IF r <= s THEN s ELSE r BY <2>1, OfTwo
  <2> HIDE DEF a, b
  <2>4. \A x \in Int : x \in a .. b <=> (r <= x /\ x <= s) \/ (s <= x /\ x <= r)
    BY <2>1, <2>2, <2>3
  <2>5. \A x \in a .. b : x \in Int OBVIOUS
  <2>6. (a .. b \subseteq Windows!OnRecord) <=> Chained(r, s)
    BY <2>4, <2>5 DEF Chained
  <2> QED BY <2>6 DEF a, b
<1> QED BY <1>2 DEF Windows!Group

\* A window of a group has that group.
LEMMA GroupsPartition ==
  ASSUME NEW s \in Windows!OnRecord
  PROVE  /\ s \in Windows!Group(s) /\ Windows!Group(s) \subseteq Windows!OnRecord
         /\ \A r \in Windows!Group(s) : Windows!Group(r) = Windows!Group(s)
<1>1. \A x \in Windows!OnRecord : x \in Int BY WindowNumbers DEF Windows!OnRecord
<1>2. Chained(s, s)
  <2>1. \A x \in Int : s <= x /\ x <= s => x = s BY <1>1
  <2> QED BY <2>1 DEF Chained
<1>3. \A r, t : Chained(r, t) => Chained(t, r) BY DEF Chained
<1>4. ASSUME NEW r \in Windows!OnRecord, NEW t \in Windows!OnRecord, NEW q \in Windows!OnRecord,
             Chained(r, t), Chained(t, q)
      PROVE Chained(r, q)
  <2>1. r \in Int /\ t \in Int /\ q \in Int BY <1>1
  <2>2. ASSUME NEW x \in Int, (r <= x /\ x <= q) \/ (q <= x /\ x <= r) PROVE x \in Windows!OnRecord
    <3>1. \/ (r <= x /\ x <= t) \/ (t <= x /\ x <= r)
          \/ (t <= x /\ x <= q) \/ (q <= x /\ x <= t)
      BY <2>1, <2>2
    <3> QED BY <1>4, <3>1 DEF Chained
  <2> QED BY <2>2 DEF Chained
<1>5. ASSUME NEW r \in Windows!Group(s) PROVE Windows!Group(r) = Windows!Group(s)
  <2>1. r \in Windows!OnRecord /\ Chained(r, s) BY GroupIs
  <2>2. Chained(s, r) BY <1>3, <2>1
  <2>3. \A q \in Windows!OnRecord : Chained(q, r) <=> Chained(q, s) BY <1>4, <2>1, <2>2
  <2>4. Windows!Group(r) = {q \in Windows!OnRecord : Chained(q, r)} BY <2>1, GroupIs
  <2>5. Windows!Group(s) = {q \in Windows!OnRecord : Chained(q, s)} BY GroupIs
  <2> QED BY <2>3, <2>4, <2>5
<1> QED BY <1>2, <1>5, GroupIs

\* Groups are finite, as ends are.
LEMMA GroupFinite ==
  ASSUME NEW s \in Windows!OnRecord
  PROVE  IsFiniteSet(Windows!Group(s)) /\ Windows!Group(s) # {} /\ Windows!Group(s) \in SUBSET Int
<1>1. Windows!Group(s) \in SUBSET ResetTime BY GroupsPartition DEF Windows!OnRecord
<1>2. IsFiniteSet(Windows!Group(s)) BY <1>1, WindowConstants, FS_Subset
<1>3. \A x \in ResetTime : x \in Int BY WindowNumbers
<1> QED BY <1>1, <1>2, <1>3, GroupsPartition

\* A group has one canonical end, which is in it.
LEMMA CanonicalIs ==
  ASSUME NEW s \in Windows!OnRecord
  PROVE  /\ Windows!Canonical(s) \in Windows!Group(s)
         /\ \A r \in Windows!Group(s) : Windows!Canonical(r) = Windows!Canonical(s)
<1> DEFINE G == Windows!Group(s)
           f == [q \in G |-> Windows!MessagesOf(q)]
           M == {f[q] : q \in G}
           B == {r \in G : \A q \in G : Windows!MessagesOf(q) <= Windows!MessagesOf(r)}
<1>1. \A q \in G : Windows!MessagesOf(q) \in Nat
  <2>1. ASSUME NEW q \in G PROVE Windows!MessagesOf(q) \in Nat
    <3> DEFINE E == {e \in Event : events[e] # None /\ events[e].end = q /\ events[e].kind = "messages"}
    <3>1. IsFiniteSet(E) BY WindowConstants, FS_Subset
    <3>2. Cardinality(E) \in Nat BY <3>1, FS_CardinalityType
    <3> QED BY <3>2, WindowCardinality DEF Windows!MessagesOf
  <2> QED BY <2>1
<1>2. G # {} /\ IsFiniteSet(G) /\ G \in SUBSET Int BY GroupFinite
<1> HIDE DEF G
<1>3. M \in SUBSET Int BY <1>1
<1>4. IsFiniteSet(M) BY ONLY <1>2, FiniteImage
<1>5. M # {} BY <1>2
<1>6. PICK m \in M : \A n \in M : n <= m
  <2> HIDE DEF M
  <2> QED BY <1>3, <1>4, <1>5, FiniteBounds
<1>7. B # {}
  <2>1. PICK r \in G : m = f[r] BY <1>6
  <2>2. \A q \in G : Windows!MessagesOf(q) <= Windows!MessagesOf(r) BY <1>6, <2>1
  <2> QED BY <2>2
<1>8. B \in SUBSET Int BY <1>2
<1>9. IsFiniteSet(B) BY <1>2, FS_Subset
<1>10. Windows!Canonical(s) = Windows!Max(B) BY DEF Windows!Canonical, G
<1>11. Windows!Max(B) \in B
  <2> HIDE DEF B
  <2> QED BY <1>7, <1>8, <1>9, MaxOf
<1>12. Windows!Canonical(s) \in G BY <1>10, <1>11
<1>13. ASSUME NEW r \in G PROVE Windows!Canonical(r) = Windows!Canonical(s)
  <2>1. Windows!Group(r) = Windows!Group(s) BY GroupsPartition DEF G
  <2> QED BY <2>1, Zenon DEF Windows!Canonical
<1> QED BY <1>12, <1>13 DEF G

\* What the merged window takes from the windows of its group.
Merges(m, G) ==
  /\ m \in Windows!Window
  /\ \E r \in G : windows[r].first = m.first /\ windows[r].firstUsed = m.firstUsed
  /\ \E r \in G : windows[r].last = m.last /\ windows[r].lastUsed = m.lastUsed
  /\ \E r \in G : windows[r].maxUsed = m.maxUsed
  /\ \A r \in G : /\ m.first <= windows[r].first /\ windows[r].last <= m.last
                  /\ windows[r].maxUsed <= m.maxUsed
  /\ \/ m.exhausted = 0 /\ \A r \in G : windows[r].exhausted = 0
     \/ /\ m.exhausted # 0 /\ \E r \in G : windows[r].exhausted = m.exhausted
        /\ \A r \in G : windows[r].exhausted # 0 => m.exhausted <= windows[r].exhausted

\* A merged window takes the fields the sum of its group takes.
LEMMA MergedMerges ==
  ASSUME Windows!TypeOK, NEW s \in Windows!OnRecord
  PROVE  Merges(Windows!Merged(s), Windows!Group(s))
<1> DEFINE G == Windows!Group(s)
           own == windows[Windows!Canonical(s)]
           firsts == {windows[r].first : r \in G}
           lasts == {windows[r].last : r \in G}
           useds == {windows[r].maxUsed : r \in G}
           exs == {windows[r].exhausted : r \in G} \ {0}
           first == Windows!Min(firsts)
           last == Windows!Max(lasts)
           F == {r \in G : windows[r].first = first}
           L == {r \in G : windows[r].last = last}
           firstUsed == IF own.first = first THEN own.firstUsed ELSE windows[Windows!Min(F)].firstUsed
           lastUsed == IF own.last = last THEN own.lastUsed ELSE windows[Windows!Min(L)].lastUsed
           maxUsed == Windows!Max(useds)
           exhausted == IF exs = {} THEN 0 ELSE Windows!Min(exs)
           m == Windows!Merged(s)
<1>1. m = [first |-> first, last |-> last, firstUsed |-> firstUsed, lastUsed |-> lastUsed,
           maxUsed |-> maxUsed, exhausted |-> exhausted]
  BY Zenon DEF Windows!Merged
<1>2. G # {} /\ IsFiniteSet(G) /\ G \in SUBSET Int BY GroupFinite
<1>3. \A r \in G : windows[r] \in Windows!Window
  BY GroupsPartition DEF Windows!OnRecord, Windows!TypeOK
<1>4. \A r \in G : /\ windows[r].first \in Nat /\ windows[r].last \in Nat
                   /\ windows[r].maxUsed \in Int /\ windows[r].exhausted \in Nat
                   /\ windows[r].first \in Time /\ windows[r].last \in Time
                   /\ windows[r].exhausted \in Time \cup {0}
                   /\ windows[r].maxUsed \in Percent \cup {-1}
                   /\ windows[r].firstUsed \in Percent \cup {-1}
                   /\ windows[r].lastUsed \in Percent \cup {-1}
  BY <1>3, WindowTypes
<1>5. Windows!Canonical(s) \in G BY CanonicalIs
<1> HIDE DEF G
<1>6. first \in firsts /\ \A x \in firsts : first <= x
  <2> DEFINE f == [r \in G |-> windows[r].first]
  <2>1. firsts = {f[r] : r \in G} OBVIOUS
  <2>2. \A x \in firsts : x \in Int BY <1>4
  <2>3. firsts # {} BY <1>2
  <2> HIDE DEF firsts, f
  <2>4. IsFiniteSet(firsts) BY <1>2, <2>1, FiniteImage
  <2>5. firsts \in SUBSET Int BY <2>2
  <2> QED BY <2>3, <2>4, <2>5, MinOf
<1>7. last \in lasts /\ \A x \in lasts : x <= last
  <2> DEFINE f == [r \in G |-> windows[r].last]
  <2>1. lasts = {f[r] : r \in G} OBVIOUS
  <2>2. \A x \in lasts : x \in Int BY <1>4
  <2>3. lasts # {} BY <1>2
  <2> HIDE DEF lasts, f
  <2>4. IsFiniteSet(lasts) BY <1>2, <2>1, FiniteImage
  <2>5. lasts \in SUBSET Int BY <2>2
  <2> QED BY <2>3, <2>4, <2>5, MaxOf
<1>8. maxUsed \in useds /\ \A x \in useds : x <= maxUsed
  <2> DEFINE f == [r \in G |-> windows[r].maxUsed]
  <2>1. useds = {f[r] : r \in G} OBVIOUS
  <2>2. \A x \in useds : x \in Int BY <1>4
  <2>3. useds # {} BY <1>2
  <2> HIDE DEF useds, f
  <2>4. IsFiniteSet(useds) BY <1>2, <2>1, FiniteImage
  <2>5. useds \in SUBSET Int BY <2>2
  <2> QED BY <2>3, <2>4, <2>5, MaxOf
<1>9. exs # {} => exhausted \in exs /\ \A x \in exs : exhausted <= x
  <2> DEFINE f == [r \in G |-> windows[r].exhausted]
             all == {f[r] : r \in G}
  <2>1. IsFiniteSet(all) BY ONLY <1>2, FiniteImage
  <2>2. exs \in SUBSET all OBVIOUS
  <2> HIDE DEF all
  <2>3. IsFiniteSet(exs) BY <2>1, <2>2, FS_Subset
  <2>4. exs \in SUBSET Int BY <1>4
  <2> HIDE DEF exs
  <2>5. exs # {} => Windows!Min(exs) \in exs /\ \A x \in exs : Windows!Min(exs) <= x
    BY <2>3, <2>4, MinOf
  <2> QED BY <2>5
<1>10. \E r \in G : windows[r].first = first /\ windows[r].firstUsed = firstUsed
  <2>1. CASE own.first = first BY <1>5, <2>1
  <2>2. CASE own.first # first
    <3>1. F \in SUBSET Int /\ F # {} BY <1>2, <1>6
    <3>2. IsFiniteSet(F) BY <1>2, FS_Subset
    <3>3. Windows!Min(F) \in F
      <4> HIDE DEF F
      <4> QED BY <3>1, <3>2, MinOf
    <3> QED BY <2>2, <3>3
  <2> QED BY <2>1, <2>2
<1>11. \E r \in G : windows[r].last = last /\ windows[r].lastUsed = lastUsed
  <2>1. CASE own.last = last BY <1>5, <2>1
  <2>2. CASE own.last # last
    <3>1. L \in SUBSET Int /\ L # {} BY <1>2, <1>7
    <3>2. IsFiniteSet(L) BY <1>2, FS_Subset
    <3>3. Windows!Min(L) \in L
      <4> HIDE DEF L
      <4> QED BY <3>1, <3>2, MinOf
    <3> QED BY <2>2, <3>3
  <2> QED BY <2>1, <2>2
<1>12. \A r \in G : windows[r].exhausted # 0 => windows[r].exhausted \in exs OBVIOUS
<1>13. \A x \in exs : x # 0 /\ \E r \in G : windows[r].exhausted = x OBVIOUS
<1>14. \A r \in G : /\ first <= windows[r].first /\ windows[r].last <= last
                    /\ windows[r].maxUsed <= maxUsed
  BY <1>6, <1>7, <1>8
<1>15. \E r \in G : windows[r].maxUsed = maxUsed BY <1>8
<1>16. \/ exhausted = 0 /\ \A r \in G : windows[r].exhausted = 0
       \/ /\ exhausted # 0 /\ \E r \in G : windows[r].exhausted = exhausted
          /\ \A r \in G : windows[r].exhausted # 0 => exhausted <= windows[r].exhausted
  <2> HIDE DEF exs
  <2>1. CASE exs = {} BY <1>12, <2>1
  <2> HIDE DEF exhausted
  <2>2. CASE exs # {} BY <1>9, <1>12, <1>13, <2>2
  <2> QED BY <2>1, <2>2
<1>17. exhausted \in Time \cup {0} BY <1>4, <1>16
<1> HIDE DEF first, last, firstUsed, lastUsed, maxUsed, exhausted, m
<1>18. m \in Windows!Window
  <2>1. first \in Time /\ firstUsed \in Percent \cup {-1} BY <1>4, <1>10
  <2>2. last \in Time /\ lastUsed \in Percent \cup {-1} BY <1>4, <1>11
  <2>3. maxUsed \in Percent \cup {-1} BY <1>4, <1>15
  <2> QED BY <1>1, <1>17, <2>1, <2>2, <2>3 DEF Windows!Window, Windows!NoReading
<1>19. /\ m.first = first /\ m.last = last /\ m.firstUsed = firstUsed /\ m.lastUsed = lastUsed
       /\ m.maxUsed = maxUsed /\ m.exhausted = exhausted
  BY <1>1
<1>20. Merges(m, G) BY <1>10, <1>11, <1>14, <1>15, <1>16, <1>18, <1>19 DEF Merges
<1> QED BY <1>20 DEF m, G

\* Before the migration a window sums up its own events only.
LEMMA NoneAstrayYet ==
  ASSUME WindowsInv, version = 8
  PROVE  \A s \in ResetTime : /\ Windows!SummedUp(s) = Windows!EventsOf(s)
                              /\ IF Windows!EventsOf(s) = {} THEN windows[s] = None
                                 ELSE Tells(windows[s], Windows!EventsOf(s), events)
<1>1. \A e \in Event : astray[e] = {} BY DEF WindowsInv, Unmigrated
<1>2. \A s \in ResetTime : Windows!SummedUp(s) = Windows!EventsOf(s)
  BY <1>1 DEF Windows!SummedUp, Windows!EventsOf
<1>3. \A s \in ResetTime : WindowHolds(s) BY DEF WindowsInv
<1> QED BY <1>2, <1>3 DEF WindowHolds

\* A window that takes from those of its group tells of the events of all of them.
LEMMA MergedTells ==
  ASSUME WindowsInv, version = 8, NEW G \in SUBSET Windows!OnRecord, NEW m, Merges(m, G), NEW ev,
         NEW E, E = UNION {Windows!EventsOf(r) : r \in G},
         \A e \in E : /\ ev[e].at = events[e].at /\ ev[e].used = events[e].used
                      /\ ev[e].kind = events[e].kind
  PROVE  Tells(m, E, ev)
<1>1. \A r \in G : r \in ResetTime /\ windows[r] # None BY DEF Windows!OnRecord
<1>2. \A r \in G : Tells(windows[r], Windows!EventsOf(r), events) BY <1>1, NoneAstrayYet
<1>3. \A r \in G : \A e \in Windows!EventsOf(r) : e \in E OBVIOUS
<1>4. \A e \in E : \E r \in G : e \in Windows!EventsOf(r) OBVIOUS
<1>5. \A r \in G : \A e \in Windows!EventsOf(r) :
        events[e].at \in Int /\ events[e].at > 0 /\ events[e].used \in Int
  <2>1. \A r \in G : \A e \in Windows!EventsOf(r) : events[e] \in Windows!Reported
    BY DEF WindowsInv, Windows!TypeOK, Windows!EventsOf
  <2> QED BY <2>1, ObservationTypes
<1>6. \A r \in G : /\ windows[r].first \in Int /\ windows[r].last \in Int
                   /\ windows[r].maxUsed \in Int /\ windows[r].exhausted \in Int
  BY <1>2, WindowTypes DEF Tells
<1>7. m \in Windows!Window BY DEF Merges
<1>8. m.first \in Int /\ m.last \in Int /\ m.maxUsed \in Int /\ m.exhausted \in Int
  BY <1>7, WindowTypes
<1>9. \E e \in E : ev[e].at = m.first /\ ev[e].used = m.firstUsed
  <2>1. PICK r \in G : windows[r].first = m.first /\ windows[r].firstUsed = m.firstUsed
    BY DEF Merges
  <2>2. PICK e \in Windows!EventsOf(r) :
          events[e].at = windows[r].first /\ events[e].used = windows[r].firstUsed
    BY <1>2 DEF Tells
  <2> QED BY <1>3, <2>1, <2>2
<1>10. \E e \in E : ev[e].at = m.last /\ ev[e].used = m.lastUsed
  <2>1. PICK r \in G : windows[r].last = m.last /\ windows[r].lastUsed = m.lastUsed
    BY DEF Merges
  <2>2. PICK e \in Windows!EventsOf(r) :
          events[e].at = windows[r].last /\ events[e].used = windows[r].lastUsed
    BY <1>2 DEF Tells
  <2> QED BY <1>3, <2>1, <2>2
<1>11. \E e \in E : ev[e].used = m.maxUsed
  <2>1. PICK r \in G : windows[r].maxUsed = m.maxUsed BY DEF Merges
  <2>2. PICK e \in Windows!EventsOf(r) : events[e].used = windows[r].maxUsed BY <1>2 DEF Tells
  <2> QED BY <1>3, <2>1, <2>2
<1>12. ASSUME NEW e \in E
       PROVE m.first <= ev[e].at /\ ev[e].at <= m.last /\ ev[e].used <= m.maxUsed
  <2>1. PICK r \in G : e \in Windows!EventsOf(r) BY <1>4
  <2>2. /\ windows[r].first <= events[e].at /\ events[e].at <= windows[r].last
        /\ events[e].used <= windows[r].maxUsed
    BY <1>2, <2>1 DEF Tells
  <2>3. /\ m.first <= windows[r].first /\ windows[r].last <= m.last
        /\ windows[r].maxUsed <= m.maxUsed
    BY DEF Merges
  <2>4. events[e].at \in Int /\ events[e].used \in Int BY <1>5, <2>1
  <2>5. m.first <= events[e].at /\ events[e].at <= m.last /\ events[e].used <= m.maxUsed
    BY <1>6, <1>8, <2>2, <2>3, <2>4
  <2> QED BY <2>5
<1>13. ASSUME NEW r \in G
       PROVE \/ /\ windows[r].exhausted = 0
               /\ \A e \in Windows!EventsOf(r) : events[e].kind # "exhaustion"
             \/ /\ \E e \in Windows!EventsOf(r) :
                     events[e].kind = "exhaustion" /\ events[e].at = windows[r].exhausted
                /\ \A e \in Windows!EventsOf(r) :
                     events[e].kind = "exhaustion" => windows[r].exhausted <= events[e].at
  BY <1>2 DEF Tells
<1>14. ASSUME NEW r \in G, windows[r].exhausted = 0
       PROVE \A e \in Windows!EventsOf(r) : events[e].kind # "exhaustion"
  <2>1. ASSUME NEW e \in Windows!EventsOf(r), events[e].at = windows[r].exhausted PROVE FALSE
    <3>1. events[e].at \in Int /\ events[e].at > 0 BY <1>5
    <3> QED BY <1>14, <2>1, <3>1
  <2> QED BY <1>13, <2>1
<1>15. CASE m.exhausted = 0 /\ \A r \in G : windows[r].exhausted = 0
  <2>1. \A e \in E : ev[e].kind # "exhaustion" BY <1>4, <1>14, <1>15
  <2> QED BY <1>7, <1>9, <1>10, <1>11, <1>12, <1>15, <2>1 DEF Tells
<1>16. CASE /\ m.exhausted # 0 /\ \E r \in G : windows[r].exhausted = m.exhausted
            /\ \A r \in G : windows[r].exhausted # 0 => m.exhausted <= windows[r].exhausted
  <2>1. \E e \in E : ev[e].kind = "exhaustion" /\ ev[e].at = m.exhausted
    <3>1. PICK r \in G : windows[r].exhausted = m.exhausted BY <1>16
    <3>2. PICK e \in Windows!EventsOf(r) :
            events[e].kind = "exhaustion" /\ events[e].at = windows[r].exhausted
      BY <1>13, <1>16, <3>1
    <3> QED BY <1>3, <3>1, <3>2
  <2>2. ASSUME NEW e \in E, ev[e].kind = "exhaustion" PROVE m.exhausted <= ev[e].at
    <3>1. PICK r \in G : e \in Windows!EventsOf(r) BY <1>4
    <3>2. events[e].kind = "exhaustion" BY <2>2
    <3>3. windows[r].exhausted # 0 BY <1>14, <3>1, <3>2
    <3>4. m.exhausted <= windows[r].exhausted BY <1>16, <3>3
    <3>5. windows[r].exhausted <= events[e].at BY <1>13, <3>1, <3>2, <3>3
    <3>6. events[e].at \in Int BY <1>5, <3>1
    <3>7. m.exhausted <= events[e].at BY <1>6, <1>8, <3>4, <3>5, <3>6
    <3> QED BY <3>7
  <2> QED BY <1>7, <1>9, <1>10, <1>11, <1>12, <2>1, <2>2 DEF Tells
<1> QED BY <1>15, <1>16 DEF Merges

\* A migration merges adjacent windows and moves their events with them.
LEMMA MergeKeepsWindows ==
  ASSUME WindowsInv, Windows!mergeAdjacentFiveHourWindows
  PROVE  WindowsInv'
<1> DEFINE Kept(s) == s \in Windows!OnRecord /\ Windows!Canonical(s) = s
<1>1. Windows!TypeOK BY DEF WindowsInv
<1>2. windows' = [s \in ResetTime |-> IF Kept(s) THEN Windows!Merged(s) ELSE None]
  BY DEF Windows!mergeAdjacentFiveHourWindows
<1>3. events' = [e \in Event |-> IF events[e] # None /\ events[e].end \in Windows!OnRecord
                                 THEN [events[e] EXCEPT !.end = Windows!Canonical(events[e].end)]
                                 ELSE events[e]]
  BY DEF Windows!mergeAdjacentFiveHourWindows
<1>4. /\ version = 8 /\ version' = 9 /\ astray' = astray
      /\ said' = said /\ pending' = pending /\ batch' = batch /\ written' = written
  BY DEF Windows!mergeAdjacentFiveHourWindows, Windows!memory
<1>5. \A s \in Windows!OnRecord : s \in ResetTime /\ s # 0 /\ s \in Int
  BY WindowNumbers DEF Windows!OnRecord
<1>6. \A s \in Windows!OnRecord : Windows!Canonical(s) \in Windows!OnRecord
  BY CanonicalIs, GroupsPartition
<1>7. ASSUME NEW s \in ResetTime, NEW e \in Windows!EventsOf(s) PROVE s \in Windows!OnRecord
  <2>1. Tells(windows[s], Windows!EventsOf(s), events) BY <1>4, <1>7, NoneAstrayYet
  <2>2. windows[s] # None BY <2>1, WindowTypes DEF Tells
  <2> QED BY <2>2 DEF Windows!OnRecord
<1>8. ASSUME NEW e \in Event, events[e] # None, events[e].end \in Windows!OnRecord
      PROVE  /\ events'[e] \in Windows!Reported
             /\ events'[e].end = Windows!Canonical(events[e].end)
             /\ events'[e].kind = events[e].kind /\ events'[e].at = events[e].at
             /\ events'[e].used = events[e].used
  <2>1. events[e] \in Windows!Reported BY <1>1, <1>8 DEF Windows!TypeOK
  <2>2. Windows!Canonical(events[e].end) \in ResetTime /\ events[e].end # 0 BY <1>5, <1>6, <1>8
  <2>3. events'[e] = [events[e] EXCEPT !.end = Windows!Canonical(events[e].end)]
    BY <1>3, <1>8
  <2> QED BY <2>1, <2>2, <2>3, OtherEnd
<1>9. \A e \in Event : events[e] = None => events'[e] = None BY <1>3
<1>10. ASSUME NEW e \in Event, events[e] # None, events[e].end \notin Windows!OnRecord
       PROVE  events'[e] = events[e]
  BY <1>3, <1>10
<1>11. Windows!TypeOK'
  <2>1. events' \in [Event -> Windows!Reported \cup {None}]
    <3>1. ASSUME NEW e \in Event PROVE events'[e] \in Windows!Reported \cup {None}
      BY <1>1, <1>8, <1>9, <1>10 DEF Windows!TypeOK
    <3> QED BY <1>3, <3>1
  <2>2. \A s \in ResetTime : Kept(s) => Windows!Merged(s) \in Windows!Window
    BY <1>1, MergedMerges DEF Merges
  <2> HIDE DEF Kept
  <2>3. windows' \in [ResetTime -> Windows!Window \cup {None}] BY <1>2, <2>2
  <2> QED BY <1>1, <1>4, <2>1, <2>3 DEF Windows!TypeOK
<1>12. ASSUME NEW s \in ResetTime, Kept(s)
       PROVE  Windows!EventsOf(s)' = UNION {Windows!EventsOf(r) : r \in Windows!Group(s)}
  <2>1. ASSUME NEW e \in Event
        PROVE (events'[e] # None /\ events'[e].end = s) <=>
              \E r \in Windows!Group(s) : events[e] # None /\ events[e].end = r
    <3>1. CASE events[e] = None BY <1>9, <3>1
    <3>2. CASE events[e] # None /\ events[e].end \notin Windows!OnRecord
      <4>1. events'[e].end # s BY <1>10, <1>12, <3>2
      <4> QED BY <1>12, <3>2, <4>1, GroupsPartition
    <3>3. CASE events[e] # None /\ events[e].end \in Windows!OnRecord
      <4> DEFINE r == events[e].end
      <4>1. events'[e] # None /\ events'[e].end = Windows!Canonical(r)
        BY <1>8, <3>3, ObservationTypes
      <4>2. Windows!Canonical(r) = s => r \in Windows!Group(s)
        BY <3>3, CanonicalIs, GroupsPartition
      <4>3. r \in Windows!Group(s) => Windows!Canonical(r) = s BY <1>12, CanonicalIs
      <4> QED BY <3>3, <4>1, <4>2, <4>3
    <3> QED BY <3>1, <3>2, <3>3
  <2> QED BY <2>1 DEF Windows!EventsOf
<1>13. ASSUME NEW s \in ResetTime, ~Kept(s) PROVE Windows!EventsOf(s)' = {}
  <2>1. ASSUME NEW e \in Event, events'[e] # None, events'[e].end = s PROVE FALSE
    <3>1. events[e] # None BY <1>9, <2>1
    <3>2. CASE events[e].end \in Windows!OnRecord
      <4> DEFINE r == events[e].end
      <4>1. s = Windows!Canonical(r) BY <1>8, <2>1, <3>1, <3>2
      <4>2. s \in Windows!Group(r) /\ s \in Windows!OnRecord BY <1>6, <3>2, <4>1, CanonicalIs
      <4>3. Windows!Canonical(s) = Windows!Canonical(r) BY <3>2, <4>2, CanonicalIs
      <4> QED BY <1>13, <4>1, <4>2, <4>3
    <3>3. CASE events[e].end \notin Windows!OnRecord
      <4>1. events[e].end = s BY <1>10, <2>1, <3>1, <3>3
      <4>2. e \in Windows!EventsOf(s) BY <3>1, <4>1 DEF Windows!EventsOf
      <4> QED BY <1>7, <3>3, <4>1, <4>2
    <3> QED BY <3>2, <3>3
  <2> QED BY <2>1 DEF Windows!EventsOf
<1>14. ASSUME NEW s \in ResetTime, Kept(s)
       PROVE  Tells(windows'[s], Windows!EventsOf(s)', events')
  <2> DEFINE E == UNION {Windows!EventsOf(r) : r \in Windows!Group(s)}
  <2>1. windows'[s] = Windows!Merged(s) BY <1>2, <1>14
  <2>2. Windows!EventsOf(s)' = E BY <1>12, <1>14
  <2>3. Windows!Group(s) \in SUBSET Windows!OnRecord BY <1>14, GroupsPartition
  <2>4. Merges(Windows!Merged(s), Windows!Group(s)) BY <1>1, <1>14, MergedMerges
  <2>5. \A e \in E : /\ events'[e].at = events[e].at /\ events'[e].used = events[e].used
                     /\ events'[e].kind = events[e].kind
    BY <1>8, <2>3 DEF Windows!EventsOf
  <2> HIDE DEF E
  <2>6. Tells(Windows!Merged(s), E, events') BY <1>4, <2>3, <2>4, <2>5, MergedTells DEF E
  <2> QED BY <2>1, <2>2, <2>6
<1>15. ASSUME NEW s \in ResetTime
       PROVE  IF Windows!EventsOf(s)' = {} THEN windows'[s] = None
              ELSE Tells(windows'[s], Windows!EventsOf(s)', events')
  <2>1. CASE Kept(s)
    <3>1. Tells(windows'[s], Windows!EventsOf(s)', events') BY <1>14, <2>1
    <3>2. Windows!EventsOf(s)' # {} BY <3>1 DEF Tells
    <3> QED BY <3>1, <3>2
  <2>2. CASE ~Kept(s)
    <3>1. windows'[s] = None
      <4> HIDE DEF Kept
      <4> QED BY <1>2, <2>2
    <3> QED BY <1>13, <2>2, <3>1
  <2> QED BY <2>1, <2>2
<1>16. Windows!OneWindowPerEnd'
  <2>1. \A s \in ResetTime : windows'[s] # None => Kept(s)
    <3> HIDE DEF Kept
    <3> QED BY <1>2
  <2>2. Windows!OnRecord' \subseteq {s \in ResetTime : Kept(s)} BY <2>1 DEF Windows!OnRecord
  <2>3. ASSUME NEW r \in ResetTime, NEW s \in ResetTime, Kept(r), Kept(s), r < s
        PROVE  s - r > 1
    <3>1. r \in Int /\ s \in Int BY <1>5, <2>3
    <3>2. CASE s - r > 1 BY <3>2
    <3>3. CASE ~(s - r > 1)
      <4>1. s = r + 1 BY <2>3, <3>1, <3>3
      <4>2. \A x \in Int : (r <= x /\ x <= s) \/ (s <= x /\ x <= r) => x = r \/ x = s
        BY <3>1, <4>1
      <4>3. Chained(r, s) BY <2>3, <4>2 DEF Chained
      <4>4. r \in Windows!Group(s) BY <2>3, <4>3, GroupIs
      <4>5. Windows!Canonical(r) = Windows!Canonical(s) BY <2>3, <4>4, CanonicalIs
      <4>6. r = s BY <2>3, <4>5
      <4> QED BY <3>1, <4>1, <4>6
    <3> QED BY <3>2, <3>3
  <2> HIDE DEF Kept
  <2> QED BY <2>2, <2>3 DEF Windows!OneWindowPerEnd
<1>17. \A e \in Event : said'[e] = None /\ astray'[e] = {}
  BY <1>4 DEF WindowsInv, Unmigrated
<1>18. ASSUME NEW s \in ResetTime PROVE WindowHolds(s)'
  <2>1. Windows!SummedUp(s)' = Windows!EventsOf(s)'
    BY <1>17 DEF Windows!SummedUp, Windows!EventsOf
  <2> QED BY <1>15, <2>1 DEF WindowHolds
<1>19. Windows!StraysAreNear' BY <1>17 DEF Windows!StraysAreNear
<1>20. Unmigrated' /\ \A e \in Event : Queued(e)' BY <1>17 DEF Unmigrated, Queued
<1> QED BY <1>11, <1>16, <1>18, <1>19, <1>20 DEF WindowsInv


\* Every step of the windows keeps their invariant.
\* Every step of the windows keeps their invariant.
LEMMA WindowsStep ==
  ASSUME WindowsInv, Windows!Next \/ UNCHANGED windowVars
  PROVE  WindowsInv'
<1>1. ASSUME NEW e \in Event, Windows!WriteAsReported(e) PROVE WindowsInv'
  <2>1. PICK p \in Windows!Reported : Windows!insertFiveHourEvent(e, p)
    BY <1>1 DEF Windows!WriteAsReported
  <2>2. /\ said[e] = None /\ events[e] = None /\ version = 8 /\ version' = version
        /\ UNCHANGED Windows!memory
    BY <1>1 DEF Windows!WriteAsReported, Windows!Fresh
  <2>3. Fits(e, p) BY <2>2 DEF Fits
  <2> QED BY <2>1, <2>2, <2>3, WriteKeepsWindows
<1>2. ASSUME NEW e \in Event,
             Windows!recordAccountUsageObservation(e) \/ Windows!MarkFiveHourExhausted(e)
      PROVE  WindowsInv'
  <2>1. PICK o \in Windows!Reported : Windows!Write(e, o)
    BY <1>2 DEF Windows!recordAccountUsageObservation, Windows!MarkFiveHourExhausted
  <2>2. said[e] = None /\ events[e] = None /\ UNCHANGED Windows!memory
    BY <1>2 DEF Windows!recordAccountUsageObservation, Windows!MarkFiveHourExhausted,
       Windows!Fresh
  <2>3. /\ version' = version
        /\ \E p \in Windows!Reported : Fits(e, p) /\ Windows!insertFiveHourEvent(e, p)
    BY <2>1, <2>2, FirstWriteKeepsTables
  <2> QED BY <2>2, <2>3, WriteKeepsWindows
<1>3. CASE UNCHANGED windowVars
  <2>1. /\ UNCHANGED <<version, events, windows, astray>>
        /\ said' = said /\ pending' = pending /\ batch' = batch /\ written' = written
    BY <1>3 DEF windowVars
  <2>2. /\ said' \in [Event -> Windows!Messages \cup {None}]
        /\ pending' \in Seq(Event) /\ batch' \in Seq(Event) /\ written' \in 0 .. Len(batch')
        /\ \A i \in DOMAIN pending' : said'[pending'[i]] # None
        /\ \A i \in DOMAIN batch' : said'[batch'[i]] # None
        /\ \A e \in Event : said'[e] \in {said[e], None}
    BY <2>1 DEF WindowsInv, Windows!TypeOK
  <2> QED BY <2>1, <2>2, ForgetKeepsWindows
<1> QED
  BY <1>1, <1>2, <1>3, RecordKeepsWindows, BatchKeepsWindows, FlushKeepsWindows,
     ClearKeepsWindows, MergeKeepsWindows DEF Windows!Next
-----------------------------------------------------------------------------
(* The parts that have proofs of their own.  A part of a behaviour takes the  *)
(* steps its module allows, and nothing else happens to its variables.        *)
partsVars == <<part, vars, resetVars, windowVars, sampleVars, exitVars, trafficVars, toolVars>>

\* The part's module and the module of its proofs say the same.
LEMMA ResetSteps ==
  ASSUME part = "reset", [OnePart]_partsVars
  PROVE  part' = "reset" /\ [ResetP!Next]_ResetP!vars
<1>1. Reset!Next => ResetP!Next
  BY Zenon DEF Reset!Next, ResetP!Next, Reset!Handle, ResetP!Handle, Reset!Enter,
     ResetP!Enter, Reset!Request, ResetP!Request, Reset!Goto, ResetP!Goto, Reset!upstream,
     ResetP!upstream, Reset!Lock, ResetP!Lock, Reset!GiveUp, ResetP!GiveUp, Reset!End,
     ResetP!End, Reset!ResolveOnly, ResetP!ResolveOnly, Reset!OnRecord, ResetP!OnRecord,
     Reset!Unresolved, ResetP!Unresolved, Reset!Settle, ResetP!Settle, Reset!Retry,
     ResetP!Retry, Reset!Ask, ResetP!Ask, Reset!BeginUsageReset, ResetP!BeginUsageReset,
     Reset!Post, ResetP!Post, Reset!Claimed, ResetP!Claimed, Reset!Answered,
     ResetP!Answered, Reset!Spend, ResetP!Spend, Reset!ClaimRepeated, ResetP!ClaimRepeated,
     Reset!ClaimRefused, ResetP!ClaimRefused, Reset!ClaimTimesOut, ResetP!ClaimTimesOut,
     Reset!FinishUsageReset, ResetP!FinishUsageReset, Reset!Outcome, ResetP!Outcome,
     Reset!Settling, ResetP!Settling, Reset!FinishFails, ResetP!FinishFails,
     Reset!LateClaim, ResetP!LateClaim, Reset!handlers, ResetP!handlers, Reset!Age,
     ResetP!Age, Reset!ForgetId, ResetP!ForgetId, Reset!InFlight, ResetP!InFlight,
     Reset!Posting, ResetP!Posting, Reset!Crash, ResetP!Crash
<1>2. UNCHANGED resetVars => UNCHANGED ResetP!vars
  BY DEF resetVars, ResetP!vars, ResetP!upstream, ResetP!handlers
<1>3. CASE OnePart BY <1>1, <1>3 DEF OnePart
<1>4. CASE UNCHANGED partsVars BY <1>2, <1>4 DEF partsVars
<1> QED BY <1>3, <1>4

\* The first states of a behaviour of the reset cards.
LEMMA ResetBegins == ASSUME AnyPart, part = "reset" PROVE ResetP!Init
BY Zenon DEF AnyPart, Reset!Init, ResetP!Init

\* The constants of the composition are such as the proofs of the part assume.
LEMMA ResetSuits == ResetP!ResetConstants
BY ResetConstants DEF ResetP!ResetConstants, Reset!Record, Reset!Request, Reset!Answers,
   Reset!Settling, ResetP!Record, ResetP!Request, ResetP!Answers, ResetP!Settling

\* The invariant of the part, in the composition.
LEMMA ResetInvariant == PartsSpec => [](part = "reset" => ResetP!IInv)
<1>1. AnyPart => (part = "reset" => ResetP!IInv)
  BY ResetSuits, ResetBegins, ResetP!InitInv
<1>2. (part = "reset" => ResetP!IInv) /\ [OnePart]_partsVars => (part = "reset" => ResetP!IInv)'
  <2> SUFFICES ASSUME part = "reset" => ResetP!IInv, [OnePart]_partsVars, part' = "reset"
               PROVE  ResetP!IInv'
    OBVIOUS
  <2>1. part = "reset" BY DEF OnePart, partsVars
  <2> QED BY <2>1, ResetSuits, ResetSteps, ResetP!NextInv
<1> QED BY <1>1, <1>2, PTL DEF PartsSpec, partsVars

\* The part's module and the module of its proofs say the same.
LEMMA SampleSteps ==
  ASSUME part = "samples", [OnePart]_partsVars
  PROVE  part' = "samples" /\ [SampleP!Next]_SampleP!vars
<1>1. Sample!Next => SampleP!Next
  BY Zenon DEF Sample!Next, SampleP!Next, Sample!Ask, SampleP!Ask, Sample!Goto,
     SampleP!Goto, Sample!cache, SampleP!cache, Sample!shown, SampleP!shown, Sample!Lock,
     SampleP!Lock, Sample!ReadFails, SampleP!ReadFails, Sample!Return, SampleP!Return,
     Sample!getJSON, SampleP!getJSON, Sample!Keep, SampleP!Keep, Sample!NotObserved,
     SampleP!NotObserved, Sample!recordAccountUsageObservation,
     SampleP!recordAccountUsageObservation, Sample!Arrive, SampleP!Arrive, Sample!Reader,
     SampleP!Reader, Sample!Observe, SampleP!Observe, Sample!forAccount, SampleP!forAccount,
     Sample!Sampler, SampleP!Sampler, Sample!LoadAgain, SampleP!LoadAgain,
     Sample!CompareAndSwap, SampleP!CompareAndSwap, Sample!Done, SampleP!Done,
     Sample!forget, SampleP!forget, Sample!calls, SampleP!calls, Sample!Expire,
     SampleP!Expire, Sample!Tick, SampleP!Tick
<1>2. UNCHANGED sampleVars => UNCHANGED SampleP!vars
  BY DEF sampleVars, SampleP!vars, SampleP!cache, SampleP!shown, SampleP!calls
<1>3. CASE OnePart BY <1>1, <1>3 DEF OnePart
<1>4. CASE UNCHANGED partsVars BY <1>2, <1>4 DEF partsVars
<1> QED BY <1>3, <1>4

\* The first states of a behaviour of the samples.
LEMMA SampleBegins == ASSUME AnyPart, part = "samples" PROVE SampleP!Init
BY Zenon DEF AnyPart, Sample!Init, SampleP!Init, Sample!Sampler, SampleP!Sampler,
   Sample!Reader, SampleP!Reader

\* The constants of the composition are such as the proofs of the part assume.
LEMMA SampleSuits == SampleP!SampleConstants
BY SampleConstants DEF SampleP!SampleConstants

\* The invariant of the part, in the composition.
LEMMA SampleInvariant == PartsSpec => [](part = "samples" => SampleP!IInv)
<1>1. AnyPart => (part = "samples" => SampleP!IInv)
  BY SampleSuits, SampleBegins, SampleP!InitInv
<1>2. (part = "samples" => SampleP!IInv) /\ [OnePart]_partsVars => (part = "samples" => SampleP!IInv)'
  <2> SUFFICES ASSUME part = "samples" => SampleP!IInv, [OnePart]_partsVars, part' = "samples"
               PROVE  SampleP!IInv'
    OBVIOUS
  <2>1. part = "samples" BY DEF OnePart, partsVars
  <2> QED BY <2>1, SampleSuits, SampleSteps, SampleP!NextInv
<1> QED BY <1>1, <1>2, PTL DEF PartsSpec, partsVars

\* The part's module and the module of its proofs say the same.
LEMMA ToolsSteps ==
  ASSUME part = "tools", [OnePart]_partsVars
  PROVE  part' = "tools" /\ [ToolsP!Next]_ToolsP!vars
<1>1. Tools!Next => ToolsP!Next
  BY Zenon DEF Tools!Next, ToolsP!Next, Tools!Reserve, ToolsP!Reserve, Tools!Reserved,
     ToolsP!Reserved, Tools!EndOfTools, ToolsP!EndOfTools, Tools!Skip, ToolsP!Skip,
     Tools!Prefix, ToolsP!Prefix, Tools!Taken, ToolsP!Taken, Tools!Prefixed,
     ToolsP!Prefixed, Tools!Shorten, ToolsP!Shorten, Tools!FirstFree, ToolsP!FirstFree,
     Tools!Turn, ToolsP!Turn, Tools!Send, ToolsP!Send, Tools!Answer, ToolsP!Answer,
     Tools!Declared, ToolsP!Declared, Tools!Restored, ToolsP!Restored, Tools!Rename,
     ToolsP!Rename
<1>2. UNCHANGED toolVars => UNCHANGED ToolsP!vars
  BY DEF toolVars, ToolsP!vars
<1>3. CASE OnePart BY <1>1, <1>3 DEF OnePart
<1>4. CASE UNCHANGED partsVars BY <1>2, <1>4 DEF partsVars
<1> QED BY <1>3, <1>4

\* The first states of a behaviour of the tool names.
LEMMA ToolsBegins == ASSUME AnyPart, part = "tools" PROVE ToolsP!Init
BY Zenon DEF AnyPart, Tools!Init, ToolsP!Init, Tools!Spellings, ToolsP!Spellings,
   Tools!Names, ToolsP!Names

\* The constants of the composition are such as the proofs of the part assume.
LEMMA ToolsSuits == ToolsP!NameConstants
BY ToolConstants DEF ToolsP!NameConstants, Tools!Names, ToolsP!Names

\* The invariant of the part, in the composition.
LEMMA ToolsInvariant == PartsSpec => [](part = "tools" => ToolsP!IInv)
<1>1. AnyPart => (part = "tools" => ToolsP!IInv)
  BY ToolsSuits, ToolsBegins, ToolsP!InitInv
<1>2. (part = "tools" => ToolsP!IInv) /\ [OnePart]_partsVars => (part = "tools" => ToolsP!IInv)'
  <2> SUFFICES ASSUME part = "tools" => ToolsP!IInv, [OnePart]_partsVars, part' = "tools"
               PROVE  ToolsP!IInv'
    OBVIOUS
  <2>1. part = "tools" BY DEF OnePart, partsVars
  <2> QED BY <2>1, ToolsSuits, ToolsSteps, ToolsP!NextInv
<1> QED BY <1>1, <1>2, PTL DEF PartsSpec, partsVars

\* Whatever happens to its claims, no operation spends two cards (usage_reset.go:
\* useUsageReset).
THEOREM NoCardIsSpentTwice == PartsSpec => []SpentOnce
<1>1. ResetP!IInv => Reset!SpentOnce
  <2>1. ResetP!IInv => ResetP!SpentOnce BY ResetP!SpentFollows
  <2> QED
    BY <2>1, Zenon DEF Reset!SpentOnce, ResetP!SpentOnce, Reset!InFlight, ResetP!InFlight,
       Reset!Posting, ResetP!Posting
<1> QED BY <1>1, ResetInvariant, PTL DEF SpentOnce

\* Whatever an operation is settled as is what became of its card (usage_reset.go:153).
THEOREM SettledStaysTrue == PartsSpec => []SettledIsTrue
<1>1. ResetP!IInv => Reset!SettledIsTrue
  <2>1. ResetP!IInv => ResetP!SettledIsTrue BY ResetP!SettledFollows
  <2> QED
    BY <2>1, Zenon DEF Reset!SettledIsTrue, ResetP!SettledIsTrue, Reset!InFlight,
       ResetP!InFlight, Reset!Posting, ResetP!Posting, Reset!Settling, ResetP!Settling
<1> QED BY <1>1, ResetInvariant, PTL DEF SettledIsTrue

\* While the outcome of an operation is open no other one of its subscription may spend
\* (store/usage_reset.go: BeginUsageReset).
THEOREM OneOperationMaySpend == PartsSpec => []OneAtATime
<1>1. ResetP!IInv => Reset!OneAtATime
  <2>1. ResetP!IInv => ResetP!OneAtATime BY ResetSuits, ResetP!OneFollows
  <2> QED
    BY <2>1, Zenon DEF Reset!OneAtATime, ResetP!OneAtATime, Reset!MaySpend, ResetP!MaySpend,
       Reset!Unresolved, ResetP!Unresolved, Reset!InFlight, ResetP!InFlight, Reset!Posting,
       ResetP!Posting
<1> QED BY <1>1, ResetInvariant, PTL DEF OneAtATime

\* No reading is lost to an older one, and a forced page is new (accountSampler.observe,
\* accountUsageManager.get).
THEOREM ShownSamplesAreCurrent == PartsSpec => []SamplesAreCurrent
<1>1. SampleP!IInv => Sample!SamplesAreCurrent
  <2>1. SampleP!IInv => SampleP!SamplesAreCurrent BY SampleP!CurrentFollows
  <2> QED
    BY <2>1, Zenon DEF Sample!SamplesAreCurrent, SampleP!SamplesAreCurrent,
       Sample!LiveIsNewest, SampleP!LiveIsNewest, Sample!Reader, SampleP!Reader,
       Sample!ForcedIsNew, SampleP!ForcedIsNew
<1> QED BY <1>1, SampleInvariant, PTL DEF SamplesAreCurrent

\* Every tool has its name back, and its alias depends on the set of tools alone
\* (tool_names.go, experimentalToolAliases).
THEOREM AliasesAlwaysHold == PartsSpec => []AliasesHold
<1>1. ToolsP!IInv => Tools!AliasesHold
  <2>1. ToolsP!IInv => ToolsP!AliasesHold BY ToolsSuits, ToolsP!AliasesFollow
  <2> QED
    BY <2>1, Zenon DEF Tools!AliasesHold, ToolsP!AliasesHold, Tools!Restorable,
       ToolsP!Restorable, Tools!OrderIndependent, ToolsP!OrderIndependent, Tools!Declared,
       ToolsP!Declared, Tools!FirstFree, ToolsP!FirstFree
<1> QED BY <1>1, ToolsInvariant, PTL DEF AliasesHold
-----------------------------------------------------------------------------
(* The parts proved in this module.                                         *)

\* A behaviour of another part has no row and records none.
LEMMA CooldownInvariant == PartsSpec => []IInv
<1>1. AnyPart => IInv
  BY InitInvariant DEF AnyPart, Others, NoCooldowns
<1>2. IInv /\ [OnePart]_partsVars => IInv'
  <2> SUFFICES ASSUME IInv, [OnePart]_partsVars PROVE IInv'
    OBVIOUS
  <2>1. Next \/ UNCHANGED vars BY DEF OnePart, partsVars
  <2> QED BY <2>1, StepInvariant
<1> QED BY <1>1, <1>2, PTL DEF PartsSpec, partsVars

\* The invariant of the exits, in the composition.
LEMMA ExitsInvariant == PartsSpec => [](part = "exits" => ExitsInv)
<1>1. AnyPart => (part = "exits" => ExitsInv)
  BY ExitsBegin DEF AnyPart
<1>2. (part = "exits" => ExitsInv) /\ [OnePart]_partsVars => (part = "exits" => ExitsInv)'
  <2> SUFFICES ASSUME part = "exits" => ExitsInv, [OnePart]_partsVars, part' = "exits"
               PROVE  ExitsInv'
    OBVIOUS
  <2>1. part = "exits" /\ (Exits!Next \/ UNCHANGED exitVars) BY DEF OnePart, partsVars
  <2> QED BY <2>1, ExitsStep
<1> QED BY <1>1, <1>2, PTL DEF PartsSpec, partsVars

\* The invariant of the traffic, in the composition.
LEMMA TrafficInvariant == PartsSpec => [](part = "traffic" => TrafficInv)
<1>1. AnyPart => (part = "traffic" => TrafficInv)
  BY TrafficBegins DEF AnyPart
<1>2. (part = "traffic" => TrafficInv) /\ [OnePart]_partsVars => (part = "traffic" => TrafficInv)'
  <2> SUFFICES ASSUME part = "traffic" => TrafficInv, [OnePart]_partsVars, part' = "traffic"
               PROVE  TrafficInv'
    OBVIOUS
  <2>1. part = "traffic" /\ (Traffic!Next \/ UNCHANGED trafficVars) BY DEF OnePart, partsVars
  <2> QED BY <2>1, TrafficStep
<1> QED BY <1>1, <1>2, PTL DEF PartsSpec, partsVars

\* The invariant of the windows, in the composition.
LEMMA WindowsInvariant == PartsSpec => [](part = "windows" => WindowsInv)
<1>1. AnyPart => (part = "windows" => WindowsInv)
  BY WindowsBegin DEF AnyPart
<1>2. (part = "windows" => WindowsInv) /\ [OnePart]_partsVars => (part = "windows" => WindowsInv)'
  <2> SUFFICES ASSUME part = "windows" => WindowsInv, [OnePart]_partsVars, part' = "windows"
               PROVE  WindowsInv'
    OBVIOUS
  <2>1. part = "windows" /\ (Windows!Next \/ UNCHANGED windowVars) BY DEF OnePart, partsVars
  <2> QED BY <2>1, WindowsStep
<1> QED BY <1>1, <1>2, PTL DEF PartsSpec, partsVars

\* The types of the tool names, in the composition.
LEMMA ToolTypes == PartsSpec => [](part = "tools" => ToolsP!TypeOK)
<1>1. AnyPart => (part = "tools" => ToolsP!TypeOK)
  BY ToolsSuits, ToolsBegins, ToolsP!InitTypes
<1>2. (part = "tools" => ToolsP!TypeOK) /\ [OnePart]_partsVars => (part = "tools" => ToolsP!TypeOK)'
  <2> SUFFICES ASSUME part = "tools" => ToolsP!TypeOK, [OnePart]_partsVars, part' = "tools"
               PROVE  ToolsP!TypeOK'
    OBVIOUS
  <2>1. part = "tools" BY DEF OnePart, partsVars
  <2> QED BY <2>1, ToolsSuits, ToolsSteps, ToolsP!NextTypes
<1> QED BY <1>1, <1>2, PTL DEF PartsSpec, partsVars

PartNames == {"cooldowns", "reset", "windows", "samples", "exits", "traffic", "tools"}

\* A behaviour is one of a part.
LEMMA PartNamed == PartsSpec => [](part \in PartNames)
<1> DEFINE Named == part \in PartNames
<1>1. AnyPart => Named BY DEF AnyPart, PartNames
<1>2. Named /\ [OnePart]_partsVars => Named' BY DEF OnePart, partsVars
<1> QED BY <1>1, <1>2, PTL DEF PartsSpec, partsVars

\* What holds of the rows holds of them in the composition.
THEOREM PartsKeepRows == PartsSpec => []RowIsLongestDecision /\ []Recoverable
BY CooldownInvariant, PTL DEF IInv

\* However a request is chosen, rerouted, retried or logged in while the console moves its
\* account from exit to exit, it leaves through an exit its account has had since it was
\* chosen (upstream_pool.go, account_proxy.go).
THEOREM RequestsLeaveThroughTheirExit == PartsSpec => []LeavesThroughItsExit
<1>1. (part = "exits" => ExitsInv) => LeavesThroughItsExit
  BY DEF ExitsInv, LeavesThroughItsExit
<1> QED BY <1>1, ExitsInvariant, PTL

\* For any number of calls, groups and flushes at a time the groups stay within their
\* limit and no attempt is lost or counted twice (traffic_observation.go: add, flush).
THEOREM AllTrafficIsCounted == PartsSpec => []TrafficCounted
<1>1. (part = "traffic" => TrafficInv) => TrafficCounted
  BY CountIs DEF TrafficCounted
<1> QED BY <1>1, TrafficInvariant, PTL

\* In whatever order observations are written, however often a batch is written again and
\* whenever the database is migrated, the windows on record are apart and say what the
\* events summed up in them say themselves: their own, and messages written again from at
\* most two seconds away (insertFiveHourEvent, canonicalFiveHourReset, Manager.Flush,
\* mergeAdjacentFiveHourWindows).
THEOREM WindowsSayWhatEventsSay == PartsSpec => []WindowsAreTheEvents
<1>1. (part = "windows" => WindowsInv) => WindowsAreTheEvents
  BY WindowsFollow DEF WindowsAreTheEvents
<1> QED BY <1>1, WindowsInvariant, PTL

\* Every variable of the part a behaviour is of has its type.
THEOREM PartsKeepTheirTypes == PartsSpec => []PartsTypeOK
<1> DEFINE Named == part \in PartNames
<1>1. IInv => (part = "cooldowns" => TypeOK) BY DEF IInv
<1>2. (part = "reset" => ResetP!IInv) => (part = "reset" => Reset!TypeOK)
  <2>1. ResetP!IInv => ResetP!TypeOK BY DEF ResetP!IInv
  <2> QED
    BY <2>1, Zenon DEF Reset!TypeOK, ResetP!TypeOK, Reset!Record, ResetP!Record,
       Reset!Answers, ResetP!Answers, Reset!Settling, ResetP!Settling, Reset!Request,
       ResetP!Request, Reset!Inside, ResetP!Inside
<1>3. (part = "samples" => SampleP!IInv) => (part = "samples" => Sample!TypeOK)
  <2>1. SampleP!IInv => SampleP!TypeOK BY DEF SampleP!IInv
  <2> QED
    BY <2>1, Zenon DEF Sample!TypeOK, SampleP!TypeOK, Sample!Instant, SampleP!Instant,
       Sample!Sampler, SampleP!Sampler, Sample!Reader, SampleP!Reader
<1>4. (part = "tools" => ToolsP!TypeOK) => (part = "tools" => Tools!TypeOK)
  BY Zenon DEF Tools!TypeOK, ToolsP!TypeOK, Tools!Spellings, ToolsP!Spellings, Tools!Names,
     ToolsP!Names
<1>5. (part = "windows" => WindowsInv) => (part = "windows" => Windows!TypeOK) BY DEF WindowsInv
<1>6. (part = "exits" => ExitsInv) => (part = "exits" => Exits!TypeOK) BY DEF ExitsInv
<1>7. (part = "traffic" => TrafficInv) => (part = "traffic" => Traffic!TypeOK) BY DEF TrafficInv
<1>8. /\ Named
      /\ part = "cooldowns" => TypeOK
      /\ part = "reset" => Reset!TypeOK
      /\ part = "windows" => Windows!TypeOK
      /\ part = "samples" => Sample!TypeOK
      /\ part = "exits" => Exits!TypeOK
      /\ part = "traffic" => Traffic!TypeOK
      /\ part = "tools" => Tools!TypeOK
      => PartsTypeOK
  BY DEF PartsTypeOK, PartNames
<1> QED
  BY <1>1, <1>2, <1>3, <1>4, <1>5, <1>6, <1>7, <1>8, PartNamed, CooldownInvariant, ResetInvariant,
     SampleInvariant, ToolTypes, WindowsInvariant, ExitsInvariant, TrafficInvariant, PTL
=============================================================================
