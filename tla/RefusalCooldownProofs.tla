------------------------- MODULE RefusalCooldownProofs -------------------------
(***************************************************************************)
(* Proofs about RefusalCooldown for any calls, conversations and           *)
(* durations, and about Responses for any counts, multipliers and number   *)
(* of events, both as MCRefusalCooldown composes them.                     *)
(***************************************************************************)
EXTENDS MCRefusalCooldown, TLAPS

\* A row belongs to a fingerprint that some refusal recorded.
Owned ==
  /\ \A f \in Fingerprint : rows[f] # None => \E w \in refused : f \in Record(w)
  /\ \A c \in Call : pc[c] = "refused" => conv[c] \in refused

\* While it is remembered, a cooldown has a row that lasts at least as long as a
\* first cooldown that began with it would.
Kept ==
  \A f \in LookedUp : Remembered(f) =>
    /\ rows[f] # None
    /\ rows[f].until >= began[f] + Short

IInv == TypeOK /\ BlocksHold /\ Owned /\ Kept

-----------------------------------------------------------------------------
\* What a call records is among what it looks up, or no call looks it up.
LEMMA RecordedIsLookedUp ==
  ASSUME NEW v \in Conversation
  PROVE  /\ Record(v) \cap LookedUp \subseteq Lookup(v)
         /\ Lookup(v) \subseteq LookedUp /\ LookedUp \subseteq Fingerprint
         /\ Record(v) \subseteq Fingerprint
<1>1. v.blocks \in Seq(Block) /\ v.open \in BOOLEAN BY RefusalConstants
<1>2. v.blocks = SubSeq(v.blocks, 1, Len(v.blocks)) /\ Len(v.blocks) \in Nat BY <1>1
<1>3. v.blocks \in Prefixes(v.blocks) BY <1>2 DEF Prefixes
<1>4. ASSUME NEW f \in Record(v), f \in LookedUp PROVE f \in Lookup(v)
  <2>1. CASE f \in Session(v) BY <2>1 DEF Lookup
  <2>2. CASE v.blocks # <<>> /\ f = Whole(v)
    <3>1. CASE v.open
      <4>1. f = <<"open", v.blocks>> BY <2>2, <3>1 DEF Whole
      <4>2. PICK w \in Conversation : f \in Lookup(w) BY <1>4 DEF LookedUp
      <4>3. f[1] = "session" \/ f[1] = "chain" BY <4>2 DEF Lookup, Session, Chain
      <4> QED BY <4>1, <4>3
    <3>2. CASE ~v.open BY <1>3, <2>2, <3>2 DEF Whole, Lookup
    <3> QED BY <3>1, <3>2
  <2> QED BY <1>4, <2>1, <2>2 DEF Record
<1>5. /\ Lookup(v) \subseteq LookedUp /\ LookedUp \subseteq Fingerprint
      /\ Record(v) \subseteq Fingerprint
  BY DEF LookedUp, Fingerprint
<1> QED BY <1>4, <1>5

\* What a record writes is a row, one that is standing and not over yet or a new one.
LEMMA StateIsRow ==
  ASSUME TypeOK, NEW v \in Conversation, NEW t \in Nat, t <= now,
         NEW state \in After(Lookup(v), t)
  PROVE  /\ state \in Row
         /\ state.until + (Retain - Long) <= state.retain
         /\ state.until <= now + Long
         /\ state.until > t
         /\ Cooling(v, t) => \E g \in Fingerprint : rows[g] # None /\ state = rows[g]
         /\ \A h \in Live(Lookup(v), t) : rows[h].until <= state.until
         /\ ~Cooling(v, t) => state.until >= t + Short
         /\ ~Cooling(v, t) /\ state.strikes = 1 => Live(Lookup(v), t) = {}
<1> USE RefusalConstants
<1>0. /\ now \in Nat /\ Short \in Nat /\ Long \in Nat /\ Retain \in Nat /\ Short > 0
      /\ Short <= Long /\ Long <= Retain
  BY DEF TypeOK
<1>1. Live(Lookup(v), t) \subseteq Fingerprint BY RecordedIsLookedUp DEF Live
<1>2. \A g \in Live(Lookup(v), t) :
        /\ rows[g] \in Row /\ rows[g] # None
        /\ rows[g].until + (Retain - Long) <= rows[g].retain
        /\ rows[g].until <= now + Long
  BY <1>1 DEF TypeOK, Live
<1>3. CASE \E g \in Live(Lookup(v), t) : rows[g] \in Standing(Lookup(v), t) /\ rows[g].until > t
                                          /\ state = rows[g]
  <2>1. PICK g \in Live(Lookup(v), t) : rows[g] \in Standing(Lookup(v), t) /\ rows[g].until > t
                                         /\ state = rows[g]
    BY <1>3
  <2>2. \A h \in Live(Lookup(v), t) : rows[h].until <= rows[g].until
    <3>1. PICK e \in Live(Lookup(v), t) :
            /\ rows[g] = rows[e]
            /\ \A h \in Live(Lookup(v), t) :
                 \/ rows[h].until < rows[e].until
                 \/ rows[h].until = rows[e].until /\ rows[h].strikes <= rows[e].strikes
      BY <2>1 DEF Standing
    <3>2. \A h \in Live(Lookup(v), t) : rows[h].until \in Nat BY <1>2 DEF Row
    <3> QED BY <3>1, <3>2
  <2>3. Cooling(v, t) BY <2>1 DEF Cooling
  <2> QED BY <1>1, <1>2, <2>1, <2>2, <2>3
<1>4. CASE \E g \in Live(Lookup(v), t) : /\ ~(rows[g].until > t)
                                         /\ \A h \in Live(Lookup(v), t) : rows[h].until <= rows[g].until
                                         /\ state = Cooldown(rows[g].strikes + 1, t)
  <2>1. PICK g \in Live(Lookup(v), t) : /\ ~(rows[g].until > t)
                                        /\ \A h \in Live(Lookup(v), t) : rows[h].until <= rows[g].until
                                        /\ state = Cooldown(rows[g].strikes + 1, t)
    BY <1>4
  <2>2. rows[g].strikes \in 1..2 /\ rows[g].until \in Nat BY <1>2 DEF Row
  <2>3. state = [strikes |-> 2, until |-> t + Long, retain |-> t + Retain]
    BY <2>1, <2>2 DEF Cooldown
  <2>4. \A h \in Live(Lookup(v), t) : rows[h].until \in Nat BY <1>2 DEF Row
  <2>5. ~Cooling(v, t) BY <2>1, <2>2, <2>4 DEF Cooling
  <2>6. \A h \in Live(Lookup(v), t) : rows[h].until <= state.until
    BY <1>0, <2>1, <2>2, <2>3, <2>4
  <2>7. state \in Row BY <1>0, <2>3 DEF Row
  <2>8. /\ state.until + (Retain - Long) <= state.retain /\ state.until <= now + Long
        /\ state.until > t /\ state.until >= t + Short /\ state.strikes = 2
    BY <1>0, <2>3
  <2> QED BY <2>5, <2>6, <2>7, <2>8
<1>5. CASE Live(Lookup(v), t) = {} /\ state = Cooldown(1, t)
  <2>1. state = [strikes |-> 1, until |-> t + Short, retain |-> t + Retain]
    BY <1>5 DEF Cooldown
  <2>2. ~Cooling(v, t) BY <1>5 DEF Cooling
  <2> QED BY <1>0, <1>5, <2>1, <2>2 DEF Row
<1>6. \/ \E r \in Standing(Lookup(v), t) : state = IF r.until > t THEN r ELSE Cooldown(r.strikes + 1, t)
      \/ Live(Lookup(v), t) = {} /\ state = Cooldown(1, t)
  BY DEF After
<1>7. ASSUME NEW r \in Standing(Lookup(v), t)
      PROVE  \E g \in Live(Lookup(v), t) :
               r = rows[g] /\ \A h \in Live(Lookup(v), t) : rows[h].until <= rows[g].until
  <2>1. PICK g \in Live(Lookup(v), t) :
          /\ r = rows[g]
          /\ \A h \in Live(Lookup(v), t) :
               \/ rows[h].until < rows[g].until
               \/ rows[h].until = rows[g].until /\ rows[h].strikes <= rows[g].strikes
    BY DEF Standing
  <2>2. \A h \in Live(Lookup(v), t) : rows[h].until \in Nat BY <1>2 DEF Row
  <2> QED BY <2>1, <2>2
<1> QED BY <1>3, <1>4, <1>5, <1>6, <1>7

LEMMA InitInvariant == Init => IInv
<1> SUFFICES ASSUME Init PROVE IInv OBVIOUS
<1>1. TypeOK BY NoneIsNoValue DEF Init, TypeOK
<1>2. BlocksHold
  <2>1. \A f \in LookedUp : f \in Fingerprint BY DEF Fingerprint
  <2> QED BY <2>1 DEF Init, BlocksHold
<1>3. Owned BY DEF Init, Owned
<1>4. Kept
  <2>1. \A f \in LookedUp : f \in Fingerprint BY DEF Fingerprint
  <2> QED BY <2>1 DEF Init, Kept, Remembered
<1> QED BY <1>1, <1>2, <1>3, <1>4 DEF IInv

\* Ending a call, or all of them, keeps their types.
LEMMA RecordKeepsTypes ==
  ASSUME IInv, NEW c \in Call, RecordRefusalCooldown(c)
  PROVE  TypeOK'
<1> USE RefusalConstants, NoneIsNoValue
<1>1. conv[c] \in Conversation /\ observed[c] \in Nat /\ observed[c] <= now
  BY DEF RecordRefusalCooldown, IInv, TypeOK
<1> DEFINE v == conv[c]
           t == observed[c]
           keys == Written(v, t)
<1>2. PICK state \in After(Lookup(v), t) :
        /\ rows' = [f \in Fingerprint |-> IF f \in keys THEN state ELSE Pruned(t)[f]]
        /\ blocked' = [f \in Fingerprint |->
                         IF f \in keys /\ state.until > blocked[f] THEN state.until ELSE blocked[f]]
        /\ began' = [f \in Fingerprint |-> IF f \in keys /\ ~Cooling(v, t) THEN t ELSE began[f]]
  BY DEF RecordRefusalCooldown
<1>3. /\ state \in Row /\ state.until \in Nat
      /\ state.until + (Retain - Long) <= state.retain /\ state.until <= now + Long
  <2>1. state \in Row /\ state.until + (Retain - Long) <= state.retain /\ state.until <= now + Long
    BY <1>1, StateIsRow DEF IInv
  <2> QED BY <2>1 DEF Row
<1>4. /\ now' = now /\ refused' = refused
      /\ pc' = [pc EXCEPT ![c] = "idle"] /\ conv' = [conv EXCEPT ![c] = None]
      /\ observed' = [observed EXCEPT ![c] = 0]
  BY DEF RecordRefusalCooldown, End
<1>5. now' \in Nat /\ refused' \subseteq Conversation BY <1>4 DEF IInv, TypeOK
<1>6. /\ pc' \in [Call -> {"idle", "upstream", "refused"}]
      /\ conv' \in [Call -> Conversation \cup {None}] /\ observed' \in [Call -> Nat]
  BY <1>4 DEF IInv, TypeOK
<1>7. \A d \in Call : observed'[d] <= now' /\ (pc'[d] # "idle" => conv'[d] # None)
  BY <1>4 DEF IInv, TypeOK
<1>8. ASSUME NEW f \in Fingerprint
      PROVE  /\ rows'[f] \in Row \cup {None}
             /\ rows'[f] # None => /\ rows'[f].until + (Retain - Long) <= rows'[f].retain
                                   /\ rows'[f].until <= now' + Long
  <2>1. rows'[f] = state \/ rows'[f] = rows[f] \/ rows'[f] = None BY <1>2 DEF Pruned
  <2>2. rows[f] \in Row \cup {None} /\ (rows[f] # None =>
          rows[f].until + (Retain - Long) <= rows[f].retain /\ rows[f].until <= now + Long)
    BY DEF IInv, TypeOK
  <2> QED BY <2>1, <2>2, <1>3, <1>4
<1>9. rows' \in [Fingerprint -> Row \cup {None}] BY <1>2, <1>8
<1>10. blocked' \in [Fingerprint -> Nat] BY <1>2, <1>3 DEF IInv, TypeOK
<1>11. began' \in [Fingerprint -> Nat \cup {None}] BY <1>1, <1>2 DEF IInv, TypeOK
<1> QED BY <1>5, <1>6, <1>7, <1>8, <1>9, <1>10, <1>11 DEF TypeOK

\* Every other step keeps the types.
LEMMA TypesPreserved == IInv /\ [Next]_vars => TypeOK'
<1> SUFFICES ASSUME IInv, [Next]_vars PROVE TypeOK' OBVIOUS
<1> USE RefusalConstants, NoneIsNoValue DEF IInv
<1>1. ASSUME NEW c \in Call, Forward(c) PROVE TypeOK'
  <2>1. PICK v \in Conversation : conv' = [conv EXCEPT ![c] = v] BY <1>1 DEF Forward
  <2>2. UNCHANGED <<now, rows, observed, history>> /\ pc' = [pc EXCEPT ![c] = "upstream"]
    BY <1>1 DEF Forward
  <2> QED BY <2>1, <2>2 DEF TypeOK, history
<1>2. ASSUME NEW c \in Call, Answer(c) PROVE TypeOK' BY <1>2 DEF Answer, End, TypeOK, history
<1>3. ASSUME NEW c \in Call, Refuse(c) PROVE TypeOK' BY <1>3 DEF Refuse, TypeOK
<1>4. ASSUME NEW c \in Call, RecordRefusalCooldown(c) PROVE TypeOK' BY <1>4, RecordKeepsTypes
<1>5. ASSUME NEW c \in Call, RecordFails(c) PROVE TypeOK'
  BY <1>5 DEF RecordFails, End, TypeOK, history
<1>6. CASE Restart
  <2>1. rows' = [f \in Fingerprint |-> IF rows[f] # None /\ rows[f].retain <= now THEN None ELSE rows[f]]
    BY <1>6 DEF Restart, Pruned
  <2>2. /\ pc' = [d \in Call |-> "idle"] /\ conv' = [d \in Call |-> None]
        /\ observed' = [d \in Call |-> 0] /\ UNCHANGED <<now, history>>
    BY <1>6 DEF Restart
  <2>3. rows' \in [Fingerprint -> Row \cup {None}] BY <2>1 DEF TypeOK
  <2>4. \A f \in Fingerprint : rows'[f] # None =>
          rows'[f].until + (Retain - Long) <= rows'[f].retain /\ rows'[f].until <= now' + Long
    BY <2>1, <2>2 DEF TypeOK
  <2>5. now \in Nat /\ now' = now BY <2>2 DEF TypeOK
  <2> QED BY <2>2, <2>3, <2>4, <2>5 DEF TypeOK, history
<1>7. CASE Tick
  <2>1. now' = now + 1 /\ UNCHANGED <<rows, calls, history>> BY <1>7 DEF Tick
  <2>2. \A f \in Fingerprint : rows[f] # None => rows[f].until \in Nat BY DEF TypeOK, Row
  <2>3. \A f \in Fingerprint : rows'[f] # None =>
          rows'[f].until + (Retain - Long) <= rows'[f].retain /\ rows'[f].until <= now' + Long
    BY <2>1, <2>2 DEF TypeOK
  <2>4. \A d \in Call : observed'[d] <= now' /\ (pc'[d] # "idle" => conv'[d] # None)
    BY <2>1 DEF TypeOK, calls
  <2> QED BY <2>1, <2>3, <2>4 DEF TypeOK, calls, history
<1>8. CASE UNCHANGED vars BY <1>8 DEF vars, calls, history, TypeOK
<1> QED BY <1>1, <1>2, <1>3, <1>4, <1>5, <1>6, <1>7, <1>8 DEF Next

\* A record keeps the blocks, the owners of the rows and what is remembered.
LEMMA RecordKeepsRest ==
  ASSUME IInv, NEW c \in Call, RecordRefusalCooldown(c)
  PROVE  BlocksHold' /\ Owned' /\ Kept'
<1> USE RefusalConstants, NoneIsNoValue
<1>1. conv[c] \in Conversation /\ observed[c] \in Nat /\ observed[c] <= now /\ now \in Nat
  BY DEF RecordRefusalCooldown, IInv, TypeOK
<1> DEFINE v == conv[c]
           t == observed[c]
           keys == Written(v, t)
<1>2. PICK state \in After(Lookup(v), t) :
        /\ rows' = [f \in Fingerprint |-> IF f \in keys THEN state ELSE Pruned(t)[f]]
        /\ blocked' = [f \in Fingerprint |->
                         IF f \in keys /\ state.until > blocked[f] THEN state.until ELSE blocked[f]]
        /\ began' = [f \in Fingerprint |-> IF f \in keys /\ ~Cooling(v, t) THEN t ELSE began[f]]
  BY DEF RecordRefusalCooldown
<1>3. /\ state \in Row /\ state.until > t
      /\ \A h \in Live(Lookup(v), t) : rows[h].until <= state.until
      /\ ~Cooling(v, t) => state.until >= t + Short
  BY <1>1, StateIsRow DEF IInv
<1>4. state.until \in Nat /\ state # None BY <1>3 DEF Row
<1>5. /\ now' = now /\ refused' = refused
      /\ pc' = [pc EXCEPT ![c] = "idle"] /\ conv' = [conv EXCEPT ![c] = None]
  BY DEF RecordRefusalCooldown, End
<1>6. keys \cap LookedUp \subseteq Lookup(v) BY <1>1, RecordedIsLookedUp DEF Written
\* What the pruning removes is over and forgotten.
<1>7. ASSUME NEW f \in LookedUp, rows[f] # None, rows[f].retain <= t
      PROVE  rows[f].until <= now /\ ~Remembered(f)
  <2>1. rows[f] \in Row /\ rows[f].until + (Retain - Long) <= rows[f].retain
    BY <1>7 DEF IInv, TypeOK, Fingerprint
  <2>2. rows[f].until \in Nat /\ rows[f].retain \in Nat BY <2>1 DEF Row
  <2>3. rows[f].until <= now BY <1>1, <1>7, <2>1, <2>2
  <2>4. ASSUME Remembered(f) PROVE FALSE
    <3>1. /\ began[f] \in Nat /\ now < began[f] + Retain - (Long - Short)
          /\ rows[f].until >= began[f] + Short
      BY <2>4 DEF Remembered, Kept, IInv, TypeOK, Fingerprint
    <3> QED BY <1>1, <1>7, <2>1, <2>2, <3>1
  <2> QED BY <2>3, <2>4
\* A row that is written to lasts at least as long as before.
<1>8. ASSUME NEW f \in LookedUp, f \in keys, rows[f] # None, ~(rows[f].retain <= t)
      PROVE  rows[f].until <= state.until
  <2>1. rows[f] \in Row BY <1>8 DEF IInv, TypeOK, Fingerprint
  <2>2. rows[f].retain > t BY <1>1, <1>8, <2>1 DEF Row
  <2>3. f \in Live(Lookup(v), t) BY <1>6, <1>8, <2>2 DEF Live
  <2> QED BY <1>3, <2>3
<1>9. ASSUME NEW f \in LookedUp PROVE blocked'[f] > now' => rows'[f] # None /\ rows'[f].until >= blocked'[f]
  <2>0. f \in Fingerprint BY DEF Fingerprint
  <2>1. blocked[f] \in Nat BY <2>0 DEF IInv, TypeOK
  <2>2. blocked[f] > now => rows[f] # None /\ rows[f].until >= blocked[f] BY DEF IInv, BlocksHold
  <2>3. rows[f] # None => rows[f].until \in Nat BY <2>0 DEF IInv, TypeOK, Row
  <2>4. CASE f \in keys
    <3>1. rows'[f] = state BY <1>2, <2>0, <2>4
    <3>2. blocked'[f] = IF state.until > blocked[f] THEN state.until ELSE blocked[f]
      BY <1>2, <2>0, <2>4
    <3>3. CASE state.until > blocked[f] BY <1>4, <3>1, <3>2, <3>3
    <3>4. CASE ~(state.until > blocked[f])
      <4>1. blocked'[f] = blocked[f] BY <3>2, <3>4
      <4>2. ASSUME blocked[f] > now PROVE state.until >= blocked[f]
        <5>1. rows[f] # None /\ rows[f].until >= blocked[f] /\ rows[f].until \in Nat BY <2>2, <2>3, <4>2
        <5>2. ~(rows[f].retain <= t) BY <1>1, <1>7, <2>1, <4>2, <5>1
        <5>3. rows[f].until <= state.until BY <1>8, <2>4, <5>1, <5>2
        <5> QED BY <1>4, <2>1, <5>1, <5>3
      <4> QED BY <1>4, <1>5, <3>1, <4>1, <4>2
    <3> QED BY <3>3, <3>4
  <2>5. CASE f \notin keys
    <3>1. blocked'[f] = blocked[f] /\ rows'[f] = Pruned(t)[f] BY <1>2, <2>0, <2>5
    <3>2. ASSUME blocked[f] > now PROVE rows'[f] # None /\ rows'[f].until >= blocked[f]
      <4>1. rows[f] # None /\ rows[f].until >= blocked[f] /\ rows[f].until \in Nat BY <2>2, <2>3, <3>2
      <4>2. ~(rows[f].retain <= t) BY <1>1, <1>7, <2>1, <3>2, <4>1
      <4>3. rows'[f] = rows[f] BY <2>0, <3>1, <4>1, <4>2 DEF Pruned
      <4> QED BY <4>1, <4>3
    <3> QED BY <1>5, <3>1, <3>2
  <2> QED BY <2>4, <2>5
<1>10. BlocksHold' BY <1>9 DEF BlocksHold
<1>11. Owned'
  <2>1. v \in refused BY DEF RecordRefusalCooldown, IInv, Owned
  <2>2. ASSUME NEW f \in Fingerprint, rows'[f] # None PROVE \E w \in refused : f \in Record(w)
    <3>1. CASE f \in Record(v) BY <2>1, <3>1
    <3>2. CASE f \notin Record(v)
      <4>1. rows[f] # None BY <1>2, <2>2, <3>2 DEF Written, Pruned
      <4> QED BY <4>1 DEF IInv, Owned
    <3> QED BY <3>1, <3>2
  <2>3. \A d \in Call : pc'[d] = "refused" => conv'[d] \in refused
    BY <1>5 DEF IInv, TypeOK, Owned
  <2> QED BY <1>5, <2>2, <2>3 DEF Owned
<1>12. ASSUME NEW f \in LookedUp, Remembered(f)'
       PROVE  rows'[f] # None /\ rows'[f].until >= began'[f] + Short
  <2>0. f \in Fingerprint BY DEF Fingerprint
  <2>1. CASE f \in keys /\ ~Cooling(v, t)
    <3>1. rows'[f] = state /\ began'[f] = t BY <1>2, <2>0, <2>1
    <3> QED BY <1>3, <1>4, <2>1, <3>1
  <2>2. CASE ~(f \in keys /\ ~Cooling(v, t))
    <3>1. began'[f] = began[f] BY <1>2, <2>0, <2>2
    <3>2. Remembered(f) BY <1>5, <1>12, <3>1 DEF Remembered
    <3>3. /\ rows[f] # None /\ rows[f].until >= began[f] + Short /\ began[f] \in Nat
          /\ rows[f].until \in Nat
      BY <2>0, <3>2 DEF Remembered, Kept, IInv, TypeOK, Row
    <3>4. ~(rows[f].retain <= t) BY <1>7, <3>2, <3>3
    <3>5. CASE f \in keys
      <4>1. rows'[f] = state BY <1>2, <2>0, <3>5
      <4>2. rows[f].until <= state.until BY <1>8, <3>3, <3>4, <3>5
      <4> QED BY <1>4, <3>1, <3>3, <4>1, <4>2
    <3>6. CASE f \notin keys
      <4>1. rows'[f] = rows[f] BY <1>2, <2>0, <3>3, <3>4, <3>6 DEF Pruned
      <4> QED BY <3>1, <3>3, <4>1
    <3> QED BY <3>5, <3>6
  <2> QED BY <2>1, <2>2
<1>13. Kept' BY <1>12 DEF Kept
<1> QED BY <1>10, <1>11, <1>13

\* The steps that write no row keep the blocks, the owners and what is remembered.
LEMMA RestPreserved == IInv /\ [Next]_vars => BlocksHold' /\ Owned' /\ Kept'
<1> SUFFICES ASSUME IInv, [Next]_vars PROVE BlocksHold' /\ Owned' /\ Kept' OBVIOUS
<1> USE RefusalConstants, NoneIsNoValue
<1>1. ASSUME UNCHANGED <<now, rows, blocked, began>> PROVE BlocksHold' /\ Kept'
  BY <1>1 DEF IInv, BlocksHold, Kept, Remembered
<1>2. ASSUME NEW c \in Call, Forward(c) PROVE BlocksHold' /\ Owned' /\ Kept'
  <2>1. PICK v \in Conversation : conv' = [conv EXCEPT ![c] = v] BY <1>2 DEF Forward
  <2>2. UNCHANGED <<now, rows, observed, history>> /\ pc' = [pc EXCEPT ![c] = "upstream"]
    BY <1>2 DEF Forward
  <2>3. Owned' BY <2>1, <2>2 DEF Owned, IInv, TypeOK, history
  <2> QED BY <1>1, <2>2, <2>3 DEF history
<1>3. ASSUME NEW c \in Call, Answer(c) \/ RecordFails(c) PROVE BlocksHold' /\ Owned' /\ Kept'
  <2>1. UNCHANGED <<now, rows, history>> /\ End(c) BY <1>3 DEF Answer, RecordFails
  <2>2. Owned' BY <2>1 DEF End, Owned, IInv, TypeOK, history
  <2> QED BY <1>1, <2>1, <2>2 DEF history
<1>4. ASSUME NEW c \in Call, Refuse(c) PROVE BlocksHold' /\ Owned' /\ Kept'
  <2>1. /\ UNCHANGED <<now, rows, conv, blocked, began>> /\ refused' = refused \cup {conv[c]}
        /\ pc' = [pc EXCEPT ![c] = "refused"]
    BY <1>4 DEF Refuse
  <2>2. Owned' BY <2>1 DEF Owned, IInv, TypeOK
  <2> QED BY <1>1, <2>1, <2>2
<1>5. ASSUME NEW c \in Call, RecordRefusalCooldown(c) PROVE BlocksHold' /\ Owned' /\ Kept'
  BY <1>5, RecordKeepsRest
<1>6. CASE Restart
  <2>1. rows' = [f \in Fingerprint |-> IF rows[f] # None /\ rows[f].retain <= now THEN None ELSE rows[f]]
    BY <1>6 DEF Restart, Pruned
  <2>2. /\ pc' = [d \in Call |-> "idle"] /\ UNCHANGED <<now, refused, blocked, began>>
    BY <1>6 DEF Restart, history
  <2>3. ASSUME NEW f \in LookedUp, rows[f] # None, rows[f].retain <= now
        PROVE  rows[f].until <= now /\ ~Remembered(f)
    <3>1. rows[f] \in Row /\ rows[f].until + (Retain - Long) <= rows[f].retain /\ now \in Nat
      BY <2>3 DEF IInv, TypeOK, Fingerprint
    <3>2. rows[f].until \in Nat /\ rows[f].retain \in Nat BY <3>1 DEF Row
    <3>3. ASSUME Remembered(f) PROVE FALSE
      <4>1. /\ began[f] \in Nat /\ now < began[f] + Retain - (Long - Short)
            /\ rows[f].until >= began[f] + Short
        BY <3>3 DEF Remembered, Kept, IInv, TypeOK, Fingerprint
      <4>2. ASSUME NEW u \in Nat, NEW r \in Nat, NEW b \in Nat, NEW n \in Nat,
                   u + (Retain - Long) <= r, r <= n, n < b + Retain - (Long - Short),
                   u >= b + Short
            PROVE  FALSE
        BY <4>2
      <4> QED BY <2>3, <3>1, <3>2, <4>1, <4>2
    <3> QED BY <2>3, <3>1, <3>2, <3>3
  <2>4. ASSUME NEW f \in LookedUp, blocked'[f] > now'
        PROVE  rows'[f] # None /\ rows'[f].until >= blocked'[f]
    <3>0. f \in Fingerprint BY DEF Fingerprint
    <3>1. rows[f] # None /\ rows[f].until >= blocked[f] /\ blocked[f] > now
      BY <2>2, <2>4 DEF IInv, BlocksHold
    <3>2. rows[f].until \in Nat /\ blocked[f] \in Nat /\ now \in Nat
      BY <3>0, <3>1 DEF IInv, TypeOK, Row
    <3>3. ~(rows[f].retain <= now) BY <2>3, <3>1, <3>2
    <3> QED BY <2>1, <2>2, <3>0, <3>1, <3>3
  <2>5. ASSUME NEW f \in LookedUp, Remembered(f)'
        PROVE  rows'[f] # None /\ rows'[f].until >= began'[f] + Short
    <3>0. f \in Fingerprint BY DEF Fingerprint
    <3>1. Remembered(f) BY <2>2, <2>5 DEF Remembered
    <3>2. rows[f] # None /\ rows[f].until >= began[f] + Short BY <3>1 DEF IInv, Kept
    <3>3. ~(rows[f].retain <= now) BY <2>3, <3>1, <3>2
    <3> QED BY <2>1, <2>2, <3>0, <3>2, <3>3
  <2>6. Owned' BY <2>1, <2>2 DEF Owned, IInv
  <2>7. BlocksHold' BY <2>4 DEF BlocksHold
  <2>8. Kept' BY <2>5 DEF Kept
  <2> QED BY <2>6, <2>7, <2>8
<1>7. CASE Tick
  <2>1. now' = now + 1 /\ now \in Nat /\ UNCHANGED <<rows, calls, history>> BY <1>7 DEF Tick, IInv, TypeOK
  <2>2. Owned' BY <2>1 DEF Owned, IInv, calls, history
  <2>3. \A f \in LookedUp : blocked[f] \in Nat BY DEF IInv, TypeOK, Fingerprint
  <2>4. BlocksHold' BY <2>1, <2>3 DEF BlocksHold, IInv, history
  <2>5. ASSUME NEW f \in LookedUp, Remembered(f)' PROVE Remembered(f)
    <3>1. began[f] \in Nat BY <2>1, <2>5 DEF Remembered, IInv, TypeOK, Fingerprint, history
    <3> QED BY <2>1, <2>5, <3>1 DEF Remembered, history
  <2>6. Kept' BY <2>1, <2>5 DEF Kept, IInv, history
  <2> QED BY <2>2, <2>4, <2>6
<1>8. CASE UNCHANGED vars
  BY <1>1, <1>8 DEF vars, calls, history, Owned, IInv
<1> QED BY <1>2, <1>3, <1>4, <1>5, <1>6, <1>7, <1>8 DEF Next

\* The conjunction of the types, the blocks, the owners and what is remembered is
\* inductive.
THEOREM RefusalInvariant == Spec => []IInv
<1>1. Init => IInv BY InitInvariant
<1>2. IInv /\ [Next]_vars => IInv' BY TypesPreserved, RestPreserved DEF IInv
<1> QED BY <1>1, <1>2, PTL DEF Spec
-----------------------------------------------------------------------------
\* Rows, calls and clock readings keep their types, and no block lasts longer than
\* the long cooldown from now.
THEOREM RefusalTypes == Spec => []TypeOK
<1>1. IInv => TypeOK BY DEF IInv
<1> QED BY <1>1, RefusalInvariant, PTL

\* No record and no restart shortens a block that was recorded.
THEOREM BlocksAlwaysHold == Spec => []BlocksHold
<1>1. IInv => BlocksHold BY DEF IInv
<1> QED BY <1>1, RefusalInvariant, PTL

\* What is turned away continues a refused conversation or belongs to its session.
THEOREM OnlyRefusedConversationsBlock == Spec => []OnlyRefusedBlock
<1>1. IInv => OnlyRefusedBlock
  <2> SUFFICES ASSUME IInv, NEW v \in Conversation, Cooling(v, now)
               PROVE  \E w \in refused : \/ w.session = v.session /\ w.session # None
                                         \/ /\ w.blocks # <<>> /\ w.blocks \in Prefixes(v.blocks)
                                            /\ ~w.open
    BY DEF OnlyRefusedBlock
  <2>1. PICK f \in Lookup(v) : rows[f] # None BY DEF Cooling, Live
  <2>2. f \in Fingerprint BY <2>1, RecordedIsLookedUp
  <2>3. PICK w \in refused : f \in Record(w) BY <2>1, <2>2 DEF IInv, Owned
  <2>4. CASE f \in Session(v) BY <2>3, <2>4 DEF Session, Record, Whole, Chain
  <2>5. CASE f \in {Chain(p) : p \in Prefixes(v.blocks) \ {<<>>}}
    <3>1. PICK p \in Prefixes(v.blocks) \ {<<>>} : f = <<"chain", p>> BY <2>5 DEF Chain
    <3>2. w.blocks # <<>> /\ f = Whole(w) BY <2>3, <3>1 DEF Record, Session
    <3>3. ~w.open /\ f = <<"chain", w.blocks>> BY <3>1, <3>2 DEF Whole, Chain
    <3> QED BY <2>3, <3>1, <3>2, <3>3
  <2> QED BY <2>1, <2>4, <2>5 DEF Lookup
<1> QED BY <1>1, RefusalInvariant, PTL

\* A first cooldown begins only when nothing of the call is remembered.
THEOREM EscalationIsRemembered == Spec => EscalationRemembered
<1>1. IInv /\ [Next]_vars =>
        [\A c \in Call : RecordRefusalCooldown(c) /\ ~Cooling(conv[c], observed[c]) =>
           \A f \in Record(conv[c]) :
             rows'[f].strikes = 1 => \A g \in Lookup(conv[c]) : ~Remembered(g)]_vars
  <2> SUFFICES ASSUME IInv, NEW c \in Call, RecordRefusalCooldown(c),
                      ~Cooling(conv[c], observed[c]),
                      NEW f \in Record(conv[c]), rows'[f].strikes = 1,
                      NEW g \in Lookup(conv[c]), Remembered(g)
               PROVE  FALSE
    OBVIOUS
  <2> USE RefusalConstants, NoneIsNoValue
  <2>1. conv[c] \in Conversation /\ observed[c] \in Nat /\ observed[c] <= now /\ now \in Nat
    BY DEF RecordRefusalCooldown, IInv, TypeOK
  <2>2. f \in Fingerprint /\ g \in Fingerprint /\ g \in LookedUp BY <2>1, RecordedIsLookedUp
  <2>3. PICK state \in After(Lookup(conv[c]), observed[c]) : rows'[f] = state
    BY <2>2 DEF RecordRefusalCooldown, Written
  <2>4. Live(Lookup(conv[c]), observed[c]) = {} BY <2>1, <2>3, StateIsRow DEF IInv
  <2>5. /\ rows[g] # None /\ rows[g] \in Row /\ rows[g].until >= began[g] + Short
        /\ rows[g].until + (Retain - Long) <= rows[g].retain
        /\ began[g] \in Nat /\ now < began[g] + Retain - (Long - Short)
    BY <2>2 DEF IInv, Kept, Remembered, TypeOK
  <2>6. rows[g].until \in Nat /\ rows[g].retain \in Nat BY <2>5 DEF Row
  <2>7. rows[g].retain > observed[c]
    <3> DEFINE u == rows[g].until
    <3> DEFINE k == rows[g].retain
    <3>1. u \in Nat /\ k \in Nat BY <2>6
    <3>2. u >= began[g] + Short /\ u + (Retain - Long) <= k
          /\ began[g] \in Nat /\ now < began[g] + Retain - (Long - Short) BY <2>5
    <3> HIDE DEF u, k
    <3>3. k > observed[c] BY <2>1, <3>1, <3>2
    <3> QED BY <3>3 DEF k
  <2> QED BY <2>4, <2>5, <2>7 DEF Live
<1> QED BY <1>1, RefusalInvariant, PTL DEF Spec, EscalationRemembered

\* A refusal recorded during a cooldown of its call makes no row last longer.
THEOREM RefusalsAlwaysJoin == Spec => RefusalsJoin
<1>1. IInv /\ [Next]_vars =>
        [\A c \in Call : Joined(c) => \A f \in Fingerprint : rows'[f] # None =>
           \E g \in Fingerprint : /\ rows[g] # None
                                  /\ rows'[f].until <= rows[g].until
                                  /\ rows'[f].strikes <= rows[g].strikes]_vars
  <2> SUFFICES ASSUME IInv, [Next]_vars, NEW c \in Call, Joined(c),
                      NEW f \in Fingerprint, rows'[f] # None
               PROVE  \E g \in Fingerprint : /\ rows[g] # None
                                             /\ rows'[f].until <= rows[g].until
                                             /\ rows'[f].strikes <= rows[g].strikes
    OBVIOUS
  <2> USE RefusalConstants, NoneIsNoValue
  <2>1. \A g \in Fingerprint : rows[g] # None => rows[g].until \in Nat /\ rows[g].strikes \in Nat
    <3>1. \A g \in Fingerprint : rows[g] # None => rows[g] \in Row BY DEF IInv, TypeOK
    <3>2. \A r \in Row : r.until \in Nat /\ r.strikes \in 1..2 BY DEF Row
    <3> QED BY <3>1, <3>2
  <2>2. CASE rows'[f] = rows[f] BY <2>1, <2>2
  <2>3. CASE rows'[f] # rows[f]
    <3>1. PICK d \in Call : RecordRefusalCooldown(d)
      BY <2>3 DEF Next, Forward, Answer, Refuse, RecordFails, Restart, Tick, Pruned, vars
    <3>2. d = c BY <3>1 DEF Joined, RecordRefusalCooldown, End, IInv, TypeOK
    <3>3. conv[c] \in Conversation /\ observed[c] \in Nat /\ observed[c] <= now
      BY DEF Joined, IInv, TypeOK
    <3>4. PICK state \in After(Lookup(conv[c]), observed[c]) : rows'[f] = state
      BY <2>3, <3>1, <3>2 DEF RecordRefusalCooldown, Pruned
    <3>5. \E g \in Fingerprint : rows[g] # None /\ state = rows[g]
      BY <3>3, <3>4, StateIsRow DEF Joined, IInv
    <3> QED BY <2>1, <3>4, <3>5
  <2> QED BY <2>2, <2>3
<1> QED BY <1>1, RefusalInvariant, PTL DEF Spec, RefusalsJoin
-----------------------------------------------------------------------------
(* The counts of a response.                                                  *)

\* Which counts of an answer are still exactly what upstream sent last: a total is not
\* while it is null, nor a lifetime once the detail was null.
Tracks(u, told, lost) ==
  /\ u.total # Null => Response!Counts(u)["total"] = told["total"]
  /\ Response!Counts(u)["input"] = told["input"]
  /\ ~lost => /\ u.detail # Null
              /\ \A f \in {"five", "hour"} : Response!Counts(u)[f] = told[f]

\* What has happened to a response before its next event.
Course ==
  /\ stage = "idle" => /\ events = 0 /\ last = Response!Nothing /\ ~withdrawn
                       /\ original = Response!NoUsage
  /\ stage \in {"idle", "streaming"} => counted = None
  /\ events = 0 => billing = None

\* A bill has the policy that was set at the beginning, and is one.
Billing ==
  billing # None => /\ snapshot.enabled
                    /\ billing.factor = snapshot.of[billing.category]
                    /\ billing.factor > 2

ResponseInv ==
  /\ Response!TypeOK /\ Course /\ Billing
  /\ snapshot.enabled => Tracks(original, last, withdrawn)
  /\ seen = {f \in Response!Field : last[f] # Absent}
  /\ Response!UsageIsLastOfEach
  /\ Response!BilledOnce
-----------------------------------------------------------------------------
\* What the assumptions on the constants say of their members.
LEMMA ResponseNumbers ==
  /\ \A n \in Count : n \in Nat
  /\ \A n \in Multiplier : n \in Nat
  /\ MaxCharge \in Nat /\ MaxEvents \in Nat
  /\ Absent \notin Nat /\ Null # Absent /\ Null \notin Nat
  /\ Absent \notin Response!Detail /\ Null \notin Response!Detail
BY ResponseConstants

\* Of two integers one is the greater, and no less than 0 if one of them is 0.
LEMMA NotNegative == \A x \in Int : Response!Max({0, x}) \in Nat
<1> SUFFICES ASSUME NEW x \in Int PROVE Response!Max({0, x}) \in Nat OBVIOUS
<1> DEFINE S == {0, x}
<1>1. \E m \in S : \A y \in S : m >= y
  <2>1. CASE x <= 0 BY <2>1
  <2>2. CASE x > 0 BY <2>2
  <2> QED BY <2>1, <2>2
<1>2. Response!Max(S) \in S /\ \A y \in S : Response!Max(S) >= y BY <1>1 DEF Response!Max
<1>3. Response!Max(S) \in Int /\ Response!Max(S) >= 0 BY <1>2
<1> QED BY <1>3

\* The largest multiplier is one.
LEMMA LargestMultiplier == Response!Max(Multiplier) \in Multiplier
<1>1. PICK m \in Multiplier : \A n \in Multiplier : m >= n BY ResponseConstants
<1> QED BY <1>1 DEF Response!Max

\* A count times a multiplier, rounded, is a count.
LEMMA ScaledIsNat ==
  ASSUME NEW n \in Count, NEW factor \in Multiplier
  PROVE  Response!scaleRefusalTokens(n, factor) \in Nat
<1>1. n \in Nat /\ factor \in Nat BY ResponseNumbers
<1>2. n * factor \in Nat BY <1>1
<1> DEFINE p == n * factor
<1> HIDE DEF p
<1>3. (p + 1) \div 2 \in Nat BY <1>2 DEF p
<1> QED BY <1>3 DEF Response!scaleRefusalTokens, p

\* The counts of a usage object are counts, where there are any.
LEMMA CountsTypes ==
  ASSUME NEW u \in Response!Usage
  PROVE  /\ Response!Counts(u) \in [Response!Field -> Count \cup {Absent}]
         /\ Response!Counts(u)["input"] = u.input
         /\ Response!Counts(u)["total"] = IF u.total = Null THEN Absent ELSE u.total
         /\ u.detail \in {Absent, Null} =>
              Response!Counts(u)["five"] = Absent /\ Response!Counts(u)["hour"] = Absent
         /\ u.detail \notin {Absent, Null} =>
              /\ u.detail \in Response!Detail
              /\ Response!Counts(u)["five"] = u.detail.five
              /\ Response!Counts(u)["hour"] = u.detail.hour
<1> USE ResponseNumbers DEF Response!Usage, Response!Detail, Response!Field, Response!Counts
<1>1. /\ Response!Counts(u)["input"] = u.input
      /\ Response!Counts(u)["total"] = IF u.total = Null THEN Absent ELSE u.total
  OBVIOUS
<1>2. u.detail \in {Absent, Null} =>
        Response!Counts(u)["five"] = Absent /\ Response!Counts(u)["hour"] = Absent
  OBVIOUS
<1>3. u.detail \notin {Absent, Null} =>
        /\ u.detail \in Response!Detail
        /\ Response!Counts(u)["five"] = u.detail.five
        /\ Response!Counts(u)["hour"] = u.detail.hour
  OBVIOUS
<1>4. Response!Counts(u) \in [Response!Field -> Count \cup {Absent}]
  <2>1. \A f \in {"input", "total", "five", "hour"} : Response!Counts(u)[f] \in Count \cup {Absent}
    BY <1>1, <1>2, <1>3
  <2>2. Response!Counts(u) = [f \in Response!Field |-> Response!Counts(u)[f]]
    OBVIOUS
  <2> HIDE DEF Response!Counts
  <2> QED BY <2>1, <2>2
<1> QED BY <1>1, <1>2, <1>3, <1>4

\* What the adapter remembers is a usage object.
LEMMA AbsorbTypes ==
  ASSUME NEW old \in Response!Usage, NEW patch \in Response!Usage
  PROVE  Response!Absorb(old, patch) \in Response!Usage
<1> DEFINE n == Response!Absorb(old, patch)
<1> USE ResponseNumbers
<1>1. n.input \in Count \cup {Absent} /\ n.total \in Count \cup {Absent, Null}
  BY DEF Response!Absorb, Response!Usage
<1>2. n.detail \in Response!Detail \cup {Absent, Null}
  <2>1. CASE patch.detail \in {Absent, Null} \/ old.detail \in {Absent, Null}
    BY <2>1 DEF Response!Absorb, Response!Usage
  <2>2. CASE ~(patch.detail \in {Absent, Null} \/ old.detail \in {Absent, Null})
    <3>1. patch.detail \in Response!Detail /\ old.detail \in Response!Detail
      BY <2>2 DEF Response!Usage
    <3>2. n.detail = [f \in {"five", "hour"} |->
                        IF patch.detail[f] = Absent THEN old.detail[f] ELSE patch.detail[f]]
      BY <2>2 DEF Response!Absorb
    <3>3. [f \in {"five", "hour"} |->
              IF patch.detail[f] = Absent THEN old.detail[f] ELSE patch.detail[f]]
            \in Response!Detail
      BY <3>1 DEF Response!Detail
    <3> QED BY <3>2, <3>3
  <2> QED BY <2>1, <2>2
<1>3. n = [input |-> n.input, total |-> n.total, detail |-> n.detail]
  BY DEF Response!Absorb
<1> QED BY <1>1, <1>2, <1>3 DEF Response!Usage

\* Absorbing an event, the adapter still knows what was sent last.
LEMMA AbsorbTracks ==
  ASSUME NEW old \in Response!Usage, NEW patch \in Response!Usage,
         NEW told \in [Response!Field -> Count \cup {Absent}], NEW lost \in BOOLEAN,
         Tracks(old, told, lost)
  PROVE  Tracks(Response!Absorb(old, patch), Response!Overlay(told, Response!Counts(patch)),
                lost \/ patch.detail = Null)
<1> DEFINE n == Response!Absorb(old, patch)
           c == Response!Counts(patch)
           o == Response!Counts(old)
           latest == Response!Overlay(told, c)
<1> USE ResponseNumbers
<1>1. n \in Response!Usage BY AbsorbTypes
<1>2. \A f \in {"input", "total", "five", "hour"} :
        latest[f] = IF c[f] = Absent THEN told[f] ELSE c[f]
  BY DEF Response!Overlay, Response!Field
<1>3. /\ n.input = IF patch.input = Absent THEN old.input ELSE patch.input
      /\ n.total = IF patch.total = Absent THEN old.total ELSE patch.total
  BY DEF Response!Absorb
<1>4. Response!Counts(n)["input"] = latest["input"]
  <2>1. Response!Counts(n)["input"] = n.input BY <1>1, CountsTypes
  <2>2. c["input"] = patch.input /\ o["input"] = old.input BY CountsTypes
  <2>3. o["input"] = told["input"] BY DEF Tracks
  <2> QED BY <1>2, <1>3, <2>1, <2>2, <2>3
<1>5. n.total # Null => Response!Counts(n)["total"] = latest["total"]
  <2>1. Response!Counts(n)["total"] = IF n.total = Null THEN Absent ELSE n.total
    BY <1>1, CountsTypes
  <2>2. /\ c["total"] = IF patch.total = Null THEN Absent ELSE patch.total
        /\ o["total"] = IF old.total = Null THEN Absent ELSE old.total
    BY CountsTypes
  <2>3. old.total # Null => o["total"] = told["total"] BY DEF Tracks
  <2> QED BY <1>2, <1>3, <2>1, <2>2, <2>3
<1>6. ASSUME ~lost, patch.detail # Null
      PROVE  /\ n.detail # Null
             /\ \A f \in {"five", "hour"} : Response!Counts(n)[f] = latest[f]
  <2>1. /\ old.detail # Null /\ o["five"] = told["five"] /\ o["hour"] = told["hour"]
    BY <1>6 DEF Tracks
  <2>2. CASE patch.detail = Absent
    <3>1. n.detail = old.detail BY <2>2 DEF Response!Absorb
    <3>2. c["five"] = Absent /\ c["hour"] = Absent BY <2>2, CountsTypes
    <3>3. Response!Counts(n)["five"] = o["five"] /\ Response!Counts(n)["hour"] = o["hour"]
      BY <3>1 DEF Response!Counts, Response!Field
    <3> QED BY <1>2, <2>1, <3>1, <3>2, <3>3
  <2>3. CASE patch.detail # Absent /\ old.detail = Absent
    <3>1. n.detail = patch.detail BY <2>3 DEF Response!Absorb
    <3>2. o["five"] = Absent /\ o["hour"] = Absent BY <2>3, CountsTypes
    <3>3. Response!Counts(n)["five"] = c["five"] /\ Response!Counts(n)["hour"] = c["hour"]
      BY <3>1 DEF Response!Counts, Response!Field
    <3> QED BY <1>2, <1>6, <2>1, <3>1, <3>2, <3>3
  <2>4. CASE patch.detail # Absent /\ old.detail # Absent
    <3>1. patch.detail \notin {Absent, Null} /\ old.detail \notin {Absent, Null}
      BY <1>6, <2>1, <2>4
    <3>2. n.detail = [f \in {"five", "hour"} |->
                        IF patch.detail[f] = Absent THEN old.detail[f] ELSE patch.detail[f]]
      BY <3>1 DEF Response!Absorb
    <3>3. /\ n.detail.five = IF patch.detail.five = Absent THEN old.detail.five ELSE patch.detail.five
          /\ n.detail.hour = IF patch.detail.hour = Absent THEN old.detail.hour ELSE patch.detail.hour
      BY <3>2
    <3>4. /\ c["five"] = patch.detail.five /\ c["hour"] = patch.detail.hour
          /\ o["five"] = old.detail.five /\ o["hour"] = old.detail.hour
      BY <3>1, CountsTypes
    <3>5. n.detail \in Response!Detail
      <4>1. patch.detail \in Response!Detail /\ old.detail \in Response!Detail BY <3>1, CountsTypes
      <4> QED BY <3>2, <4>1 DEF Response!Detail
    <3>6. n.detail \notin {Absent, Null} BY <3>5
    <3>7. Response!Counts(n)["five"] = n.detail.five /\ Response!Counts(n)["hour"] = n.detail.hour
      BY <1>1, <3>6, CountsTypes
    <3> QED BY <1>2, <2>1, <3>3, <3>4, <3>6, <3>7
  <2> QED BY <2>2, <2>3, <2>4
<1> QED BY <1>4, <1>5, <1>6 DEF Tracks

\* What the observer makes of one more event is what it would make of the last counts.
LEMMA DeriveIsSplit ==
  ASSUME NEW told \in [Response!Field -> Count \cup {Absent}],
         NEW counts \in [Response!Field -> Count \cup {Absent}]
  PROVE  LET latest == Response!Overlay(told, counts)
             now1 == [f \in Response!Field |-> IF counts[f] = Absent THEN Response!Split(told)[f]
                                              ELSE counts[f]]
         IN  Response!Derive(now1, {f \in Response!Field : latest[f] # Absent})
               = Response!Split(latest)
<1> DEFINE latest == Response!Overlay(told, counts)
           now1 == [f \in Response!Field |-> IF counts[f] = Absent THEN Response!Split(told)[f]
                                            ELSE counts[f]]
           known == {f \in Response!Field : latest[f] # Absent}
           d == Response!Derive(now1, known)
<1> USE DEF Response!Field
<1>1. \A f \in Response!Field : latest[f] = IF counts[f] = Absent THEN told[f] ELSE counts[f]
  BY DEF Response!Overlay
<1>2. \A f \in Response!Field : now1[f] = IF counts[f] = Absent THEN Response!Split(told)[f] ELSE counts[f]
  OBVIOUS
<1>3. \A f \in Response!Field : f \in known <=> latest[f] # Absent OBVIOUS
<1>4. d["input"] = Response!Split(latest)["input"] /\ d["total"] = Response!Split(latest)["total"]
  BY <1>1, <1>2 DEF Response!Derive, Response!Split
<1>5. d["five"] = Response!Split(latest)["five"]
  BY <1>1, <1>2 DEF Response!Derive, Response!Split
<1>6. d["hour"] = Response!Split(latest)["hour"]
  BY <1>1, <1>2 DEF Response!Derive, Response!Split
<1>7. d = [f \in Response!Field |-> d[f]] BY DEF Response!Derive
<1>8. Response!Split(latest) = [f \in Response!Field |-> Response!Split(latest)[f]]
  BY DEF Response!Split
<1>9. d = Response!Split(latest)
  <2> HIDE DEF d, latest
  <2> QED BY <1>4, <1>5, <1>6, <1>7, <1>8
<1> QED BY <1>9

\* And it is made of numbers.
LEMMA SplitTypes ==
  ASSUME NEW told \in [Response!Field -> Count \cup {Absent}]
  PROVE  Response!Split(told) \in [Response!Field -> Nat]
<1> USE ResponseNumbers DEF Response!Field
<1>1. \A f \in Response!Field : told[f] # Absent => told[f] \in Nat OBVIOUS
<1>2. \A f, g \in Response!Field : told[f] # Absent /\ told[g] # Absent
        => Response!Max({0, told[f] - told[g]}) \in Nat
  BY <1>1, NotNegative
<1>3. \A f \in Response!Field : Response!Split(told)[f] \in Nat
  <2>1. ASSUME NEW f \in Response!Field, told[f] # Absent PROVE Response!Split(told)[f] \in Nat
    <3>1. Response!Split(told)[f] = told[f] BY <2>1 DEF Response!Split
    <3> QED BY <1>1, <2>1, <3>1
  <2>2. ASSUME told["five"] = Absent PROVE Response!Split(told)["five"] \in Nat
    <3>1. Response!Split(told)["five"] =
            IF told["total"] = Absent THEN 0
            ELSE IF told["hour"] = Absent THEN told["total"]
            ELSE Response!Max({0, told["total"] - told["hour"]})
      BY <2>2 DEF Response!Split
    <3> QED BY <1>1, <1>2, <3>1
  <2>3. ASSUME told["hour"] = Absent PROVE Response!Split(told)["hour"] \in Nat
    <3>1. Response!Split(told)["hour"] =
            IF told["total"] = Absent \/ told["five"] = Absent THEN 0
            ELSE Response!Max({0, told["total"] - told["five"]})
      BY <2>3 DEF Response!Split
    <3> QED BY <1>1, <1>2, <3>1
  <2>4. /\ told["input"] = Absent => Response!Split(told)["input"] = 0
        /\ told["total"] = Absent => Response!Split(told)["total"] = 0
    BY DEF Response!Split
  <2> QED BY <2>1, <2>2, <2>3, <2>4
<1>4. Response!Split(told) = [f \in Response!Field |-> Response!Split(told)[f]]
  BY DEF Response!Split
<1> QED BY <1>3, <1>4

\* The first states.
LEMMA ResponseBegins == Response!Init => ResponseInv
<1> SUFFICES ASSUME Response!Init PROVE ResponseInv OBVIOUS
<1> USE ResponseNumbers, ResponseConstants
<1>1. options \in Response!Options /\ snapshot \in Response!Options
  BY LargestMultiplier DEF Response!Init, Response!Options
<1>2. last \in [Response!Field -> Count \cup {Absent}] /\ original \in Response!Usage
  BY DEF Response!Init, Response!Nothing, Response!Usage, Response!NoUsage
<1>3. Response!TypeOK
  <2>1. usage \in [Response!Field -> Nat] /\ seen \subseteq Response!Field /\ events \in 0..MaxEvents
    BY DEF Response!Init
  <2>2. \A f \in Response!Field : client[f] = Absent BY DEF Response!Init, Response!Nothing
  <2>3. /\ stage = "idle" /\ json = FALSE /\ refusal = None /\ stopped = FALSE
        /\ billing = None /\ counted = None /\ withdrawn = FALSE
    BY DEF Response!Init
  <2> QED BY <1>1, <1>2, <2>1, <2>2, <2>3 DEF Response!TypeOK
<1>4. Course /\ Billing /\ Response!BilledOnce
  BY DEF Response!Init, Course, Billing, Response!BilledOnce
<1>5. Tracks(original, last, withdrawn)
  <2>1. \A f \in Response!Field : last[f] = Absent BY DEF Response!Init, Response!Nothing
  <2>2. /\ original.input = Absent /\ original.total = Absent /\ original.detail = Absent
    BY DEF Response!Init, Response!NoUsage
  <2> QED BY <1>2, <2>1, <2>2, CountsTypes DEF Tracks, Response!Field
<1>6. seen = {f \in Response!Field : last[f] # Absent}
  BY DEF Response!Init, Response!Nothing
<1>7. Response!UsageIsLastOfEach
  <2>1. \A f \in Response!Field : Response!Split(last)[f] = 0
    BY DEF Response!Init, Response!Nothing, Response!Split, Response!Field
  <2>2. Response!Split(last) = [f \in Response!Field |-> Response!Split(last)[f]]
    BY DEF Response!Split
  <2>3. Response!Split(last) = [f \in Response!Field |-> 0] BY <2>1, <2>2
  <2> QED BY <2>3 DEF Response!Init, Response!UsageIsLastOfEach
<1> QED BY <1>3, <1>4, <1>5, <1>6, <1>7 DEF ResponseInv

\* The observer after an event.
LEMMA ObserverReads ==
  ASSUME ResponseInv, NEW patch \in Response!Usage, Response!apply(patch),
         last' = Response!Overlay(last, Response!Counts(patch))
  PROVE  /\ last' \in [Response!Field -> Count \cup {Absent}]
         /\ seen' = {f \in Response!Field : last'[f] # Absent}
         /\ usage' = Response!Split(last')
         /\ usage' \in [Response!Field -> Nat]
<1> DEFINE counts == Response!Counts(patch)
           known == {f \in Response!Field : last'[f] # Absent}
<1>1. counts \in [Response!Field -> Count \cup {Absent}] BY CountsTypes
<1>2. last \in [Response!Field -> Count \cup {Absent}] BY DEF ResponseInv, Response!TypeOK
<1> HIDE DEF counts
<1>3. last' \in [Response!Field -> Count \cup {Absent}]
  BY <1>1, <1>2 DEF Response!Overlay, counts
<1>4. seen \cup {f \in Response!Field : counts[f] # Absent} = known
  BY <1>1, <1>2 DEF ResponseInv, Response!Overlay, counts
<1>5. usage = Response!Split(last) BY DEF ResponseInv, Response!UsageIsLastOfEach
<1>6. /\ seen' = known
      /\ usage' = Response!Derive([f \in Response!Field |-> IF counts[f] = Absent THEN usage[f]
                                                             ELSE counts[f]], known)
  BY <1>4 DEF Response!apply, counts
<1>7. usage' = Response!Split(last')
  BY <1>1, <1>2, <1>5, <1>6, DeriveIsSplit DEF counts
<1> QED BY <1>3, <1>6, <1>7, SplitTypes

\* The adapter passes an event on, gives up, or bills it as was set at the beginning; it
\* bills every event that follows one it has billed.
LEMMA AdjustCases ==
  ASSUME ResponseInv, NEW patch \in Response!Usage, NEW category \in Category \cup {None},
         NEW final \in BOOLEAN, final \/ events = 0,
         Response!adjust(final, patch, category)
  PROVE  /\ original' = IF snapshot.enabled THEN Response!Absorb(original, patch) ELSE original
         /\ \/ Response!Pass(patch) /\ billing = None
            \/ snapshot.enabled /\ Response!AdaptFails
            \/ \E name \in Category :
                 /\ snapshot.enabled /\ snapshot.of[name] > 2
                 /\ ~Response!Unbillable(original', snapshot.of[name])
                 /\ Response!Scale(name, snapshot.of[name])
<1> DEFINE factor == IF billing # None THEN billing.factor
                     ELSE IF category # None THEN snapshot.of[category] ELSE 0
           name == IF billing # None THEN billing.category ELSE category
<1>1. billing # None => /\ snapshot.enabled /\ events # 0 /\ billing.category \in Category
                        /\ billing.factor = snapshot.of[billing.category] /\ billing.factor > 2
  BY DEF ResponseInv, Course, Billing, Response!TypeOK
<1>2. CASE ~snapshot.enabled BY <1>1, <1>2 DEF Response!adjust
<1>3. CASE snapshot.enabled
  <2>1. original' = Response!Absorb(original, patch) BY <1>3 DEF Response!adjust
  <2>2. IF ~final \/ factor <= 2 THEN Response!Pass(patch)
        ELSE IF Response!Unbillable(original', factor) THEN Response!AdaptFails
        ELSE Response!Scale(name, factor)
    BY <1>3 DEF Response!adjust
  <2>3. CASE billing # None
    <3>1. final /\ factor > 2 /\ factor = snapshot.of[name] /\ name \in Category
      BY <1>1, <2>3
    <3>2. factor \in Int
      <4>1. billing.factor \in Multiplier BY <2>3 DEF ResponseInv, Response!TypeOK
      <4> QED BY <2>3, <4>1, ResponseNumbers
    <3> HIDE DEF factor, name
    <3>3. ~(factor <= 2) BY <3>1, <3>2
    <3> QED BY <1>3, <2>1, <2>2, <3>1, <3>3
  <2>4. CASE billing = None /\ category # None
    <3>1. factor = snapshot.of[name] /\ name \in Category BY <2>4
    <3>2. factor \in Int
      <4>1. snapshot.of[category] \in Multiplier
        BY <2>4 DEF ResponseInv, Response!TypeOK, Response!Options
      <4> QED BY <2>4, <4>1, ResponseNumbers
    <3> HIDE DEF factor, name
    <3>3. factor <= 2 \/ factor > 2 BY <3>2
    <3> QED BY <1>3, <2>1, <2>2, <2>4, <3>1, <3>3
  <2>5. CASE billing = None /\ category = None
    <3>1. factor <= 2 BY <2>5
    <3> HIDE DEF factor, name
    <3> QED BY <1>3, <2>1, <2>2, <2>5, <3>1
  <2> QED BY <2>3, <2>4, <2>5
<1> QED BY <1>2, <1>3

\* An event, read by the observer and then by the adapter.
LEMMA ConsumeKeeps == ASSUME ResponseInv, Response!consumeEvent PROVE ResponseInv'
<1> USE ResponseNumbers
<1>1. PICK patch \in Response!Usage, category \in Category \cup {None}, final \in BOOLEAN :
        /\ ~final => events = 0
        /\ Response!apply(patch)
        /\ refusal' = IF category = None THEN refusal ELSE category
        /\ last' = Response!Overlay(last, Response!Counts(patch))
        /\ withdrawn' = (withdrawn \/ patch.detail = Null)
        /\ Response!adjust(final, patch, category)
  BY DEF Response!consumeEvent
<1>2. /\ stage = "streaming" /\ events < MaxEvents /\ events' = events + 1
      /\ stopped' = json /\ options' = options /\ snapshot' = snapshot /\ json' = json
  BY DEF Response!consumeEvent
<1>3. Response!TypeOK /\ Course /\ Billing BY DEF ResponseInv
<1>4. /\ last' \in [Response!Field -> Count \cup {Absent}]
      /\ seen' = {f \in Response!Field : last'[f] # Absent}
      /\ usage' = Response!Split(last')
      /\ usage' \in [Response!Field -> Nat]
  BY <1>1, ObserverReads
<1> DEFINE Passed == Response!Pass(patch) /\ billing = None
           Failed == snapshot.enabled /\ Response!AdaptFails
           Scaled == \E name \in Category :
                       /\ snapshot.enabled /\ snapshot.of[name] > 2
                       /\ ~Response!Unbillable(original', snapshot.of[name])
                       /\ Response!Scale(name, snapshot.of[name])
<1>5. /\ original' = IF snapshot.enabled THEN Response!Absorb(original, patch) ELSE original
      /\ Passed \/ Failed \/ Scaled
  BY <1>1, AdjustCases
<1>6. original' \in Response!Usage /\ withdrawn' \in BOOLEAN
  BY <1>1, <1>3, <1>5, AbsorbTypes DEF Response!TypeOK
<1>7. snapshot'.enabled => Tracks(original', last', withdrawn')
  <2> SUFFICES ASSUME snapshot.enabled PROVE Tracks(original', last', withdrawn')
    BY <1>2
  <2>1. original' = Response!Absorb(original, patch) BY <1>5
  <2>2. /\ Tracks(original, last, withdrawn) /\ original \in Response!Usage
        /\ last \in [Response!Field -> Count \cup {Absent}] /\ withdrawn \in BOOLEAN
    BY DEF ResponseInv, Response!TypeOK
  <2>3. Tracks(Response!Absorb(original, patch), Response!Overlay(last, Response!Counts(patch)),
               withdrawn \/ patch.detail = Null)
    BY <2>2, AbsorbTracks
  <2> QED BY <1>1, <2>1, <2>3
<1>8. events' \in 0..MaxEvents /\ events' # 0 BY <1>2, <1>3 DEF Response!TypeOK
<1>9. refusal' \in Category \cup {None} BY <1>1, <1>3 DEF Response!TypeOK
<1>10. options' \in Response!Options /\ snapshot' \in Response!Options /\ json' \in BOOLEAN
       /\ stopped' \in BOOLEAN
  BY <1>2, <1>3 DEF Response!TypeOK
<1> DEFINE Bill == /\ stage' \in {"streaming", "failed"}
                   /\ stage' = "streaming" => counted' = counted
                   /\ counted' \in {counted, Response!Result(FALSE)} \cup {None}
                   /\ billing' # None => /\ billing'.category \in Category
                                         /\ billing'.factor \in Multiplier
                                         /\ snapshot.enabled
                                         /\ billing'.factor = snapshot.of[billing'.category]
                                         /\ billing'.factor > 2
                   /\ \A f \in Response!Field : client'[f] # Absent
                                                => client'[f] \in 0..MaxCharge \cup Count
                   /\ Response!BilledOnce'
<1>11. ASSUME Passed PROVE Bill
  <2>1. billing' = None /\ stage' = stage /\ counted' = counted
        /\ client' = Response!Overlay(client, Response!Counts(patch))
    BY <1>11 DEF Response!Pass
  <2>2. \A f \in Response!Field : client'[f] # Absent => client'[f] \in 0..MaxCharge \cup Count
    <3>1. Response!Counts(patch) \in [Response!Field -> Count \cup {Absent}] BY CountsTypes
    <3> QED BY <1>3, <2>1, <3>1 DEF Response!TypeOK, Response!Overlay
  <2> QED BY <1>2, <2>1, <2>2 DEF Response!BilledOnce
<1>12. ASSUME Failed PROVE Bill
  <2>1. stage' = "failed" /\ client' = client /\ billing' = billing
        /\ counted' \in {Response!Result(FALSE)} \cup {None}
    BY <1>12 DEF Response!AdaptFails
  <2> QED BY <1>3, <2>1 DEF Response!TypeOK, Billing, Response!BilledOnce
<1>13. ASSUME Scaled PROVE Bill
  <2>1. PICK name \in Category :
          /\ snapshot.enabled /\ snapshot.of[name] > 2
          /\ ~Response!Unbillable(original', snapshot.of[name])
          /\ Response!Scale(name, snapshot.of[name])
    BY <1>13
  <2> DEFINE factor == snapshot.of[name]
             c == Response!Counts(original')
  <2>2. factor \in Multiplier BY <1>3 DEF Response!TypeOK, Response!Options
  <2>3. /\ billing' = [category |-> name, factor |-> factor]
        /\ client' = Response!Overlay(client, Response!Billed(c, factor))
        /\ stage' = stage /\ counted' = counted
    BY <2>1 DEF Response!Scale, Response!Basis
  <2>4. c \in [Response!Field -> Count \cup {Absent}] BY <1>6, CountsTypes
  <2>5. /\ original'.total # Null
        /\ \A f \in Response!Field :
             c[f] # Absent => ~(Response!scaleRefusalTokens(c[f], factor) > MaxCharge)
    BY <2>1 DEF Response!Unbillable
  <2> HIDE DEF factor, c
  <2>6. \A f \in Response!Field :
          c[f] # Absent => /\ Response!scaleRefusalTokens(c[f], factor) \in Nat
                           /\ Response!scaleRefusalTokens(c[f], factor) \in 0..MaxCharge
    <3> SUFFICES ASSUME NEW f \in Response!Field, c[f] # Absent
                 PROVE  /\ Response!scaleRefusalTokens(c[f], factor) \in Nat
                        /\ Response!scaleRefusalTokens(c[f], factor) \in 0..MaxCharge
      OBVIOUS
    <3>1. Response!scaleRefusalTokens(c[f], factor) \in Nat BY <2>2, <2>4, ScaledIsNat
    <3> QED BY <2>5, <3>1
  <2>7. \A f \in Response!Field :
          client'[f] = IF c[f] = Absent THEN client[f]
                       ELSE Response!scaleRefusalTokens(c[f], factor)
    BY <2>3, <2>6 DEF Response!Overlay, Response!Billed
  <2>8. \A f \in Response!Field : client'[f] # Absent => client'[f] \in 0..MaxCharge \cup Count
    BY <1>3, <2>6, <2>7 DEF Response!TypeOK
  <2>9. \A f \in Response!Field : (f \in {"five", "hour"} => ~withdrawn') => c[f] = last'[f]
    <3>1. Tracks(original', last', withdrawn') BY <1>2, <1>7, <2>1
    <3> QED BY <2>5, <3>1 DEF Tracks, Response!Field, c
  <2>10. Response!BilledOnce'
    <3>1. billing'.factor = factor /\ billing'.category = name BY <2>3
    <3>2. \A f \in Response!Field : last'[f] # Absent /\ (f \in {"five", "hour"} => ~withdrawn')
            => client'[f] = Response!scaleRefusalTokens(last'[f], factor)
      BY <2>7, <2>9
    <3> QED BY <1>2, <3>1, <3>2 DEF Response!BilledOnce, factor
  <2>11. factor > 2 /\ factor = snapshot.of[name] BY <2>1 DEF factor
  <2> QED BY <1>2, <2>1, <2>2, <2>3, <2>8, <2>10, <2>11
<1>14. Bill BY <1>5, <1>11, <1>12, <1>13
<1>15. counted = None BY <1>2, <1>3 DEF Course
<1>16. counted' # None => counted' = [usage |-> usage', refusal |-> refusal', complete |-> FALSE]
  BY <1>14, <1>15 DEF Response!Result
<1>17. counted' # None => counted'.usage = usage' /\ counted'.complete \in BOOLEAN
  <2> SUFFICES ASSUME counted' # None
               PROVE  counted'.usage = usage' /\ counted'.complete \in BOOLEAN
    OBVIOUS
  <2>1. counted' = [usage |-> usage', refusal |-> refusal', complete |-> FALSE] BY <1>16
  <2>2. counted'.usage = usage' BY ONLY <2>1
  <2>3. counted'.complete = FALSE BY ONLY <2>1
  <2> QED BY <2>2, <2>3
<1> HIDE DEF Passed, Failed, Scaled
<1>18. Response!TypeOK'
  <2>1. stage' \in {"idle", "streaming", "done", "failed"} BY <1>14
  <2>2. seen' \subseteq Response!Field BY <1>4
  <2>3. counted' # None => counted'.usage \in [Response!Field -> Nat] /\ counted'.complete \in BOOLEAN
    BY <1>4, <1>17
  <2>4. billing' # None => billing'.category \in Category /\ billing'.factor \in Multiplier
    BY <1>14
  <2>5. \A f \in Response!Field : client'[f] # Absent => client'[f] \in 0..MaxCharge \cup Count
    BY <1>14
  <2> HIDE DEF Bill
  <2> QED BY <1>4, <1>6, <1>8, <1>9, <1>10, <2>1, <2>2, <2>3, <2>4, <2>5, Zenon DEF Response!TypeOK
<1>19. Course' /\ Billing'
  BY <1>2, <1>8, <1>14, <1>15 DEF Course, Billing
<1>20. Response!UsageIsLastOfEach' BY <1>4, <1>17 DEF Response!UsageIsLastOfEach
<1> QED BY <1>4, <1>7, <1>14, <1>18, <1>19, <1>20 DEF ResponseInv

\* A request begins with the settings of its time and nothing told.
LEMMA BeginKeeps == ASSUME ResponseInv, Response!Begin PROVE ResponseInv'
<1>1. /\ stage = "idle" /\ stage' = "streaming" /\ snapshot' = options /\ json' \in BOOLEAN
      /\ UNCHANGED <<options, events, usage, seen, refusal, stopped, original, billing,
                     client, counted, last, withdrawn>>
  BY DEF Response!Begin, Response!observer, Response!adapter, Response!history
<1>2. Response!TypeOK /\ Course BY DEF ResponseInv
<1>3. /\ events = 0 /\ last = Response!Nothing /\ ~withdrawn /\ original = Response!NoUsage
      /\ counted = None /\ billing = None
  BY <1>1, <1>2 DEF Course
<1>4. Response!TypeOK'
  BY <1>1, <1>2, <1>3 DEF Response!TypeOK
<1>5. Course' /\ Billing' /\ Response!BilledOnce'
  BY <1>1, <1>3 DEF Course, Billing, Response!BilledOnce
<1>6. Tracks(original', last', withdrawn')
  <2>1. \A f \in Response!Field : last[f] = Absent BY <1>3 DEF Response!Nothing
  <2>2. /\ original.input = Absent /\ original.total = Absent /\ original.detail = Absent
    BY <1>3 DEF Response!NoUsage
  <2>3. original \in Response!Usage BY <1>2 DEF Response!TypeOK
  <2>4. Tracks(original, last, withdrawn)
    BY <2>1, <2>2, <2>3, CountsTypes, ResponseNumbers DEF Tracks, Response!Field
  <2> QED BY <1>1, <2>4
<1>7. seen' = {f \in Response!Field : last'[f] # Absent} BY <1>1 DEF ResponseInv
<1>8. Response!UsageIsLastOfEach' BY <1>1 DEF ResponseInv, Response!UsageIsLastOfEach
<1> QED BY <1>4, <1>5, <1>6, <1>7, <1>8 DEF ResponseInv

\* The answer ends, or breaks off.
LEMMA EndKeeps ==
  ASSUME ResponseInv, Response!EndOfBody \/ Response!BrokenOff PROVE ResponseInv'
<1>1. /\ stage = "streaming" /\ stage' = "done"
      /\ UNCHANGED <<options, snapshot, json, events, usage, seen, refusal, stopped, original,
                     billing, client, last, withdrawn>>
  BY DEF Response!EndOfBody, Response!BrokenOff, Response!observer, Response!adapter,
         Response!history
<1>2. Response!TypeOK /\ Course BY DEF ResponseInv
<1>3. counted' # None => counted'.usage = usage /\ counted'.complete \in BOOLEAN
  <2>1. \A b \in BOOLEAN : /\ Response!Result(b).usage = usage'
                           /\ Response!Result(b).complete \in BOOLEAN
    BY DEF Response!Result
  <2>2. \E b \in BOOLEAN : counted' = None \/ counted' = Response!Result(b)
    <3>1. CASE Response!EndOfBody
      <4>1. counted' = Response!Result(IF json THEN seen # {} ELSE stopped)
        BY <3>1 DEF Response!EndOfBody
      <4>2. CASE json BY <4>1, <4>2
      <4>3. CASE ~json
        <5>1. counted' = Response!Result(stopped) BY <4>1, <4>3
        <5>2. stopped \in BOOLEAN BY <1>2 DEF Response!TypeOK
        <5> QED BY <5>1, <5>2
      <4> QED BY <4>2, <4>3
    <3>2. CASE Response!BrokenOff BY <3>2 DEF Response!BrokenOff
    <3> QED BY <3>1, <3>2
  <2>3. PICK b \in BOOLEAN : counted' = None \/ counted' = Response!Result(b) BY <2>2
  <2> QED BY <1>1, <2>1, <2>3
<1>4. Response!TypeOK'
  <2>1. stage' \in {"idle", "streaming", "done", "failed"} BY <1>1
  <2>2. counted' # None => counted'.usage \in [Response!Field -> Nat] /\ counted'.complete \in BOOLEAN
    BY <1>2, <1>3 DEF Response!TypeOK
  <2> QED BY <1>1, <1>2, <2>1, <2>2 DEF Response!TypeOK
<1>5. Course' /\ Billing' BY <1>1 DEF Course, Billing, ResponseInv
<1>6. Response!BilledOnce' BY <1>1 DEF ResponseInv, Response!BilledOnce
<1>7. seen' = {f \in Response!Field : last'[f] # Absent} BY <1>1 DEF ResponseInv
<1>8. Response!UsageIsLastOfEach' BY <1>1, <1>3 DEF ResponseInv, Response!UsageIsLastOfEach
<1>9. snapshot'.enabled => Tracks(original', last', withdrawn')
  <2>1. snapshot.enabled => Tracks(original, last, withdrawn) BY DEF ResponseInv
  <2> QED BY <1>1, <2>1
<1> QED BY <1>4, <1>5, <1>6, <1>7, <1>8, <1>9 DEF ResponseInv

\* Every step of a response keeps its invariant.
LEMMA ResponseStep ==
  ASSUME ResponseInv, Response!Next \/ UNCHANGED responseVars PROVE ResponseInv'
<1>1. ASSUME UNCHANGED <<snapshot, stage, json, events, usage, seen, refusal, original, billing,
                         client, counted, last, withdrawn>>,
             options' \in Response!Options, stopped' \in BOOLEAN
      PROVE  ResponseInv'
  <2>1. Response!TypeOK' BY <1>1 DEF ResponseInv, Response!TypeOK
  <2>2. Course' /\ Billing' BY <1>1 DEF ResponseInv, Course, Billing
  <2>3. Response!UsageIsLastOfEach' /\ Response!BilledOnce'
    BY <1>1 DEF ResponseInv, Response!UsageIsLastOfEach, Response!BilledOnce
  <2>4. seen' = {f \in Response!Field : last'[f] # Absent} BY <1>1 DEF ResponseInv
  <2>5. snapshot'.enabled => Tracks(original', last', withdrawn')
    <3>1. snapshot.enabled => Tracks(original, last, withdrawn) BY DEF ResponseInv
    <3> QED BY <1>1, <3>1
  <2> QED BY <2>1, <2>2, <2>3, <2>4, <2>5 DEF ResponseInv
<1>2. options \in Response!Options /\ stopped \in BOOLEAN BY DEF ResponseInv, Response!TypeOK
<1>3. CASE Response!setRefusalBilling
  BY <1>1, <1>2, <1>3
  DEF Response!setRefusalBilling, Response!observer, Response!adapter, Response!history
<1>4. CASE Response!messageStop
  BY <1>1, <1>2, <1>4 DEF Response!messageStop, Response!adapter, Response!history
<1>5. CASE UNCHANGED responseVars BY <1>1, <1>2, <1>5 DEF responseVars
<1> QED BY <1>3, <1>4, <1>5, BeginKeeps, ConsumeKeeps, EndKeeps DEF Response!Next

\* And the invariant holds of it in the composition.
LEMMA ResponseInvariant == PartsSpec => []ResponseInv
<1>1. AnyPart => ResponseInv BY ResponseBegins DEF AnyPart
<1>2. ResponseInv /\ [OnePart]_<<part, vars, responseVars>> => ResponseInv'
  <2> SUFFICES ASSUME ResponseInv, [OnePart]_<<part, vars, responseVars>> PROVE ResponseInv'
    OBVIOUS
  <2>1. Response!Next \/ UNCHANGED responseVars BY DEF OnePart
  <2> QED BY <2>1, ResponseStep
<1> QED BY <1>1, <1>2, PTL DEF PartsSpec
-----------------------------------------------------------------------------
(* The composition: a behaviour is one of the cooldown or one of a response.   *)

\* A response does not touch the rows: a behaviour of the composition is one of the
\* cooldown, and what is proved of those is true of what the run checks.
THEOREM CompositionIsACooldown == PartsSpec => Spec
<1>1. AnyPart => Init BY DEF AnyPart
<1>2. [OnePart]_<<part, vars, responseVars>> => [Next]_vars BY DEF OnePart
<1> QED BY <1>1, <1>2, PTL DEF PartsSpec, Spec

\* Every variable of the cooldown and of a response keeps its type; in particular what a
\* client is billed for a field never exceeds the largest charge.
THEOREM PartsKeepTheirTypes == PartsSpec => []PartsTypeOK
<1>1. TypeOK /\ ResponseInv => PartsTypeOK BY DEF ResponseInv, PartsTypeOK
<1> QED BY <1>1, RefusalTypes, CompositionIsACooldown, ResponseInvariant, PTL

\* In whatever order events tell the counts of an answer, and however often, accounting
\* gets the last of each, with the cache counts no event named derived from the total
\* (observer.go: apply).
THEOREM UsageIsCountedOnce == PartsSpec => []UsageIsLastOfEach
<1>1. ResponseInv => UsageIsLastOfEach BY DEF ResponseInv, UsageIsLastOfEach
<1> QED BY <1>1, ResponseInvariant, PTL

\* A refusal is billed what upstream counted last times the multiplier set when the request
\* began, though events repeat the counts and the settings change (refusal_billing.go: adjust).
THEOREM RefusalsAreBilledOnce == PartsSpec => []BilledOnce
<1>1. ResponseInv => BilledOnce BY DEF ResponseInv, BilledOnce
<1> QED BY <1>1, ResponseInvariant, PTL
=============================================================================
