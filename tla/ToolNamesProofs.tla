--------------------------- MODULE ToolNamesProofs ---------------------------
(***************************************************************************)
(* An alias is given back as the name it stands for, and which alias a     *)
(* name gets does not depend on the order of the tools, for any names,     *)
(* hashes and number of tools.                                             *)
(*                                                                         *)
(* The invariant says of each pass which part of the final table is there: *)
(* the second pass decides for a name by the declared names alone, since   *)
(* no two prefixed names are equal, and the third pass has always served   *)
(* the smaller exceptional names and no others.                            *)
(***************************************************************************)
EXTENDS ToolNames, TLAPS

(* Names are ordered; a name the pass may change is not one it leaves      *)
(* alone; None is no name.                                                 *)
NameConstants ==
  /\ Custom \subseteq Nat /\ Custom \cap Fixed = {}
  /\ None \notin Names \cup Aliases
  /\ Attempts \in Nat /\ MaxTools \in Nat

Seen == {tools[i] : i \in {j \in DOMAIN tools : j < next}}
Ordinary == {n \in Declared \cap Custom : prefixed[n] # None /\ prefixed[n] \notin Declared}
Exceptional == (Declared \cap Custom) \ Ordinary
Smaller(n) == {m \in Exceptional : m < n}
Claimed == Declared \cup {prefixed[n] : n \in Ordinary}
\* The place a name of the third pass has in the final table.
Served(n) ==
  \E k \in FirstFree(n, Claimed \cup {renamed[m] : m \in Smaller(n)}) : renamed[n] = hashed[n][k]

Tables ==
  /\ Spellings
  /\ \E n \in 1 .. MaxTools : tools \in [1 .. n -> Names] /\ next \in 1 .. n + 1
  /\ phase \in {"reserve", "plain", "shorten", "sent", "refused", "told"}
  /\ renamed \in [Custom -> Aliases \cup {None}]
Once == \A i, j \in DOMAIN tools : tools[i] = tools[j] => i = j
Reserving ==
  phase = "reserve" =>
    /\ used = Seen /\ aliased = {} /\ renamed = [n \in Custom |-> None]
    /\ \A i, j \in DOMAIN tools : i < next /\ j < next /\ tools[i] = tools[j] => i = j
Prefixing ==
  phase = "plain" =>
    /\ Once
    /\ used = Declared \cup {prefixed[n] : n \in Seen \cap Ordinary}
    /\ aliased = (Seen \cap Custom) \ Ordinary
    /\ renamed = [n \in Custom |-> IF n \in Seen \cap Ordinary THEN prefixed[n] ELSE None]
Shortening ==
  phase \in {"shorten", "sent", "told"} =>
    /\ aliased \subseteq Exceptional
    /\ used = Claimed \cup {renamed[n] : n \in Exceptional \ aliased}
    /\ \A m \in Exceptional \ aliased, n \in aliased : m < n
    /\ \A n \in Ordinary : renamed[n] = prefixed[n]
    /\ \A n \in Exceptional \ aliased : Served(n)
    /\ \A n \in Custom \ Declared : renamed[n] = None
    /\ phase # "shorten" => aliased = {}
IInv == Tables /\ Reserving /\ Prefixing /\ Shortening /\ Restorable

constants == <<prefixed, hashed, tools>>
-----------------------------------------------------------------------------
LEMMA InitInv == ASSUME NameConstants, Init PROVE IInv
  <1>1. PICK n \in 1 .. MaxTools : tools \in [1 .. n -> Names]
    BY DEF Init
  <1>2. next \in 1 .. n + 1 /\ n \in Nat
    BY <1>1 DEF Init, NameConstants
  <1>3. Tables
    BY <1>1, <1>2 DEF Init, Tables
  <1>4. Seen = {}
    BY <1>1, <1>2 DEF Seen, Init
  <1> QED BY <1>3, <1>4, <1>1, <1>2 DEF Init, IInv, Reserving, Prefixing, Shortening, Restorable

\* What has been seen grows by the name the loop is at, and is everything at its end.
LEMMA SeenGrows ==
  ASSUME NameConstants, Tables, constants' = constants
  PROVE /\ next \in DOMAIN tools /\ next' = next + 1 => Seen' = Seen \cup {tools[next]}
        /\ next \notin DOMAIN tools => Seen = Declared
        /\ next' = 1 => Seen' = {}
        /\ Declared' = Declared /\ Ordinary' = Ordinary /\ Exceptional' = Exceptional
        /\ Claimed' = Claimed
        /\ \A n : Smaller(n)' = Smaller(n)
  <1>1. PICK n \in 1 .. MaxTools : tools \in [1 .. n -> Names] /\ next \in 1 .. n + 1
    BY DEF Tables
  <1>2. n \in Nat /\ DOMAIN tools = 1 .. n /\ tools' = tools /\ prefixed' = prefixed
    BY <1>1 DEF NameConstants, constants
  <1>3. ASSUME next \in DOMAIN tools, next' = next + 1
        PROVE Seen' = Seen \cup {tools[next]}
    <2>1. {j \in 1 .. n : j < next + 1} = {j \in 1 .. n : j < next} \cup {next}
      BY <1>1, <1>2, <1>3
    <2> QED BY <1>2, <1>3, <2>1 DEF Seen
  <1>4. ASSUME next \notin DOMAIN tools PROVE Seen = Declared
    <2>1. {j \in 1 .. n : j < next} = 1 .. n
      BY <1>1, <1>2, <1>4
    <2> QED BY <1>2, <2>1 DEF Seen, Declared
  <1>5. next' = 1 => Seen' = {}
    BY <1>2 DEF Seen
  <1>6. Declared' = Declared
    BY <1>2 DEF Declared
  <1>7. Ordinary' = Ordinary
    BY <1>2, <1>6 DEF Ordinary
  <1>8. Exceptional' = Exceptional
    BY <1>6, <1>7 DEF Exceptional
  <1>9. Claimed' = Claimed
    BY <1>2, <1>6, <1>7 DEF Claimed
  <1> QED BY <1>3, <1>4, <1>5, <1>6, <1>7, <1>8, <1>9 DEF Smaller

\* No step but the last tells an answer.
LEMMA ReserveStep == ASSUME NameConstants, IInv, Reserve PROVE IInv'
  <1> USE DEF IInv
  <1>1. constants' = constants /\ phase = "reserve" /\ next \in DOMAIN tools
    BY DEF Reserve, constants
  <1>2. CASE tools[next] \in used
    BY <1>1, <1>2 DEF Reserve, Tables, Spellings, Reserving, Prefixing, Shortening, Restorable
  <1>3. CASE tools[next] \notin used
    <2>1. PICK n \in 1 .. MaxTools : tools \in [1 .. n -> Names] /\ next \in 1 .. n + 1
      BY DEF Tables
    <2>2. n \in Nat /\ DOMAIN tools = 1 .. n
      BY <2>1 DEF NameConstants
    <2>3. /\ next' = next + 1 /\ used' = used \cup {tools[next]} /\ phase' = phase
          /\ UNCHANGED <<prefixed, hashed, tools, aliased, renamed, answer>>
      BY <1>3 DEF Reserve
    <2>4. Tables'
      <3>1. next' \in 1 .. n + 1
        BY <1>1, <2>1, <2>2, <2>3
      <3> QED BY <2>1, <2>3, <3>1 DEF Tables, Spellings
    <2>5. used' = Seen'
      BY <1>1, <2>3, SeenGrows DEF Reserving
    <2>6. ASSUME NEW i \in 1 .. n, NEW j \in 1 .. n, i < next + 1, j < next + 1, tools[i] = tools[j]
          PROVE i = j
      <3>1. \A k \in 1 .. n : k < next => tools[k] \in used
        BY <1>1, <2>2 DEF Reserving, Seen
      <3>2. i = next \/ i < next
        BY <2>6, <2>1, <2>2
      <3>3. j = next \/ j < next
        BY <2>6, <2>1, <2>2
      <3> QED BY <1>1, <1>3, <2>2, <2>6, <3>1, <3>2, <3>3 DEF Reserving
    <2>7. Reserving'
      BY <1>1, <2>2, <2>3, <2>5, <2>6 DEF Reserving
    <2> QED BY <1>1, <2>3, <2>4, <2>7 DEF Prefixing, Shortening, Restorable
  <1> QED BY <1>2, <1>3

LEMMA ReservedStep == ASSUME NameConstants, IInv, Reserved PROVE IInv'
  <1> USE DEF IInv
  <1>1. /\ constants' = constants /\ phase = "reserve" /\ next \notin DOMAIN tools
        /\ phase' = "plain" /\ next' = 1
        /\ UNCHANGED <<prefixed, hashed, tools, used, aliased, renamed, answer>>
    BY DEF Reserved, EndOfTools, constants
  <1>2. PICK n \in 1 .. MaxTools : tools \in [1 .. n -> Names] /\ next \in 1 .. n + 1
    BY DEF Tables
  <1>3. n \in Nat /\ DOMAIN tools = 1 .. n
    BY <1>2 DEF NameConstants
  <1>4. Tables'
    BY <1>1, <1>2, <1>3 DEF Tables, Spellings
  <1>5. Once'
    <2>1. \A i \in 1 .. n : i < next
      BY <1>1, <1>2, <1>3
    <2> QED BY <1>1, <1>3, <2>1 DEF Once, Reserving
  <1>6. used' = Declared' /\ Seen' = {}
    BY <1>1, SeenGrows DEF Reserving
  <1>7. Prefixing'
    BY <1>1, <1>5, <1>6 DEF Prefixing, Reserving
  <1> QED BY <1>1, <1>4, <1>7 DEF Reserving, Shortening, Restorable

LEMMA SkipStep == ASSUME NameConstants, IInv, Skip PROVE IInv'
  <1> USE DEF IInv
  <1>1. /\ constants' = constants /\ phase = "plain" /\ next \in DOMAIN tools
        /\ tools[next] \in Fixed /\ next' = next + 1 /\ phase' = phase
        /\ UNCHANGED <<prefixed, hashed, tools, used, aliased, renamed, answer>>
    BY DEF Skip, constants
  <1>2. PICK n \in 1 .. MaxTools : tools \in [1 .. n -> Names] /\ next \in 1 .. n + 1
    BY DEF Tables
  <1>3. n \in Nat /\ next' \in 1 .. n + 1
    BY <1>1, <1>2 DEF NameConstants
  <1>4. Tables'
    BY <1>1, <1>2, <1>3 DEF Tables, Spellings
  <1>5. Seen' \cap Custom = Seen \cap Custom
    BY <1>1, SeenGrows DEF NameConstants
  <1>6. Seen' \cap Ordinary' = Seen \cap Ordinary /\ Ordinary' = Ordinary /\ Declared' = Declared
    BY <1>1, <1>5, SeenGrows DEF Ordinary
  <1>7. Prefixing'
    BY <1>1, <1>5, <1>6 DEF Prefixing, Once
  <1> QED BY <1>1, <1>4, <1>7 DEF Reserving, Shortening, Restorable

\* The ordinary target of a name the loop is at is taken just when the name is exceptional.
LEMMA PrefixStep == ASSUME NameConstants, IInv, Prefix PROVE IInv'
  <1> USE DEF IInv
  <1> DEFINE n == tools[next]
  <1>1. /\ constants' = constants /\ phase = "plain" /\ next \in DOMAIN tools
        /\ n \in Custom /\ next' = next + 1 /\ phase' = phase
        /\ UNCHANGED <<prefixed, hashed, tools, answer>>
    BY DEF Prefix, constants
  <1>2. PICK N \in 1 .. MaxTools : tools \in [1 .. N -> Names] /\ next \in 1 .. N + 1
    BY DEF Tables
  <1>3. N \in Nat /\ next' \in 1 .. N + 1 /\ DOMAIN tools = 1 .. N
    BY <1>1, <1>2 DEF NameConstants
  <1>4. n \in Declared \cap Custom /\ n \notin Seen
    <2>1. n \in Declared
      BY <1>1 DEF Declared
    <2>2. ASSUME NEW j \in 1 .. N, j < next, tools[j] = n PROVE FALSE
      BY <1>1, <1>2, <1>3, <2>2 DEF Prefixing, Once
    <2> QED BY <1>1, <1>3, <2>1, <2>2 DEF Seen
  <1>5. /\ Seen' = Seen \cup {n} /\ Declared' = Declared /\ Ordinary' = Ordinary
    BY <1>1, SeenGrows
  <1>6. Taken(n) <=> n \notin Ordinary
    <2>1. \A m \in Seen \cap Ordinary : prefixed[n] # None => prefixed[m] # prefixed[n]
      BY <1>4 DEF Tables, Spellings, Ordinary
    <2> QED BY <1>1, <1>4, <2>1 DEF Taken, Prefixing, Ordinary
  <1>7. CASE Taken(n)
    <2>1. aliased' = aliased \cup {n} /\ UNCHANGED <<renamed, used>>
      BY <1>7 DEF Prefix
    <2>2. Seen' \cap Ordinary' = Seen \cap Ordinary
      BY <1>5, <1>6, <1>7
    <2>3. aliased' = (Seen' \cap Custom) \ Ordinary'
      BY <1>1, <1>5, <1>6, <1>7, <2>1 DEF Prefixing
    <2>4. Prefixing'
      BY <1>1, <1>5, <2>1, <2>2, <2>3 DEF Prefixing, Once
    <2>5. Tables'
      BY <1>1, <1>2, <1>3, <2>1 DEF Tables, Spellings
    <2> QED BY <1>1, <2>4, <2>5 DEF Reserving, Shortening, Restorable
  <1>8. CASE ~Taken(n)
    <2>1. /\ renamed' = [renamed EXCEPT ![n] = prefixed[n]]
          /\ used' = used \cup {prefixed[n]} /\ aliased' = aliased
      BY <1>8 DEF Prefix
    <2>2. Seen' \cap Ordinary' = (Seen \cap Ordinary) \cup {n}
      BY <1>5, <1>6, <1>8
    <2>3. aliased' = (Seen' \cap Custom) \ Ordinary'
      BY <1>1, <1>5, <1>6, <1>8, <2>1 DEF Prefixing
    <2>4. used' = Declared' \cup {prefixed'[m] : m \in Seen' \cap Ordinary'}
      BY <1>1, <1>5, <2>1, <2>2 DEF Prefixing
    <2>5. renamed' = [m \in Custom |-> IF m \in Seen' \cap Ordinary' THEN prefixed'[m] ELSE None]
      BY <1>1, <2>1, <2>2 DEF Prefixing
    <2>6. Prefixing'
      BY <1>1, <2>3, <2>4, <2>5 DEF Prefixing, Once
    <2>7. prefixed[n] \in Aliases \cup {None}
      BY <1>1 DEF Tables, Spellings
    <2>8. Tables'
      BY <1>1, <1>2, <1>3, <2>1, <2>7 DEF Tables, Spellings
    <2> QED BY <1>1, <2>6, <2>8 DEF Reserving, Shortening, Restorable
  <1> QED BY <1>7, <1>8

LEMMA PrefixedStep == ASSUME NameConstants, IInv, Prefixed PROVE IInv'
  <1> USE DEF IInv
  <1>1. /\ constants' = constants /\ phase = "plain" /\ next \notin DOMAIN tools
        /\ phase' = "shorten" /\ next' = 1
        /\ UNCHANGED <<prefixed, hashed, tools, used, aliased, renamed, answer>>
    BY DEF Prefixed, EndOfTools, constants
  <1>2. PICK n \in 1 .. MaxTools : tools \in [1 .. n -> Names] /\ next \in 1 .. n + 1
    BY DEF Tables
  <1>3. n \in Nat
    BY <1>2 DEF NameConstants
  <1>4. Tables'
    BY <1>1, <1>2, <1>3 DEF Tables, Spellings
  <1>5. Seen = Declared /\ Seen \cap Ordinary = Ordinary /\ aliased = Exceptional
    BY <1>1, SeenGrows DEF Prefixing, Ordinary, Exceptional
  <1>6. /\ Declared' = Declared /\ Ordinary' = Ordinary /\ Exceptional' = Exceptional
        /\ Claimed' = Claimed
    BY <1>1, SeenGrows
  <1>7. used = Claimed /\ Exceptional \ aliased = {}
    BY <1>1, <1>5 DEF Prefixing, Claimed
  <1>8. \A m \in Custom : renamed[m] = IF m \in Ordinary THEN prefixed[m] ELSE None
    BY <1>1, <1>5 DEF Prefixing
  <1>9. Shortening'
    BY <1>1, <1>5, <1>6, <1>7, <1>8 DEF Shortening, Ordinary
  <1> QED BY <1>1, <1>4, <1>9 DEF Reserving, Prefixing, Restorable

\* The name whose turn it is has every smaller exceptional name served, and no other.
LEMMA ShortenStep == ASSUME NameConstants, IInv, Shorten PROVE IInv'
  <1> USE DEF IInv
  <1>1. PICK n \in aliased : \E k \in FirstFree(n, used) :
          /\ Turn(n)
          /\ renamed' = [renamed EXCEPT ![n] = hashed[n][k]]
          /\ used' = used \cup {hashed[n][k]}
          /\ aliased' = aliased \ {n}
    BY DEF Shorten
  <1>2. PICK k \in FirstFree(n, used) :
          /\ Turn(n)
          /\ renamed' = [renamed EXCEPT ![n] = hashed[n][k]]
          /\ used' = used \cup {hashed[n][k]}
          /\ aliased' = aliased \ {n}
    BY <1>1
  <1>3. /\ phase = "shorten" /\ constants' = constants /\ phase' = phase /\ next' = next
        /\ UNCHANGED <<prefixed, hashed, tools, answer>>
    BY DEF Shorten, constants
  <1>4. /\ Declared' = Declared /\ Ordinary' = Ordinary /\ Exceptional' = Exceptional
        /\ Claimed' = Claimed /\ \A m : Smaller(m)' = Smaller(m)
    BY <1>3, SeenGrows
  <1>5. /\ n \in Exceptional /\ n \in Custom /\ n \notin Ordinary /\ n \in Declared
        /\ Exceptional \subseteq Custom /\ Exceptional \subseteq Nat
        /\ Ordinary \subseteq Custom /\ Ordinary \cap Exceptional = {}
    BY <1>3 DEF Shortening, Exceptional, Ordinary, NameConstants
  <1>6. hashed[n][k] \in Aliases /\ renamed \in [Custom -> Aliases \cup {None}]
    <2>1. k \in 0 .. Attempts - 1
      BY DEF FirstFree
    <2>2. renamed \in [Custom -> Aliases \cup {None}] /\ hashed[n] \in [0 .. Attempts - 1 -> Aliases]
      BY <1>5 DEF Tables, Spellings
    <2> QED BY <2>1, <2>2
  <1>7. renamed'[n] = hashed[n][k] /\ \A m \in Custom : m # n => renamed'[m] = renamed[m]
    BY <1>2, <1>5, <1>6
  <1>8. Smaller(n) = Exceptional \ aliased
    <2>1. \A m \in Exceptional \ aliased : m < n
      BY <1>3 DEF Shortening
    <2>2. \A m \in aliased : ~(m < n)
      BY <1>2, <1>3, <1>5 DEF Turn, Shortening
    <2> QED BY <2>1, <2>2 DEF Smaller
  <1>9. Exceptional \ aliased' = (Exceptional \ aliased) \cup {n}
    BY <1>2, <1>5
  <1>10. \A m \in Exceptional \ aliased, l \in aliased : m < l
    BY <1>3 DEF Shortening
  <1>11. \A m \in Exceptional \ aliased', l \in aliased' : m < l
    <2>1. \A l \in aliased' : n < l
      BY <1>2, <1>3, <1>5 DEF Turn, Shortening
    <2> QED BY <1>2, <1>9, <1>10, <2>1
  <1>12. ASSUME NEW m \in Exceptional \ aliased
         PROVE {renamed'[l] : l \in Smaller(m)} = {renamed[l] : l \in Smaller(m)}
    <2>1. m < n /\ m \in Nat /\ n \in Nat
      BY <1>5, <1>10
    <2>2. n \notin Smaller(m)
      BY <2>1 DEF Smaller
    <2>3. \A l \in Smaller(m) : renamed'[l] = renamed[l]
      BY <1>5, <1>7, <2>2 DEF Smaller
    <2> QED BY <2>3
  <1>13. {renamed'[l] : l \in Smaller(n)} = {renamed[l] : l \in Smaller(n)}
    <2>1. \A l \in Smaller(n) : renamed'[l] = renamed[l]
      BY <1>1, <1>5, <1>7, <1>8
    <2> QED BY <2>1
  <1>14. Served(n)'
    <2>1. used = Claimed \cup {renamed[l] : l \in Smaller(n)}
      BY <1>3, <1>8 DEF Shortening
    <2>2. k \in FirstFree(n, Claimed' \cup {renamed'[m] : m \in Smaller(n)'})
      BY <1>2, <1>3, <1>4, <1>13, <2>1 DEF FirstFree
    <2> QED BY <1>3, <1>7, <2>2 DEF Served, FirstFree
  <1>15. ASSUME NEW m \in Exceptional \ aliased PROVE Served(m)'
    <2>1. PICK j \in FirstFree(m, Claimed \cup {renamed[l] : l \in Smaller(m)}) :
            renamed[m] = hashed[m][j]
      BY <1>3 DEF Shortening, Served
    <2>2. j \in FirstFree(m, Claimed' \cup {renamed'[l] : l \in Smaller(m)'})
      BY <1>3, <1>4, <1>12, <2>1 DEF FirstFree
    <2>3. renamed'[m] = renamed[m]
      BY <1>1, <1>5, <1>7
    <2> QED BY <1>3, <2>1, <2>2, <2>3 DEF Served, FirstFree
  <1>16. used' = Claimed' \cup {renamed'[m] : m \in Exceptional' \ aliased'}
    <2>1. used = Claimed \cup {renamed[m] : m \in Exceptional \ aliased}
      BY <1>3 DEF Shortening
    <2> QED BY <1>2, <1>4, <1>7, <1>8, <1>9, <1>13, <2>1
  <1>17. (\A m \in Ordinary : renamed'[m] = prefixed[m])
         /\ \A m \in Custom \ Declared : renamed'[m] = None
    BY <1>3, <1>5, <1>7 DEF Shortening
  <1>18. \A m \in Exceptional' \ aliased' : Served(m)'
    BY <1>4, <1>9, <1>14, <1>15
  <1>19. aliased' \subseteq Exceptional
    BY <1>2, <1>3 DEF Shortening
  <1>20. Shortening'
    BY <1>3, <1>4, <1>11, <1>16, <1>17, <1>18, <1>19 DEF Shortening
  <1>21. Tables'
    BY <1>2, <1>3, <1>5, <1>6 DEF Tables, Spellings
  <1> QED BY <1>3, <1>20, <1>21 DEF Reserving, Prefixing, Restorable

\* The final table gives no two names one alias, and none a declared name.
LEMMA OneToOne ==
  ASSUME NameConstants, Tables, Shortening, phase \in {"sent", "told"}
  PROVE /\ \A n \in Declared \cap Custom : renamed[n] \notin Declared \cup {None}
        /\ \A m, n \in Custom : renamed[m] = renamed[n] /\ renamed[m] # None => m = n
  <1>1. /\ Declared \cap Custom = Ordinary \cup Exceptional
        /\ Ordinary \subseteq Custom /\ Exceptional \subseteq Custom /\ Custom \subseteq Nat
    BY DEF Ordinary, Exceptional, NameConstants
  <1>2. /\ aliased = {} /\ \A n \in Ordinary : renamed[n] = prefixed[n]
        /\ \A n \in Exceptional : Served(n)
        /\ \A n \in Custom \ Declared : renamed[n] = None
    BY DEF Shortening
  <1>3. ASSUME NEW n \in Exceptional
        PROVE /\ renamed[n] \in Aliases /\ renamed[n] \notin Claimed
              /\ \A m \in Smaller(n) : renamed[m] # renamed[n]
    <2>1. PICK k \in FirstFree(n, Claimed \cup {renamed[m] : m \in Smaller(n)}) :
            renamed[n] = hashed[n][k]
      BY <1>2 DEF Served
    <2>2. k \in 0 .. Attempts - 1 /\ hashed[n][k] \notin Claimed \cup {renamed[m] : m \in Smaller(n)}
      BY DEF FirstFree
    <2>3. hashed[n][k] \in Aliases
      BY <1>1, <2>2 DEF Tables, Spellings
    <2> QED BY <2>1, <2>2, <2>3
  <1>4. \A n \in Ordinary : renamed[n] \in Claimed /\ renamed[n] # None /\ renamed[n] \notin Declared
    BY <1>2 DEF Claimed, Ordinary
  <1>5. \A n \in Declared \cap Custom : renamed[n] \notin Declared \cup {None}
    BY <1>1, <1>3, <1>4 DEF Claimed, NameConstants
  <1>6. ASSUME NEW m \in Custom, NEW n \in Custom, renamed[m] = renamed[n], renamed[m] # None
        PROVE m = n
    <2>1. m \in Ordinary \cup Exceptional /\ n \in Ordinary \cup Exceptional
      BY <1>1, <1>2, <1>6
    <2>2. CASE m \in Ordinary /\ n \in Ordinary
      BY <1>1, <1>2, <1>4, <1>6, <2>2 DEF Tables, Spellings
    <2>3. CASE m \in Exceptional /\ n \in Exceptional
      <3>1. m \notin Smaller(n) /\ n \notin Smaller(m)
        BY <1>3, <1>6, <2>3
      <3> QED BY <1>1, <2>3, <3>1 DEF Smaller
    <2> QED BY <1>3, <1>4, <1>6, <2>1, <2>2, <2>3
  <1> QED BY <1>5, <1>6

LEMMA SendStep == ASSUME NameConstants, IInv, Send PROVE IInv'
  <1> USE DEF IInv
  <1>1. /\ phase = "shorten" /\ aliased = {} /\ phase' = "sent" /\ constants' = constants
        /\ UNCHANGED <<prefixed, hashed, tools, next, used, aliased, renamed, answer>>
    BY DEF Send, constants
  <1>2. /\ Declared' = Declared /\ Ordinary' = Ordinary /\ Exceptional' = Exceptional
        /\ Claimed' = Claimed /\ \A m : Smaller(m)' = Smaller(m)
    BY <1>1, SeenGrows
  <1>3. \A m \in Exceptional : Served(m)'
    BY <1>1, <1>2 DEF Shortening, Served, FirstFree
  <1>4. Shortening'
    BY <1>1, <1>2, <1>3 DEF Shortening
  <1>5. Tables'
    BY <1>1 DEF Tables, Spellings
  <1> QED BY <1>1, <1>4, <1>5 DEF Reserving, Prefixing, Restorable

LEMMA AnswerStep == ASSUME NameConstants, IInv, Answer PROVE IInv'
  <1> USE DEF IInv
  <1>1. /\ phase = "sent" /\ phase' = "told" /\ constants' = constants
        /\ UNCHANGED <<prefixed, hashed, tools, next, used, aliased, renamed>>
    BY DEF Answer, constants
  <1>2. PICK n \in Declared : \E m \in Restored(Rename(n)) : answer' = <<n, m>>
    BY DEF Answer
  <1>3. PICK m \in Restored(Rename(n)) : answer' = <<n, m>>
    BY <1>2
  <1>4. m = n
    <2>1. CASE n \in Custom
      BY <2>1, <1>1, <1>2, <1>3, OneToOne DEF Restored, Rename
    <2>2. CASE n \notin Custom
      <3>1. Rename(n) = n /\ n # None
        BY <2>2, <1>2 DEF Rename, Declared, Tables, NameConstants
      <3>2. \A l \in Custom : renamed[l] # n
        BY <1>1, <1>2, <3>1, OneToOne DEF Shortening
      <3> QED BY <1>3, <3>1, <3>2 DEF Restored
    <2> QED BY <2>1, <2>2
  <1>5. Restorable'
    BY <1>3, <1>4 DEF Restorable
  <1>6. /\ Declared' = Declared /\ Ordinary' = Ordinary /\ Exceptional' = Exceptional
        /\ Claimed' = Claimed /\ \A l : Smaller(l)' = Smaller(l)
    BY <1>1, SeenGrows
  <1>7. \A l \in Exceptional \ aliased : Served(l)'
    BY <1>1, <1>6 DEF Shortening, Served, FirstFree
  <1>8. Shortening'
    BY <1>1, <1>6, <1>7 DEF Shortening
  <1>9. Tables'
    BY <1>1 DEF Tables, Spellings
  <1> QED BY <1>1, <1>5, <1>8, <1>9 DEF Reserving, Prefixing

LEMMA NextInv == ASSUME NameConstants, IInv, [Next]_vars PROVE IInv'
  <1>1. CASE UNCHANGED vars
    <2>1. UNCHANGED <<prefixed, hashed, tools, phase, next, used, aliased, renamed, answer>>
      BY <1>1 DEF vars
    <2>2. Tables' /\ Restorable' /\ Reserving'
      BY <2>1 DEF IInv, Tables, Spellings, Restorable, Reserving, Seen
    <2>3. /\ Declared' = Declared /\ Ordinary' = Ordinary /\ Exceptional' = Exceptional
          /\ Claimed' = Claimed /\ Seen' = Seen
      BY <2>1 DEF Declared, Ordinary, Exceptional, Claimed, Seen
    <2>4. \A n : Smaller(n)' = Smaller(n)
      BY <2>3 DEF Smaller
    <2>5. Prefixing'
      BY <2>1, <2>3 DEF IInv, Prefixing, Once
    <2>6. \A n \in Exceptional \ aliased : Served(n) => Served(n)'
      BY <2>1, <2>3, <2>4 DEF Served, FirstFree
    <2>7. Shortening'
      BY <2>1, <2>3, <2>6 DEF IInv, Shortening
    <2> QED BY <2>2, <2>5, <2>7 DEF IInv
  <1> QED BY <1>1, ReserveStep, ReservedStep, SkipStep, PrefixStep, PrefixedStep, ShortenStep,
             SendStep, AnswerStep DEF Next
-----------------------------------------------------------------------------
LEMMA AliasesFollow == ASSUME NameConstants, IInv PROVE AliasesHold
  <1>1. SUFFICES ASSUME phase \in {"sent", "told"} PROVE OrderIndependent
    BY DEF IInv, AliasesHold, OrderIndependent
  <1>2. /\ aliased = {} /\ \A n \in Ordinary : renamed[n] = prefixed[n]
        /\ \A n \in Exceptional : Served(n)
    BY <1>1 DEF IInv, Shortening
  <1> QED BY <1>2 DEF OrderIndependent, Ordinary, Exceptional, Served, Smaller, Claimed

LEMMA InitTypes == ASSUME NameConstants, Init PROVE TypeOK
  <1>1. PICK n \in 1 .. MaxTools : tools \in [1 .. n -> Names]
    BY DEF Init
  <1>2. n \in Nat /\ 1 \in 1 .. MaxTools + 1
    BY DEF NameConstants
  <1>3. tools \in Seq(Names) /\ Len(tools) = n
    BY <1>1, <1>2
  <1> QED BY <1>2, <1>3 DEF Init, TypeOK

LEMMA NextTypes == ASSUME NameConstants, TypeOK, [Next]_vars PROVE TypeOK'
  <1>1. /\ DOMAIN tools = 1 .. Len(tools) /\ Len(tools) \in Nat /\ Len(tools) <= MaxTools
        /\ \A i \in DOMAIN tools : i + 1 \in 1 .. MaxTools + 1 /\ tools[i] \in Names
        /\ 1 \in 1 .. MaxTools + 1
    BY DEF TypeOK, NameConstants
  <1>2. CASE UNCHANGED vars
    BY <1>2 DEF vars, TypeOK, Spellings
  <1>3. CASE Reserve
    BY <1>1, <1>3 DEF Reserve, TypeOK, Spellings
  <1>4. CASE Reserved \/ Prefixed
    BY <1>1, <1>4 DEF Reserved, Prefixed, EndOfTools, TypeOK, Spellings
  <1>5. CASE Skip
    BY <1>1, <1>5 DEF Skip, TypeOK, Spellings
  <1>6. CASE Prefix
    <2> DEFINE n == tools[next]
    <2>1. /\ n \in Custom /\ next' \in 1 .. MaxTools + 1
          /\ UNCHANGED <<prefixed, hashed, tools, phase, answer>>
      BY <1>1, <1>6 DEF Prefix
    <2>2. CASE Taken(n)
      <3>1. aliased' = aliased \cup {n} /\ UNCHANGED <<renamed, used>>
        BY <1>6, <2>2 DEF Prefix
      <3> QED BY <2>1, <3>1 DEF TypeOK, Spellings
    <2>3. CASE ~Taken(n)
      <3>1. /\ renamed' = [renamed EXCEPT ![n] = prefixed[n]]
            /\ used' = used \cup {prefixed[n]} /\ UNCHANGED aliased
        BY <1>6, <2>3 DEF Prefix
      <3>2. prefixed[n] \in Aliases
        BY <2>1, <2>3 DEF Taken, TypeOK, Spellings
      <3> QED BY <2>1, <3>1, <3>2 DEF TypeOK, Spellings
    <2> QED BY <2>2, <2>3
  <1>7. CASE Shorten
    <2>1. PICK n \in aliased : \E k \in FirstFree(n, used) :
            /\ renamed' = [renamed EXCEPT ![n] = hashed[n][k]]
            /\ used' = used \cup {hashed[n][k]}
            /\ aliased' = aliased \ {n}
      BY <1>7 DEF Shorten
    <2>2. PICK k \in FirstFree(n, used) :
            /\ renamed' = [renamed EXCEPT ![n] = hashed[n][k]]
            /\ used' = used \cup {hashed[n][k]}
            /\ aliased' = aliased \ {n}
      BY <2>1
    <2>3. n \in Custom /\ k \in 0 .. Attempts - 1 /\ hashed[n][k] \in Aliases
      <3>1. n \in Custom /\ hashed \in [Custom -> [0 .. Attempts - 1 -> Aliases]]
        BY DEF TypeOK, Spellings
      <3>2. k \in 0 .. Attempts - 1
        BY DEF FirstFree
      <3> QED BY <3>1, <3>2
    <2>4. UNCHANGED <<prefixed, hashed, tools, phase, next, answer>>
      BY <1>7 DEF Shorten
    <2>5. renamed' \in [Custom -> Aliases \cup {None}]
      BY <2>2, <2>3 DEF TypeOK
    <2>6. used' \subseteq Names \cup Aliases
      BY <2>2, <2>3 DEF TypeOK
    <2>7. aliased' \subseteq Custom
      BY <2>2 DEF TypeOK
    <2> QED BY <2>4, <2>5, <2>6, <2>7 DEF TypeOK, Spellings
  <1>8. CASE Send
    BY <1>8 DEF Send, TypeOK, Spellings
  <1>9. CASE Answer
    <2>1. PICK n \in Declared : \E m \in Restored(Rename(n)) : answer' = <<n, m>>
      BY <1>9 DEF Answer
    <2>2. PICK m \in Restored(Rename(n)) : answer' = <<n, m>>
      BY <2>1
    <2>3. n \in Names
      BY <1>1 DEF Declared
    <2>4. Rename(n) \in Names \cup Aliases
      BY <2>3 DEF Rename, TypeOK
    <2>5. m \in Names \cup Aliases
      BY <2>4 DEF Restored, Names
    <2> QED BY <1>9, <2>2, <2>3, <2>5 DEF Answer, TypeOK, Spellings
  <1> QED BY <1>2, <1>3, <1>4, <1>5, <1>6, <1>7, <1>8, <1>9 DEF Next

(* The names of a call's tools come back as the client declared them, and  *)
(* every alias is a function of the set of declared names: whatever names  *)
(* are declared and whichever of them, of the prefixed and of the hashed   *)
(* ones coincide (tool_names.go, experimentalToolAliases).                 *)
THEOREM ToolNamesComeBack == ASSUME NameConstants PROVE Spec => []AliasesHold
  <1>1. Init => IInv
    BY InitInv
  <1>2. IInv /\ [Next]_vars => IInv'
    BY NextInv
  <1>3. IInv => AliasesHold
    BY AliasesFollow
  <1> QED BY <1>1, <1>2, <1>3, PTL DEF Spec
===========================================================================
