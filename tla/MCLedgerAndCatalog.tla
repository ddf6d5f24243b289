------------------------ MODULE MCLedgerAndCatalog ------------------------
(* Instances for TLC of the two parts with a goroutine that must get things done: the *)
(* usage ledger and the catalogue of models.  They share no state, so a behaviour is  *)
(* one of one part, the other left as it begins, and the fairness of each is asked of *)
(* the part the behaviour is one of.                                                  *)
EXTENDS Ledger

CONSTANTS Access, Client, MaxModel, Limit, MaxPages, MaxChanges

VARIABLES
  part,
  published, usable, trouble, changes, entries, fresh, failedAt, lastErr, inflight,
  read, pc, policy, walk, answer

catalogVars == <<published, usable, trouble, changes, entries, fresh, failedAt, lastErr,
                 inflight, read, pc, policy, walk, answer>>

Catalog == INSTANCE ModelCatalog

AnyPart == part \in {"ledger", "catalog"} /\ Init /\ Catalog!Init
OnePart ==
  /\ UNCHANGED part
  /\ IF part = "ledger" THEN Next ELSE UNCHANGED vars
  /\ IF part = "catalog" THEN Catalog!Next ELSE UNCHANGED catalogVars

LedgerFairness ==
  /\ SF_vars(part = "ledger" /\ Flush) /\ SF_vars(part = "ledger" /\ FinalFlush)
  /\ WF_vars(part = "ledger" /\ Work)
CatalogFairness ==
  /\ \A a \in Access : /\ WF_catalogVars(part = "catalog" /\ Catalog!Goroutine(a))
                       /\ WF_catalogVars(part = "catalog" /\ Catalog!Expire(a))
                       /\ WF_catalogVars(part = "catalog" /\ Catalog!RetryDelayEnds(a))
  /\ \A c \in Client : /\ WF_catalogVars(part = "catalog" /\ Catalog!Begin(c))
                       /\ WF_catalogVars(part = "catalog" /\ Catalog!List(c))
                       /\ WF_catalogVars(part = "catalog" /\ Catalog!ListAgain(c))
                       /\ WF_catalogVars(part = "catalog" /\ Catalog!GiveUp(c))
PartsSpec ==
  /\ AnyPart /\ [][OnePart]_<<part, vars, catalogVars>>
  /\ LedgerFairness /\ CatalogFairness

\* There is a model to begin with, and a page holds one.
ASSUME CatalogConstants ==
  /\ MaxModel \in Nat \ {0} /\ Limit \in Nat \ {0}
  /\ MaxPages \in Nat \ {0} /\ MaxChanges \in Nat

\* Every variable has its type, as the parts' own invariants say.
PartsTypeOK == TypeOK /\ Catalog!TypeOK
\* ModelCatalog: no answer is empty without an error, and pages of lists that were
\* read at different times fit together.
AnswersAreWhole == Catalog!NeverEmptyAnswer /\ Catalog!WalkComplete
\* ModelCatalog: once all is well for good, what is published is served.
ModelsServed == part = "catalog" => Catalog!ModelsServed
===========================================================================
