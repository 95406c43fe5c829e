--------------------------- MODULE BudgetPartials ---------------------------
(***************************************************************************)
(* The wire format of the budget counter exchange, shared by the gateway   *)
(* replicas and the ModelProviderReconciler.  Each replica keeps one key   *)
(* of the ConfigMap kaalm-budget-{provider}, named after its Pod; the      *)
(* value is a partial: a period tag and the replica's spend per namespace, *)
(* in dollars with two decimals.                                           *)
(***************************************************************************)
EXTENDS Sums

CONSTANTS
  Namespaces,     \* namespaces that spend
  Cent,           \* ledger units per cent, the resolution of a partial
  PeriodLength    \* clock units per budget period

ASSUME PartialsAssumption ==
  /\ IsFiniteSet(Namespaces)
  /\ Cent \in Nat \ {0}
  /\ PeriodLength \in Nat \ {0}

Spend == [Namespaces -> Nat]

\* An empty Go map: absent and zero are the same, every recorded cost is > 0.
NoSpend == [ns \in Namespaces |-> 0]

\* The periods that exist are the days, weeks or months since the start.
PeriodKey(t) == t \div PeriodLength

\* strconv.FormatFloat(v, 'f', 2, 64): the nearest whole number of cents.
Cents(v) == ((v + Cent \div 2) \div Cent) * Cent

RoundSpend(spend) == [ns \in Namespaces |-> Cents(spend[ns])]

NoPartial == [period |-> 0, spend |-> NoSpend, present |-> FALSE]

Partial == [period : Nat, spend : Spend, present : BOOLEAN]

MakePartial(period, spend) ==
  [period |-> period, spend |-> RoundSpend(spend), present |-> TRUE]

\* The keys of data that carry spend of the given period.
KeysOf(data, keys, period) ==
  {k \in keys : data[k].present /\ data[k].period = period}

SumPartials(data, keys) ==
  [ns \in Namespaces |-> Total([k \in keys |-> data[k].spend[ns]], keys)]

\* Mutant: the replica's own key is summed too.
FoldEveryPartial(data, own, currentPeriod) ==
  SumPartials(data, KeysOf(data, DOMAIN data, currentPeriod))

\* The peer view of the replica that owns key own: every current partial but
\* its own, the _retired accumulator included.
FoldPartials(data, own, currentPeriod) ==
  SumPartials(data, KeysOf(data, DOMAIN data \ {own}, currentPeriod))
=============================================================================
