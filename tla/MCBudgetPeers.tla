--------------------------- MODULE MCBudgetPeers ---------------------------
(***************************************************************************)
(* What gateway replicas know of each other's spend, on small instances:   *)
(* two replicas of HardBudget that admit, publish and fold, and the Pods   *)
(* of BudgetExchange with the reducer.  focus names the part that runs,    *)
(* and the other rests in its initial state.                               *)
(***************************************************************************)
EXTENDS HardBudget, TLC

CONSTANTS
  Retired, Cost, MaxSpend, MaxFaults,  \* BudgetExchange
  ExchangeCent, ExchangePeriod         \* its Cent and PeriodLength

VARIABLES
  focus,
  clock, pod, created, partials, canonical, usage, pass, published, late, restarts

Exchange == INSTANCE BudgetExchange WITH
  Pods <- Replicas, Cent <- ExchangeCent, PeriodLength <- ExchangePeriod,
  now <- clock, data <- partials

ASSUME ConstantsAssumption == Exchange!BudgetExchangeAssumption

exchangeVars == <<clock, pod, created, partials, canonical, usage, pass, published, late, restarts>>

PeersInit == focus \in {"admission", "exchange"} /\ Init /\ Exchange!Init

\* The clock of the exchange ends.
ClockEnds == focus = "exchange" /\ clock = MaxTime /\ UNCHANGED <<focus, vars, exchangeVars>>

PeersNext ==
  \/ focus = "admission" /\ Next /\ UNCHANGED <<focus, exchangeVars>>
  \/ focus = "exchange" /\ Exchange!Next /\ UNCHANGED <<focus, vars>>
  \/ ClockEnds

\* States are told apart by all but usage, a report that nothing here reads.
View == <<focus, vars, clock, pod, created, partials, canonical, pass, published, late, restarts>>

Symmetry == Permutations(Replicas) \cup Permutations(Namespaces)

PeersSpec == PeersInit /\ [][PeersNext]_<<focus, vars, exchangeVars>>

-----------------------------------------------------------------------------

\* What Pods have published is in the ConfigMap, once, whoever prunes and folds
\* when.
PublishedSpendAccounted == focus = "exchange" => Exchange!PublishedSpendAccounted
=============================================================================
