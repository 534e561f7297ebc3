--------------------------- MODULE MCRiskMonitor ---------------------------
(***************************************************************************)
(* Small instances of RiskMonitor.  The ticks keep the order               *)
(*   0 < 5 min < the TTL (15) < 30 < 60 = the deadline < 120 < 240.        *)
(***************************************************************************)
EXTENDS RiskMonitor

CONSTANTS w1, w2, a1, a2, engine, other, c1, c2, l1, l2

OneWallet   == {w1}
TwoWallets  == {w1, w2}
OneKey      == {a1}
TwoKeys     == {a1, a2}
EngineIssuedOne == [a \in OneKey |-> engine]
OneForeign  == [a \in TwoKeys |-> IF a = a1 THEN engine ELSE other]
Keys        == {engine, other}
OneCaller   == {c1}
TwoCallers  == {c1, c2}
OneLoop     == {l1}
TwoLoops    == {l1, l2}
NoLoops     == {}

CriticalBoth == [score |-> 95, categories |-> {"Sanctions"}, sources |-> DataSource]
MediumProfile == [score |-> 60, categories |-> {}, sources |-> DataSource]

CriticalOnly == {CriticalBoth}
RevokeOrFlag == {CriticalBoth, MediumProfile}

OneTick    == [m \in Minutes |-> IF m <= 5 THEN 0 ELSE 1]
ScaledTicks == [m \in Minutes |-> CASE m = 0 -> 0 [] m = 5 -> 1 [] m = 30 -> 3
                                    [] m = 60 -> 4 [] m = 120 -> 5 [] m = 240 -> 6]

(* One hour is four ticks of ScaledTicks.                                  *)
CriticalDeadlineMet == RevokedInTime(4)

=============================================================================
