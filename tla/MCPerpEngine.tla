---------------------------- MODULE MCPerpEngine ----------------------------
(***************************************************************************)
(* Small instances of PerpEngine.                                          *)
(***************************************************************************)
EXTENDS PerpEngine

CONSTANTS u, k, m1, m2

\* Maintenance 2/10, fee 1/10, of a size of 2 or 4.
Config(feed, paused) ==
  [feed |-> feed, initialMarginBps |-> 5, maintenanceMarginBps |-> 2,
   maxLeverageBps |-> 2, maxFundingBps |-> 1, liquidationFeeBps |-> 1,
   minSize |-> 2, maxSize |-> 4, paused |-> paused]

LiveMarkets == {Config("ADA", FALSE)}

\* From either price the other ruins a position at leverage 2.
TwoPrices == [ADA |-> {60, 100}, MATRA |-> {5, 10}]

\* u trades or keeps, k only has enough for one bond.
Purses == [a \in Accounts |-> IF a = u THEN 10 ELSE 7]

=============================================================================
