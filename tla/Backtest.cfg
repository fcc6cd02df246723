SPECIFICATION Spec
CONSTANTS
  Candidates <- MCCandidates
  Market <- MCMarket
  MaxBars <- MCMaxBars
  Fee <- MCFee
INVARIANTS
  CrossesAlternate SignalsFollowHistory ReadingsInRange
  EquityIsTradeProduct DrawdownIsWorstLoss
CHECK_DEADLOCK FALSE
