CONSTANTS
  k1 = k1
  k2 = k2
  w1 = w1
  w2 = w2
  w3 = w3
  w4 = w4
  w5 = w5
  w6 = w6
  Chunks = {k1, k2}
  Workers = {w1, w2, w3, w4, w5, w6}
  StageOf <- SecondEnhancer
  MaxFaults = 1
SPECIFICATION FairSpec
INVARIANTS  OnItsWay
PROPERTIES  StagesKeepPromise 
