\* One client against every fault and against pairs, two against the counted ones.
SPECIFICATION Spec
CONSTANTS
  c1 = c1
  c2 = c2
  Clients = {c1, c2}
  Workers = 2
  Campaigns <- ThreeCampaigns
  Frames <- TwoFrames
  Bins <- ThreeBins
  MaxBin = 2
  Counts <- TwoCounts
  MaxCount = 2
INVARIANTS TypeOK AsServed SinkContract
PROPERTY PatternsCount
