\* Two deliveries of one head, whose workers crash and run past their leases.
CONSTANTS
  d1 = d1
  d2 = d2
  p1 = p1
  h1 = h1
  f1 = f1
  f2 = f2
  x = x
  y = y
  w1 = w1
  w2 = w2
  NoDelivery = NoDelivery
  Deliveries = {d1, d2}
  Event <- OpenedReopened
  Files = {f1, f2}
  Diffs = {x, y}
  Snapshots <- BaseMoves
  Workers = {w1, w2}
  MaxAttempts = 2
  LeaseTerm = 1
SPECIFICATION FairSpec
INVARIANTS
  TypeOK
  OneIngestor
  JobsMatchSnapshots
  CompletedCoversFiles
  ProjectionIsNewest
PROPERTIES
  OnlyOwnerRecords
  RecordsAreFinal
  DeliveriesSettle
