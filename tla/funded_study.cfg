\* One publisher, interrupted once, and the tear sheet's three accounts over what was loaded.
SPECIFICATION Spec
CONSTANTS
  Writers = {w1}
  Histories <- MCHistories
  Vendors <- MCVendors
  Years <- MCYears
  AdHocClosures = {}
  DeclaredLag <- NoLag
  LagCited = FALSE
  MaxFaults = 2
  Capital = 100
  Commission = 12
  Shares = 2
  CostPct = 10
  Liquidate = TRUE
INVARIANTS
  LoadsOneSnapshot
  BooksBalance
  AuditAgrees
  RandomTripsMatch
PROPERTY
  SplitsKeepWorth
