CONSTANTS
  Requests = {"r1", "r2"}
  Events = {"f1", "f2", "c1", "o1", "l1", "x1"}
  Kind <- OrderKind
  Payments = {"p1", "p2"}
  Subject <- OrderSubject
  Reference <- ShopReference
  Customer <- UnknownPayer
  NoCustomer = "nobody"
  Bucket <- Hashes
  Amount <- Prices
  ControlPercentage = 50
  MaxAttempts = 2
  MaxFaults = 1
SPECIFICATION FairSpec
INVARIANTS TypeOK HandledOnce HandledWhole CaptureSticks ControlUntouched LossIsOnRecord
PROPERTIES EveryEventServed MetricsOnlyGrow KeepsDelivery
