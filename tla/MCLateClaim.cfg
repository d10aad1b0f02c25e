CONSTANTS
  Requests = {"r1", "r2"}
  Events = {"f1", "f2", "c1", "l1"}
  Kind <- ShopKind
  Payments = {"p1", "p2"}
  Subject <- ShopSubject
  Reference <- ShopReference
  Customer <- OneCustomer
  NoCustomer = "nobody"
  Bucket <- Hashes
  Amount <- Prices
  ControlPercentage = 0
  MaxAttempts = 2
  MaxFaults = 0
SPECIFICATION Spec
PROPERTIES OnlyFailedPursued
