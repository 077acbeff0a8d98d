\* Two requests for the balance at the same time, no failed payouts.
SPECIFICATION Spec
CONSTANTS
  Handlers = {h1, h2}
  PayoutIds = {p1, p2}
  Tipped = {1000}
  Referrals = {}
  PlatformBp = 300
  ServiceBp = 300
  CommissionBp = 100
  Asked = {0, 940}
  MaxEarned = 940
  MaxRevived = 0
  Everything = Everything
INVARIANT NeverOverdrawn
CHECK_DEADLOCK FALSE
