\* Two requests at a time, and one failed payout that may be taken back.
SPECIFICATION Spec
CONSTANTS
  Handlers = {h1, h2}
  PayoutIds = {p1, p2, p3, p4}
  Tipped = {1000}
  Referrals = {94000}
  PlatformBp = 300
  ServiceBp = 300
  CommissionBp = 100
  Asked = {0, 940}
  MaxEarned = 1880
  MaxRevived = 1
  Everything = Everything
SYMMETRY Symmetry
INVARIANTS
  TypeOK
  OverdraftExplained
\* The creator may have nothing left and the table no room.
CHECK_DEADLOCK FALSE
