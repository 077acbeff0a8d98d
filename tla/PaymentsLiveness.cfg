\* One order at a time is enough for progress: orders share no state but the
\* handler slots, of which there are two.
SPECIFICATION FairSpec
CONSTANTS
  Orders = {o1, o2}
  Charges = {}
  Handlers = {h1, h2}
  Referred = {o1}
  Requests = {10000}
  FallsShort = {}
  MinTip = 10000
  MayOmitAmount = TRUE
  NoRef = NoRef
PROPERTIES
  PaidIsCompleted
  CompletedIsShown
\* The payment may be completed and delivered.
CHECK_DEADLOCK FALSE
