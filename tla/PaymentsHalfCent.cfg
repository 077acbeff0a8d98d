\* A request for R100.125: half a cent on top of an even number of cents.
SPECIFICATION Spec
CONSTANTS
  Orders = {o1}
  Charges = {}
  Handlers = {h1}
  Referred = {}
  Requests = {10000, 100125}
  FallsShort = {}
  MinTip = 10000
  MayOmitAmount = FALSE
  NoRef = NoRef
INVARIANT WebhookCanMatch
CHECK_DEADLOCK FALSE
