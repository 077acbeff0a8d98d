\* One order that expires before its payer pays.
SPECIFICATION Spec
CONSTANTS
  Orders = {o1}
  Charges = {}
  Handlers = {h1}
  Referred = {}
  Requests = {10000}
  FallsShort = {}
  MinTip = 10000
  MayOmitAmount = FALSE
  NoRef = NoRef
PROPERTY OnlyPendingIsActedOn
CHECK_DEADLOCK FALSE
