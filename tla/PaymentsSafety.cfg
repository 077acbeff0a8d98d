\* Two orders and a simulated capture; a request below the minimum, one of
\* whole cents, and half cents recorded below and above what is asked for.
SPECIFICATION Spec
CONSTANTS
  Orders = {o1, o2}
  Charges = {c1}
  Handlers = {h1, h2, h3}
  Referred = {o1, c1}
  Requests = {9995, 10000, 10125, 16115}
  FallsShort = {16115}
  MinTip = 10000
  MayOmitAmount = FALSE
  NoRef = NoRef
SYMMETRY Symmetry
INVARIANTS
  TypeOK
  EffectsOnceAndEarned
  CompletedWasPaid
  EffectsAccountedFor
\* Every payment may be completed and delivered.
PROPERTY
  LedgerSpec
CHECK_DEADLOCK FALSE
