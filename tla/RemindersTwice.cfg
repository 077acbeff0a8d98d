\* One account, two sweeps, none of them cut short.
SPECIFICATION Spec
CONSTANTS
  Users = 1
  Sweeps = {cron, trigger}
  MaxUnrecorded = 0
INVARIANT OneEmailEver
