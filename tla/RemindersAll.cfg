\* Two accounts, the cron job and the trigger endpoint.
SPECIFICATION FairSpec
CONSTANTS
  Users = 2
  Sweeps = {cron, trigger}
  MaxUnrecorded = 1
INVARIANTS
  TypeOK
  EmailsExplained
  RemindedWasEmailed
PROPERTY
  EveryoneIsReminded
