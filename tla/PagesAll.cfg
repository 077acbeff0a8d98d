\* Each page on its own: two windows, users, codes and admins, three acts.
SPECIFICATION Spec
CONSTANTS
  OtpPages = {p, q}
  MaxRequests = 2
  Accounts = {ann, bob}
  NoOne = none
  Windows = {left, right}
  MaxSigns = 2
  RefCodes = {real, fake}
  RealCodes = {real}
  NoCode = none
  MaxLookups = 3
  Amounts = {5, 20, 50}
  MaxAmounts = 3
  MaxTries = 3
  Emails = {e, f}
  Tippers = {e}
  Tiers = {silver, gold}
  Locked = locked
  MaxCalls = 3
  Admins = {a, b}
  NoDoc = none
  MaxUploads = 3
  MaxAbandoned = 1
  Clerks = {c, d}
  RowIds = {r, s}
  NoRow = none
  MaxActs = 3
SYMMETRY Alike
INVARIANTS
  SpentOnce
  OneActive
  SameIdentity
  StatusOfCode
  WizardComplete
  QuoteIsOfAmount
  SettledIsTrue
  VaultCurrent
  VerifiedAsSeen
  TwiceOnlyStale
CHECK_DEADLOCK FALSE
