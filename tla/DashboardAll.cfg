\* Three tabs, two posts, two jars, two tips; each tab on its own.
SPECIFICATION Spec
CONSTANTS
  Tabs = {overview, tips, transactions}
  Home = overview
  Linked = {tips, transactions}
  NoTab = none
  OddTab = odd
  MaxMoves = 3
  Kept = {city}
  Plain = {tagline}
  Pictures = {avatar}
  Bank = bank
  Filled = {given}
  MaxVisits = 2
  MaxChanges = 3
  Tips = {t, u}
  NoTip = none
  Texts = {x}
  NoText = none
  MaxThanks = 3
  MaxUpdates = 2
  MaxTxns = 2
  MaxPayouts = 2
  RowLimit = 1
  Posts = {p, q}
  NoPost = none
  New = new
  Stray = stray
  JarIds = {coffee, camera}
  Goal = 1
  MaxLoads = 2
  MaxWishes = 2
  TipIds = {a, b}
  Hours = 3
  Ahead = 1
  Zones <- AllZones
  LastDay = 4
  ServerSpan = 2
  Ranges = {1, 4}
  ListCap = 1
INVARIANTS
  TabFollowsUrl
  PromiseKept
  SentMeansThanked
  ThankedOnce
  MailedOnce
  FiguresAgree
  PostsAsMeant
  JarsShown
  CompletedIsFull
  SeriesCounts
PROPERTY
  SavesOnlyEdits
CHECK_DEADLOCK FALSE
