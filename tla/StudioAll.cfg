\* Two elements, one of them from the start, two looks, two rows.
SPECIFICATION FairSpec
CONSTANTS
  Elements = {e, f}
  Given = {e}
  Looks = {plain, bold}
  Plain = plain
  Designs = {a, b}
  None = None
  Cap = 2
  MaxOpens = 1
  MaxLists = 2
  Budgets <- Visits
INVARIANTS
  TypeOK
  HistoryBounded
  SelectionLives
  LoadedIsHome
  GalleryCurrent
PROPERTY
  SaveEnds
CHECK_DEADLOCK FALSE
