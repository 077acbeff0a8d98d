\* Is a 409 always about a page of this user?
SPECIFICATION OnboardSpec
INVARIANT ConflictIsOwn
CHECK_DEADLOCK FALSE
