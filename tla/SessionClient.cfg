\* One tab, two sessions, every operation, fairly answered.
CONSTANTS
  Sessions = {s1, s2}
  Calls = {c1}
  None = None
  Operations = {"join", "push", "accept", "edit", "reject", "leave"}
  MaxChanges = 2
  MaxNews = 1

SPECIFICATION FairSpec

INVARIANTS
  GraphEventsAreLoaded
  InStepAtRest
  ShowsItsSession

PROPERTY QueueDrains
