\* A page with two requests under way and three scans.
SPECIFICATION FairSpec
CONSTANTS
  Fetches = {1, 2}
  MaxScans = 3
INVARIANTS
  ButtonFollows
  NothingMissed
PROPERTIES
  OutcomeIsShown
  PollsEnd
