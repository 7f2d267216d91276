SPECIFICATION FairSpec
CONSTANTS
  TaskCount = 2
  MemberCount = 2
  EntryPoints <- AllFunctions
  ToAllChoices = {TRUE, FALSE}
  StickyChoices = {TRUE, FALSE}
  MaxRetries = 1
  Keys = {"count", "note"}
  InitialKeys = {"count"}
  Absent = Absent
INVARIANTS
  CancelIsHonoured
  MembersAreRecorded
  NoMemberIsLeft
  StateKeepsWrites
PROPERTIES
  ImplementsLifecycle
  TeamRunEnds
CHECK_DEADLOCK FALSE
