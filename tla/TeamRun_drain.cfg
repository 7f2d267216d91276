SPECIFICATION FairSpec
CONSTANTS
  TaskCount = 2
  MemberCount = 2
  EntryPoints = {"_arun_stream"}
  ToAllChoices = {TRUE}
  StickyChoices = {FALSE}
  MaxRetries = 0
  Keys = {"count", "note"}
  InitialKeys = {"count"}
  Absent = Absent
PROPERTIES DelegationEnds
CHECK_DEADLOCK FALSE
