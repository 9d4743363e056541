\* Bounds: two edits and two sessions.
CONSTANTS
  Docs <- MCDocs
  Read <- MCRead
  Loadable <- MCDocs
  Foreign <- MCForeign
  NoText = NoText
  NoDir = NoDir
  MaxChanges = 2
  MaxSessions = 2
  OneRace = TRUE
SPECIFICATION Spec
INVARIANT
  CrashLosesOneEdit
CHECK_DEADLOCK FALSE
