\* Bounds: two changes (edits, or writes by others) and two sessions.
CONSTANTS
  Docs <- MCDocs
  Read <- MCRead
  Loadable <- MCDocs
  Foreign <- MCForeign
  NoText = NoText
  NoDir = NoDir
  MaxChanges = 2
  MaxSessions = 2
  OneRace = TRUE
SPECIFICATION Spec
INVARIANTS
  RecoveryIsCurrent
  NoTornResume
  StopKeepsItsWord
PROPERTIES
  ReplacesWhatItKnows
  SavedWasReviewed
CHECK_DEADLOCK FALSE
