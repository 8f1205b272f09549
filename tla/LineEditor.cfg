SPECIFICATION Spec
CONSTANTS
  MaxCmdLen = 1
  MaxHistory = 2
  PasteLen = 5
  Commands <- MCCommands
  Directory <- MCDirectory
  Users <- MCUsers
  Clipboards <- MCClipboards
INVARIANTS CandidatesExact
PROPERTIES TextConserved HistoryExact
