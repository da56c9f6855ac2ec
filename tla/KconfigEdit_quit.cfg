SPECIFICATION Spec
CONSTANTS
  Bool <- MCBool
  Int <- MCInt
  Choice <- MCChoice
  Menu <- MCMenu
  Children <- MCChildren
  Members <- MCMembers
  Prompted <- MCPrompted
  Prompt <- MCPrompt
  RevDep <- MCRevDep
  Default <- MCDefault
  Range <- MCRange
  MaxNumber = 3
  Missing = Missing
  Saved <- MCSaved
  Orders <- MCOrders
  Package = {"DROPBEAR", "VFP"}
  Randoms <- MCRandoms
  MaxSessions = 1
  MaxEdits = 1
PROPERTY AskedBeforeQuitting
