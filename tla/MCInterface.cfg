SPECIFICATION InterfaceSpec
CONSTANTS
  Terminals <- SomeTerminals
  SidebarWidth = 40
  AtStart = 2
  BranchWidth = 30
  Options = 3
  MaxItems = 2
  GiveUpAfter = 2
  MaxChanges = 2
INVARIANT GivesUpOnlyWhenTiny
INVARIANT OneSelection
INVARIANT SelectionIsDrawn
PROPERTY SizesAgree
PROPERTY FocusStaysOnAPane
CHECK_DEADLOCK FALSE
