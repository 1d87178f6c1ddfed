SPECIFICATION Spec
CONSTANTS
  Images <- MCImages
  MaxTextures = 6
  Fields <- MCFields
  Order <- MCOrder
  References <- MCReferences
  Width = 3
  Height = 2
  Screens <- MCScreens
  MaxShown = 2
  GilMaxContexts = 1
  GilMaxTextures = 4
  Colours <- MCColours
  Fixed <- MCFixed
  Unknown <- MCUnknown
  DummyMaxTextures = 6
  MaxBlits = 255
INVARIANTS
  DisplayTypeOK
  ShownAsDescribed
  VerifiedIsOnScreen
  DoubleAgrees
  SlotsKeepTheirImage
  UnloadedEndsProcess
PROPERTIES
  WritesStayInside
CHECK_DEADLOCK FALSE
