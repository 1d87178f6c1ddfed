SPECIFICATION LoopSpec
CONSTANTS
  Window = Window
  Frame = Frame
  contentPanel = contentPanel
  referencePanel = referencePanel
  contentAirbag = contentAirbag
  contentBreak = contentBreak
  referenceAirbag = referenceAirbag
  referenceBreak = referenceBreak
  boolean = boolean
  Airbag = Airbag
  Break = Break
  AirbagId = AirbagId
  BreakOnId = BreakOnId
  BreakOffId = BreakOffId
  Panels = {contentPanel, referencePanel}
  BitmapFields = {contentAirbag, contentBreak}
  ReferenceFields = {referenceAirbag, referenceBreak}
  PanelOf <- MCPanelOf
  DdhVisible <- MCDdhVisible
  Databases <- MCSoundDatabase
  MaxErrors = 4
  Ids = {AirbagId, BreakOnId, BreakOffId}
  ForeignIds = {}
  Types = {boolean}
  Values = {0, 1}
  TypeOfId <- MCTypeOfId
  Timeout <- MCTimeout
  ClockMod = 1
  AgeCap = 1
  Content <- MCContent
  Reference <- MCReference
  Limit <- MCLimit
  FedIds = {AirbagId, BreakOnId, BreakOffId}
  GilErrors = {14}
INVARIANTS
  BreakFollowsItsFlags
