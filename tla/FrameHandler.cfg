SPECIFICATION Spec
CONSTANTS
  Window = Window
  Frame = Frame
  contentPanel = contentPanel
  referencePanel = referencePanel
  icon = icon
  reference = reference
  Panels = {contentPanel, referencePanel}
  BitmapFields = {icon}
  ReferenceFields = {reference}
  PanelOf <- MCPanelOf
  DdhVisible <- MCDdhVisible
  Databases <- MCDatabases
  MaxErrors = 2
INVARIANTS
  CleanMeansCurrent
  CleanMeansReported
PROPERTIES
  ErrorsOnlyCleared
