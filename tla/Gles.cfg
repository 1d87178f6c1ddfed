SPECIFICATION GlesSpec
CONSTANTS
  Places <- MCPlaces
  Names <- MCNames
  Looks <- MCLooks
  Lamps <- MCLamps
  Expected <- MCExpected
  FaultSets <- MCFaultSets
  Images <- MCImages
  MaxTextures = 2
INVARIANTS
  GlesTypeOK
  SetupFailureShows
  VerdictTells
  LeaksOnlyOnFailure
PROPERTIES
  GlErrorsAreTold
CHECK_DEADLOCK FALSE
