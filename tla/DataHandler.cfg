SPECIFICATION DataSpec
CONSTANTS
  lamp = lamp
  speed = speed
  unknown = unknown
  boolean = boolean
  integer = integer
  Ids = {lamp, speed}
  ForeignIds = {unknown}
  Types = {boolean, integer}
  Values = {0, 1}
  TypeOfId <- MCTypeOfId
  Timeout <- MCTimeout
  ClockMod = 4
  AgeCap = 6
INVARIANTS
  ElapsedIsAge
  AgesOnTime
PROPERTIES
  StaysAgedOut
