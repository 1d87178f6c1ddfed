SPECIFICATION Spec
CONSTANTS
  PoolSize = 3
  MaxDamages = 1
INVARIANTS
  SoundPoolWorks
  HeadIsUnowned
PROPERTIES
  ImplementsPool
