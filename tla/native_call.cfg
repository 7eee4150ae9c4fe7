\* Two's complement in 12 bits; three regions that users add and remove.
CONSTANTS
  Width = 12
  Uids <- ReportedUids
  Garbage = Garbage
  Strings <- Texts
  Null = Null
  NotObject = NotObject
  NotArray = NotArray
  Layouts <- ScriptLayouts
  Joins <- ScriptJoins
  MaxRegions = 3
  m_resolutionMap <- BitRates
SPECIFICATION Spec
INVARIANTS
  TypeOK
  UsersSurvive
  GarbageContained
  JoinFaithful
  KeyOptional
\* A process that has ended does nothing more.
CHECK_DEADLOCK FALSE
