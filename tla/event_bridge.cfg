\* Four reports, with the script interfering at any moment.
CONSTANTS
  EventNames <- Names
  Data = {1, 2}
  NoSpeakers = 0
  MaxReports = 3
SPECIFICATION FairSpec
INVARIANTS
  TypeOK
  StreamFaithful
  NothingHeardTwice
PROPERTIES
  JoinSettles
  AllHeard
\* The engine may leave or fail, and the script have nothing left to do.
CHECK_DEADLOCK FALSE
