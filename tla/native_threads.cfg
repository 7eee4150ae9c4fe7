\* Two users and up to four callbacks, with a release at any moment.
CONSTANTS
  u1 = u1
  u2 = u2
  Uids <- TwoUids
  Stray = Stray
  MaxReports = 4
SPECIFICATION FairSpec
INVARIANTS
  TypeOK
  BadCallOvertaken
  LayoutSettles
PROPERTY
  ReleaseEnds
\* The engine begins no more callbacks after MaxReports.
CHECK_DEADLOCK FALSE
