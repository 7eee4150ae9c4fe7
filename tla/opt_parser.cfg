\* Command lines of up to three words after up to three registrations.
CONSTANTS
  Options <- MCOptions
  Name <- MCName
  Type <- MCType
  Tokens <- MCTokens
  Lines <- MCLines
  Narrow = 3
  Wide = 5
  Parts = 2
  Untouched = Untouched
  MaxAdds = 3
SPECIFICATION Spec
INVARIANTS
  TypeOK
  ParsedAsRead
  NumbersExact
  FailureIsClean
  UsageCurrent
\* A command line is parsed once.
CHECK_DEADLOCK FALSE
