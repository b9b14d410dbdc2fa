SPECIFICATION FairSpec
CONSTANTS
  StateName = {"a", "b", "c", "new", "in_progress", "completed"}
  Role = {"manager"}
  NoLimit = NoLimit
  Omitted = Omitted
  Blank = Blank
  Bad = Bad
  Documents <- MCDocuments
INVARIANTS
  TypeOK
  AcceptsWellFormed
  
  StoredReadsBack
PROPERTIES
  ParseReturns
\* Parsing ends: ParseReturns says with what.
CHECK_DEADLOCK FALSE
