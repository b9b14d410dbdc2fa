SPECIFICATION Spec
CONSTANTS
  Session = {s1, s2}
  Task = {t1}
  TagId = {i1, i2, i3}
  Name <- MCName
  Key <- MCKey
  Blank = Blank
  Omitted = Omitted
  Unborn = Unborn
  Deleted = Deleted
  Live = Live
  Requests <- TagRequests
  NoRequest = NoRequest
  MaxOutbox = 3
SYMMETRY TagSymmetry
PROPERTIES
  ReplacedNeverMerged
