SPECIFICATION Spec
CONSTANTS
  s1 = s1
  s2 = s2
  t1 = t1
  t2 = t2
  t3 = t3
  Session = {s1, s2}
  Task = {t1, t2}
  StateName <- MCStateName
  Role = {"manager"}
  NoLimit = NoLimit
  Omitted = Omitted
  Unborn = Unborn
  Deleted = Deleted
  NoRequest = NoRequest
  NoDocument = NoDocument
  Document = {"default", "triage", "short"}
  Definition <- MCDefinition
  DefaultDocument = "default"
  Requests <- CoreRequests
  MaxVersion = 3
  MaxOutbox = 3
PROPERTY StrictLifecycle
