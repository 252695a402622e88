\* One call of list_clients and up to three changes of the store by others.
\* The call is made once, so the instance stops when it has ended.
SPECIFICATION Spec
CONSTANTS
  c1 = c1
  c2 = c2
  a1 = a1
  a2 = a2
  r1 = r1
  NotJson = NotJson
  Clients <- TwoClients
  Advisors <- TwoAdvisors
  Requests <- OneRequest
  AdvisorOf <- FirstAdvisor
  LastKey = 4
  ClientOf <- KeyNames
  KeyOf <- RecordKeys
  LastChange = 3
CHECK_DEADLOCK FALSE
INVARIANTS
  TypeOK
  BookIsBetween
  OncePerKey
  NoneLeftOut
