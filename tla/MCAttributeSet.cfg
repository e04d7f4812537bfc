SPECIFICATION Spec
CONSTANTS
  Threads = {t1, t2, t3}
  NoThread = NoThread
  Null = Null
  Absent = Absent
  New = New
  A = A
  B = B
  Sets <- MCSets
  Keys <- MCKeys
  Requests <- MCRequests
  Lists <- MCLists
  MaxCalls = 3
SYMMETRY ThreadSymmetry
INVARIANTS
  TypeOK
  ForeachComplete
  OneServlet
PROPERTIES
  ImplementsMap
