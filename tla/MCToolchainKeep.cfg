CONSTANTS
  a1 = a1
  a2 = a2
  a3 = a3
  m1 = m1
  m2 = m2
  Assemblers = {a1, a2, a3}
  Machines = {m1, m2}
  NoOverwrite = {a3}
  EXECUTABLE_SIZE = 4
  Other = Other
  Absent = Absent
  OldFiles <- MCOldFiles
SPECIFICATION Spec
PROPERTY KeepsExistingFiles
