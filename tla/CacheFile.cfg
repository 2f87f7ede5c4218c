SPECIFICATION Spec
CONSTANTS
  a1 = a1
  a2 = a2
  b1 = b1
  A = A
  B = B
  h1 = h1
  r1 = r1
  i1 = i1
  i2 = i2
  i3 = i3
  Head = {h1}
  Writer = {a1, a2, b1}
  Reader = {r1}
  Process = {A, B}
  Home <- HomeOfWriters
  Pid <- PidDistinct
  Inode = {i1, i2, i3}
  MaxWrites = 2
  Partial = Partial
  None = None
INVARIANTS TypeOK EntriesComplete NoTornRead
PROPERTY StoreSpec
SYMMETRY Interchangeable
