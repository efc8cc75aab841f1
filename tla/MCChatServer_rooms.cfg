SPECIFICATION Spec
CONSTANTS
  ann = ann
  root = root
  far = far
  NoUser = NoUser
  NoId = NoId
  Main = main
  NoName = NoName
  MaxActive = 3
  MaxRoom = 2
  User = {ann, root}
  Id = {i1, i2}
  Name = {main, tea, den}
  Level <- WithBoth
  Lines = 1
SYMMETRY Symmetric
INVARIANTS TypeOK Occupancy ConnectionsCounted
 
