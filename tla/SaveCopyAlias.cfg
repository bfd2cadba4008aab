CONSTANTS
  p1 = p1
  p2 = p2
  a = a
  b = b
  d1 = d1
  d2 = d2
  NoName = NoName
  NoInode = NoInode
  Procs = {p1}
  Names = {a, b}
  Dirs = {d1, d2}
  Inodes = {i1, i2, i3}
  Worlds <- LinkedWorld
  Window = "closed"
  MaxVersion = 4
SPECIFICATION Spec
PROPERTIES CopyAvoidsActiveFile
SYMMETRY Symmetry
CHECK_DEADLOCK FALSE
