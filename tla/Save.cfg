CONSTANTS
  p1 = p1
  p2 = p2
  a = a
  b = b
  d1 = d1
  d2 = d2
  NoName = NoName
  NoInode = NoInode
  Procs = {p1, p2}
  Names = {a, b}
  Dirs = {d1, d2}
  Inodes = {i1, i2, i3}
  Worlds <- AllWorlds
  Window = "new targets"
  MaxVersion = 3
SPECIFICATION Spec
INVARIANTS TypeOK SavedIsBaseline ConfirmedIsDurable
PROPERTIES NeverOverwritesUnread CommitsWhereThePathLeads CopyLeavesActiveFile ImplementsAtomicSave
SYMMETRY Symmetry
CHECK_DEADLOCK FALSE
