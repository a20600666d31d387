\* Two changes from outside, a window that shows one or two rows, paths of five components.
SPECIFICATION FilesSpec
CONSTANTS
  a = a
  b = b
  f = f
  l = l
  Nodes = {a, b, f, l}
  Dirs = {a, b}
  Links = {l}
  Target <- ToA
  Root = Root
  None = None
  Tree <- SmallTree
  Rank <- ByName
  StartPath <- InA
  MAX_FILES = 2
  MAX_PATH = 5
  MAX_CMD = 1
  Heights = {9, 11}
  Roamed = {0}
  MaxChanges = 2
INVARIANTS CursorInList
PROPERTIES  ReturnsToFolder BackspaceRecovers
CHECK_DEADLOCK FALSE
