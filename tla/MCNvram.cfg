SPECIFICATION Spec
CONSTANTS
  p1 = p1  p2 = p2
  f1 = f1  f2 = f2  f3 = f3
  v1 = v1  huge = huge
  Proc = {p1, p2}
  Inode = {f1, f2, f3}
  Order <- Names
  Value = {v1, huge}
  Oversized = {huge}
  Command <- Commands
  Room = 3
  Half = 1
  FirstStore <- First
  MaxCommands = 3
  MaxFaults = 1
  Absent = Absent  NoFile = NoFile  NoImage = NoImage
  Nul = Nul  Erased = Erased  BeyondEof = BeyondEof
SYMMETRY Symmetry
INVARIANTS
  TypeOK ViewIsExpected SavedIsExpected ReadIsRecent
   BystandersKept
CHECK_DEADLOCK FALSE
CONSTRAINT SomethingClaimed
