SPECIFICATION RemovalSpec
CONSTANTS
 Name <- MCName
 Path <- MCPath
 UserName = {"ana"}
 SLOTS = 7
 DIR_BLOCKS = 1
 BLOCK_SIZE = 2
 BITMAP_SIZE = 24
 HEADER_BLOCKS = 1
 MIN_FREE = 1
 LAST_FD = 4
 USERS_SIZE = 2
 MAX_USERS = 2
 CANT = 2
 Lengths = {1}
 MaxInodes = 10
 MaxSize = 4
 Tty = {0, 1}
 Char = {"a", "b"}
 BUFFER_SIZE = 2
 STO_MAX = 2
 MaxFirst = 4
 PROCS = 4
 TERMS = 2
 RING = 3
 LINE = 1
 MAX_PRIORITY = 1
 PRIORITY_RATIO = 2
 SHELL_PRIORITY = 1
 Modifiers = {"ALT"}
 Keys = {"CHAR", "ENTER", "BACKSPACE", "F10"}
 NAP = 1
 MaxPID = 4
 MaxPresses = 4
 Part = {"tree"}
PROPERTIES ProtectedReachable
CHECK_DEADLOCK FALSE
