SPECIFICATION Spec
CONSTANTS
  a = a  b = b  l = l  x = x  y = y  z = z  bad = bad
  me = me  root = root  stranger = stranger  c1 = c1  c2 = c2
  Calls <- MCCalls
  Names <- MCNames
  Inodes <- MCInodes
  Toks <- MCToks
  BadTok = bad
  Uids <- MCUids
  Euid = me
  DirOwner = root
  SharedDir = TRUE
  Requests <- QuietRequests
  Layouts <- QuietLayouts
  Foreign <- RaceForeign
  MaxHops = 2
  MaxBytes = 3
  EnvOps = {"crash"}
  EnvSteps = 1
  BadPath = badPath
  None = none
PROPERTIES WritesThroughLinks HardLinksIntact PermissionsKept
SYMMETRY CallsAlike
CHECK_DEADLOCK FALSE
