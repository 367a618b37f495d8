SPECIFICATION FairSpec
CONSTANTS
  a = a  b = b  l = l  x = x  y = y  z = z  bad = bad
  me = me  root = root  stranger = stranger  c1 = c1  c2 = c2
  Calls <- OneCall
  Names <- MCNames
  Inodes <- MCInodes
  Toks <- MCToks
  BadTok = bad
  Uids <- MCUids
  Euid = me
  DirOwner = root
  SharedDir = FALSE
  Requests <- BreadthRequests
  Layouts <- BreadthLayouts
  Foreign <- ReturnForeign
  MaxHops = 2
  MaxBytes = 3
  EnvOps = {"put", "unlink", "inplace"}
  EnvSteps = 2
  BadPath = badPath
  None = none
PROPERTIES Returns
CHECK_DEADLOCK FALSE
