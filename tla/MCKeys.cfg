CONSTANTS
  key1 = key1
  ann = ann
  bob = bob
  grp = grp
  m1 = m1
  m2 = m2
  root = root
  nobody = nobody
  e1 = e1
  e2 = e2
  c1 = c1
  KeyIds = {key1}
  People = {ann, bob}
  Groups = {grp}
  Models = {m1, m2}
  Root = root
  None = nobody
  Editors = {e1, e2}
  Calls = {c1}
  Files <- MCFiles
  Lists <- MCLists
  MaxWrites = 2
SYMMETRY Alike
SPECIFICATION Spec
INVARIANTS
  ServedAsGranted
CHECK_DEADLOCK FALSE
