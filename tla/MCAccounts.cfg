CONSTANTS
  root = root  ann = ann  r1 = r1  r2 = r2  r3 = r3  pw1 = pw1  pw2 = pw2
  Users = {root, ann}  Seed = root  Requests = {r1, r2}  Passwords = {pw1, pw2}  None = None
  Typed = {ann}  Limit = 2  Cap = 2
  Operations <- AllOperations
  MaxFences = 2  MaxLinks = 1  MaxSessions = 2
SYMMETRY Alike
SPECIFICATION Spec
INVARIANTS AcceptedIsCurrent GuessesBounded
PROPERTIES SetOnce
CHECK_DEADLOCK FALSE
