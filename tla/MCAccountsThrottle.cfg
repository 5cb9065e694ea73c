CONSTANTS
  root = root  ann = ann  r1 = r1  r2 = r2  r3 = r3  pw1 = pw1  pw2 = pw2
  Users = {root, ann}  Seed = root  Requests = {r1, r2, r3}  Passwords = {pw1, pw2}  None = None
  Typed = {root}  Limit = 2  Cap = 1
  Operations = {"login", "setup"}
  MaxFences = 2  MaxLinks = 1  MaxSessions = 3
SPECIFICATION Spec
INVARIANT AttemptsCapped
CHECK_DEADLOCK FALSE
