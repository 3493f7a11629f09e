SPECIFICATION Spec
CONSTANTS
  Procs = {p1, p2}
  Paths = {"xa", "ya", "xj"}
  Base <- MCBase
  Fold <- MCFold
  Boxes = {"b1", "bad"}
  Unusable = {"bad"}
  NoBox = NoBox
  MaxRows = 3
  Formats = {"flat"}
  MaxEdits = 2
  SharedFiles = {f1, f2, f3}
  Linked = {f2}
  Foreign = {f3}
  MaxWrites = 2
  MaxKills = 1
  Requests = {weights, source}
  Source = source
  MaxPasses = 4
  Publications = {"p1", "p2", "p3", "p4", "p5"}
  Publication <- MCPublication
  Runs = {"r1", "r2"}
  None = "none"
  Helpers = {h1}
  Worker = w
  MaxLooks = 1
  Clients = {q1, q2, q3}
  Connections = 3
  Workers = 2
  World = 2
  Lines = 1
  Script <- MCScript
  Scalars = {2, 4}
SYMMETRY Symmetry
INVARIANTS
  Membership
  ServedWhole
  BytesKept
  Usable
  ReceiptEarned
  RunWhole
  ScratchSafe
  Disposable
  GroupWhole
  ReplayedOnce
CHECK_DEADLOCK FALSE
