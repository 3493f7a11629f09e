SPECIFICATION Spec
CONSTANTS
  MaxFaults = 2
  Runs = {r1, r2}
  MaxWeights = 3
  MaxStamps = 2
  TruthRows <- MCTruths
  GuessRows <- MCGuesses
  Rows = 2
  Split = "val"
  Scored = {"cat", "dog"}
  Confidences = {1, 2}
  NoLabel = NoLabel
  Classes <- MCClasses
  Tallies <- MCTallies
  Outcomes = {1, 2}
  Unit = 4
  Q = 2
  Annotations = {"g1", "g2"}
  Detections = {"p1", "p2"}
  ImageOf <- MCImageOf
  MaxUses = 2
  Absent = Absent
  NoFile = NoFile
  Names = {"n1", "n2"}
  Contents = {t1, t2, t3}
  Models = {m1, m2}
  Own = m1
  Checkpoints = {1, 2}
  MaxEdits = 2
  MaxClones = 2
  Settings = {"name", "token", "root"}
  Sensitive = {"token"}
  Words = {"v1", "v2", "v3"}
  Documents <- MCDocuments
  Contexts <- MCContexts
  Edits <- MCEdits
  Copies = 1
  Tasks <- MCTasks
  Repeated = 1
  Invocations = {i1, i2}
  TaskRequest <- MCTaskRequest
  ModelRequest <- MCModelRequest
  Taken <- MCTaken
  Suffixes = {"calm-lynx", "wise-owl"}
  MaxAttempts = 2
INVARIANTS
  ResultsHonest
  Attributed
  OneStory
  VerdictsEarned
  PanelTrue
  TablesKept
  Attested
  Repeats
  Portable
  Alike
  Unique
CHECK_DEADLOCK FALSE
