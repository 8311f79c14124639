SPECIFICATION Spec
CONSTANTS
  password = password
  project = project
  root = root
  other = other
  Setting <- MCSetting
  Project = project
  Arguments = {2}
  Home = {root, other}
  RootHome = root
  Shared = Shared
  MaxRuns = 1
  MaxEdits = 1
CHECK_DEADLOCK FALSE
INVARIANT ConfigureConfigures
