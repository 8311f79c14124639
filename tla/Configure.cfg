SPECIFICATION Spec
CONSTANTS
  password = password
  project = project
  root = root
  other = other
  Setting <- MCSetting
  Project = project
  Arguments = {2, 3}
  Home = {root, other}
  RootHome = root
  Shared = Shared
  MaxRuns = 3
  MaxEdits = 1
VIEW View
CHECK_DEADLOCK FALSE
INVARIANTS
  TypeOK
  RerunsAddNothing
  SameRoot
  EnvNamesConfigured
  SettingsKept
 
