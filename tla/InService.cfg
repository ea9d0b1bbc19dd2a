SPECIFICATION Spec
CONSTANTS
  web = web
  db = db
  s1 = s1
  s2 = s2
  Progs = {web, db}
  Spawns = {s1, s2}
  Names = {1, 2}
  InstancesOf <- MCInstancesOf
  Configs <- MCConfigs
INVARIANT
  InService
CHECK_DEADLOCK FALSE
