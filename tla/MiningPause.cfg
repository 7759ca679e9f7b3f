CONSTANTS
  w1 = w1
  w2 = w2
  j1 = j1
  j2 = j2
  j3 = j3
  s1 = s1
  s2 = s2
  a1 = a1
  a2 = a2
  NoJob = NoJob
  NoSeed = NoSeed
  Rewriting = Rewriting
  Disabled = Disabled
  Seeds = {s1, s2}
  Workers = {w1}
  Jobs = {j1}
  SeedOf <- OneJobSeedOf
  AlgoOf <- OneAlgoAlgoOf
  Profiles = {p1}
  Events = {"setJob", "setEnabled"}
  Exhaustion = FALSE
  MaxEvents = 4
SPECIFICATION Spec
PROPERTY PauseStopsHashing
