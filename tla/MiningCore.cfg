\* Three jobs of two seeds and two threads: jobs that only need a touch, jobs that
\* need the dataset rewritten under threads that hash, in every order with pauses.
CONSTANTS
  w1 = w1
  w2 = w2
  j1 = j1
  j2 = j2
  j3 = j3
  s1 = s1
  s2 = s2
  a1 = a1
  a2 = a2
  NoJob = NoJob
  NoSeed = NoSeed
  Rewriting = Rewriting
  Disabled = Disabled
  Seeds = {s1, s2}
  Workers = {w1, w2}
  Jobs = {j1, j2, j3}
  SeedOf <- OneAlgoSeedOf
  AlgoOf <- OneAlgoAlgoOf
  Profiles = {p1}
  Events = {"setJob", "pause", "setEnabled"}
  Exhaustion = FALSE
  MaxEvents = 3
SPECIFICATION SafeSpec
INVARIANTS MiningOnlyWhenAllowed HashesWithItsDataset HashesTheNewestJob
SYMMETRY Threads
