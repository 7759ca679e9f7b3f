\* Two seeds of two algorithms and every event: threads are stopped and started by
\* jobs, by the API and by changes of the configuration.
CONSTANTS
  w1 = w1
  w2 = w2
  j1 = j1
  j2 = j2
  j3 = j3
  s1 = s1
  s2 = s2
  a1 = a1
  a2 = a2
  NoJob = NoJob
  NoSeed = NoSeed
  Rewriting = Rewriting
  Disabled = Disabled
  Seeds = {s1, s2}
  Workers = {w1, w2}
  Jobs = {j1, j3}
  SeedOf <- TwoSeedOf
  AlgoOf <- TwoAlgoAlgoOf
  Profiles = {p1}
  Events = {"setJob", "pause", "setEnabled", "stop", "config"}
  Exhaustion = TRUE
  MaxEvents = 3
SPECIFICATION SafeSpec
INVARIANTS NoThreadLost NoHashWithoutVM
SYMMETRY Threads
