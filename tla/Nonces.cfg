\* Four jobs, two threads, draws of two nonces under masks of six and three
CONSTANTS
  w1 = w1
  w2 = w2
  a = a
  a2 = a2
  b = b
  d = d
  i1 = i1
  i2 = i2
  i3 = i3
  i4 = i4
  x = x
  y = y
  z = z
  NoJob = NoJob
  Workers = {w1, w2}
  Jobs = {a, a2, b, d}
  DonateJobs = {d}
  Ids = {i1, i2, i3, i4}
  Blobs = {x, y, z}
  IdOf <- MCIdOf
  BlobOf <- MCBlobOf
  Mask <- MCMask
  Reserve = 2
  Low = 3
  MaxEvents = 3
  MaxCounter = 3
SPECIFICATION Spec
SYMMETRY Threads
INVARIANTS
  RangesDisjoint
  RangesFit
  HashesDrawnNonces
