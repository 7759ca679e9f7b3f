\* Two seeds and four requests: enough for a request to arrive in every phase
\* of the one before it, for a seed to be asked for again after another, and
\* for an allocation to fail and be tried again.
CONSTANTS
  Seeds = {s1, s2}
  NoSeed = NoSeed
  Rewriting = Rewriting
  MaxRequests = 4
SPECIFICATION Spec
INVARIANTS NewestWins NoReaderWhileWriting
PROPERTIES RequestAnswered DestructorEnds Implements
