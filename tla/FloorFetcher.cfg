SPECIFICATION Spec
CONSTANTS
  URLs = {u1, u2, u3}
  Requests = {r1}
  Workers = 1
  Capacity = 1
  MaxRetries = 2
  Period = 1
  MaxAge = 1
  HeaderAges = {0, 2}
INVARIANTS
  OneJobPerURL
PROPERTIES
  JobsEndOnlyByRetries
