CONSTANTS
  c1 = c1  c2 = c2
  Calls = {c1}
  Asks <- SignOut
SPECIFICATION Spec
INVARIANT EverywhereMeansEverywhere
