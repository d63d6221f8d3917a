SPECIFICATION Spec
CONSTANTS
  Setters = {s1, s2}
  Waiters = {w1, w2, w3}
  Nobody = Nobody
  MaxSets = 4
  MaxResets = 1
INVARIANTS
  TypeOK
  OneReturnPerSet
  
