CONSTANTS
  n1 = n1
  n2 = n2
  n3 = n3
  n4 = n4
  h1 = h1
  h2 = h2
  Peer = {n1, n2, n3, n4}
  Handler = {h1, h2}
  TreeDegree = 1
  EdgeFactor = 2
  Priority <- Equal
SYMMETRY Perms
SPECIFICATION Spec
INVARIANTS EdgesBounded 
