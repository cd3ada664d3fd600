SPECIFICATION Spec
CONSTANTS
  Requests = {r1}
  RawIds = {"Alice", "alice ", "Bob"}
  Identities = {"alice", "bob"}
  Normalize <- MCNormalize
  Keys = {k1}
  Servers = {s1}
  Versions = {0, 1}
  Ttl = 1
  MaxNow = 2
  Nobody = Nobody
INVARIANTS
  LastEventIsTheTransition
SYMMETRY MCSymmetry
