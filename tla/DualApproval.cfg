SPECIFICATION Spec
CONSTANTS
  Requests = {r1}
  RawIds = {"Alice", "Bob"}
  Identities = {"alice", "bob"}
  Normalize <- MCNormalize
  Keys = {k1, k2}
  Servers = {s1, s2}
  Versions = {0}
  Ttl = 1
  MaxNow = 2
  Nobody = Nobody
INVARIANTS
  TypeOK
  AuditMatchesRow
PROPERTIES
  DecisionsAreFinal
  ImplementsLifecycle
SYMMETRY MCSymmetry
