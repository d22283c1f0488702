\* Three overlapping connections over two keys: a stale handler, a newer one
\* and a peer of the other key.
SPECIFICATION FairSpec
CONSTANTS
  Keys = {k1, k2}
  Conns = {c1, c2, c3}
  NoKey = NoKey
  NoPeer = NoPeer
  NoConn = NoConn
INVARIANTS
  TypeOK
  EntryHasHolder
  GaugesExact
PROPERTIES
  ImplementsOwnership
  DrainedKeyLeaves
CHECK_DEADLOCK FALSE
