SPECIFICATION KvSpec
CONSTANTS
  Writers = {w1, w2}
  Readers = {r1}
  Partitions = {q1, q2}
  Keys = {k1}
  Contents = {a}
  Ids = {i1, i2}
  Nothing = Nothing
  Keep = Keep
  Unconditional = Unconditional
  MaxAttempts = 2
  MaxCommits = 2
  MaxClears = 0
SYMMETRY Symmetry
INVARIANT HeadsIntact
PROPERTY KvStoreSpec
