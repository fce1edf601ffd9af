SPECIFICATION Spec
CONSTANTS
  t1 = t1
  t2 = t2
  a1 = a1
  a2 = a2
  x1 = x1
  x2 = x2
  o1 = o1
  o2 = o2
  Obs = {o1, o2}
  Text = {x1, x2}
  NoText = NoText
  Actor = {a1, a2}
  System = System
  Key = {k1}
  NoKey = NoKey
  Thread = {t1, t2}
  Nobody = Nobody
  Mixes <- Workloads
  MaxTokens = 1
  MaxSets = 1
SYMMETRY Symmetry
INVARIANT TypeOK
INVARIANT Lineage
INVARIANT Accounted
INVARIANT OncePerKey
INVARIANT OutboxHonest
INVARIANT IndexComplete
INVARIANT RecallSound
PROPERTY NoLostUpdate
PROPERTY DestroyOnlyAsPreviewed
CHECK_DEADLOCK TRUE
