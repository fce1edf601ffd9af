SPECIFICATION Spec
CONSTANTS
  t1 = t1
  t2 = t2
  t3 = t3
  a = a
  b = b
  c = c
  fa = fa
  fb = fb
  Entity = {a, b, c}
  Fact = {fa, fb}
  FactOf <- Owners
  Home <- Apart
  NoFact = NoFact
  NoEntity = NoEntity
  NoEntry = NoEntry
  NoDir = NoDir
  Thread = {t1, t2, t3}
  Journaled = {t1}
  Mixes <- Workloads
INVARIANT TypeOK
INVARIANT CanonicalAtHome
INVARIANT EdgesBothSides
INVARIANT RecallCurrent
INVARIANT LayoutRecoverable
PROPERTY MigrationPreserves
