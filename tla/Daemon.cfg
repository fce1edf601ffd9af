SPECIFICATION Spec
CONSTANTS
  d = d
  c = c
  t1 = t1
  t2 = t2
  t3 = t3
  home = home
  s1 = s1
  s2 = s2
  i1 = i1
  i2 = i2
  i3 = i3
  r1 = r1
  r2 = r2
  k = k
  p1 = p1
  Process = {d, c}
  Thread = {t1, t2, t3}
  ProcessOf <- Owner
  Server = d
  Space = {home, s1, s2}
  Legacy = home
  Id = {i1, i2, i3}
  None = None
  Torn = Torn
  Mixes <- FourMixes
  DomainCount <- Counts
  MaxSpaces = 2
  MaxDomains = 2
  Job = {r1, r2, k}
  Restores = {r1, r2}
  Profile = {p1}
  Target <- Into
  Replace = {r2}
  New = New
  Nothing = Nothing
SYMMETRY Ids
INVARIANT TypeOK
INVARIANT OneIdentity
INVARIANT LeasesHonoured
INVARIANT HealthHonest
INVARIANT RestoreKeeps
