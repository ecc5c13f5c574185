SPECIFICATION Spec
CONSTANTS
  t1 = t1
  t2 = t2
  m1 = m1
  m2 = m2
  d0 = d0
  d1 = d1
  d2 = d2
  NoTailnet = NoTailnet
  QuotaGroup <- OneGroup
  JoinedTailnet = d0
  InstanceTypes = {t1, t2}
  Planned = {t1}
  Modes = {m1}
  Tailnets = {d0, d1}
  Configs <- MixedConfigs
INVARIANTS
  OnlyPlannedWorkMeasured
  LifecycleInvariant
PROPERTIES
  FirstCleanupIsComplete
  CommandEnds
