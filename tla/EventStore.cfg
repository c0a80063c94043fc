SPECIFICATION Spec
CONSTANTS
  s1 = s1
  s2 = s2
  evA = evA
  evB = evB
  Sessions <- MCSessions
  Events <- MCEvents
  Sources <- ReplayedSources
  MaxEvents = 2
  TrimSlack = 1
  MaxSessions = 1
  MaxRevision = 1
  MaxSeq = 6
  MaxClock = 1
  MaxEpoch = 1
CONSTRAINT FewStored
SYMMETRY MCSymmetry
INVARIANTS TypeOK GenerationNamesOneEvent RetainedDense TruncationFlagged RetentionBounded
PROPERTIES ImplementsEventSource EvictionSparesUsed
