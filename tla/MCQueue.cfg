SPECIFICATION Spec
CONSTANTS
  s1 = s1
  s2 = s2
  m1 = m1
  m2 = m2
  m3 = m3
  f1 = f1
  Sessions = {s1}
  Messages = {m1, m2, m3}
  Runs = {r1, r2}
  Workers = {w1}
  NoRun = NoRun
  NoWorker = NoWorker
  NoSession = NoSession
  NoFollowUp = NoFollowUp
  SessionOf <- OneSession
  Seq <- InSequence
  FollowUpOf <- TwoOccurrences
SYMMETRY Symmetry
INVARIANTS
  OneUnfinishedPerFollowUp
  SessionStatusIsBacked
PROPERTIES
  ArchivedStartsNothing
  StartsInOrder
