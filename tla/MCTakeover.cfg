SPECIFICATION Spec
CONSTANTS
  s1 = s1
  s2 = s2
  m1 = m1
  m2 = m2
  m3 = m3
  f1 = f1
  Sessions = {s1}
  Messages = {m1, m2}
  Runs = {r1, r2}
  Workers = {w1, w2}
  NoRun = NoRun
  NoWorker = NoWorker
  NoSession = NoSession
  NoFollowUp = NoFollowUp
  SessionOf <- OneSession
  Seq <- InSequence
  FollowUpOf <- NothingScheduled
SYMMETRY Symmetry
ACTION_CONSTRAINTS
  NeverArchived
  NeverPaused
INVARIANTS
  OneActiveRun
  NoStrandedMessage
  PublishedRunCompletes
  AnsweredOnce
  CompletedWasHandedOver
PROPERTIES
  FencedOut
  ImplementsSessionQueue
