CONSTANTS
  NumSlots = 2
  q1 = q1
  q2 = q2
  k1 = k1
  k2 = k2
  Keys = {k1, k2}
  KeyOf <- MCKeyOf
  Scheduled <- MCScheduled
  Delays = {1}
  Queries = {q1, q2}
  W = 3
SPECIFICATION FairSpec
INVARIANT SearchSeesOneTimetable
PROPERTIES IsAtomic EveryCallIsAnswered DelayIsApplied
