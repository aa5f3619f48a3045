\* One account, one user, five transitions of which two may overlap, one
\* fault, sender runs one after another with a batch of two.
SPECIFICATION Spec
CONSTANTS
  a1 = a1
  Account = {a1}
  User = {u1}
  AccountOf <- MCAccountOf
  Topic = {1, 2, 3, 4, 5}
  MaxTransitions = 5
  Concurrent = 2
  Sender = {s1}
  BatchSize = 2
  Overlap = FALSE
  MaxFaults = 1
INVARIANTS
  OnboardingTypeOK
  SentWasDelivered
  RepeatsNeedFaults
  ReviewedBeforeApproved
PROPERTIES
  EveryNoticeHandled
  DecisionAnnounced
  ImplementsOutbox
\* The system stops when its bounds are used up.
CHECK_DEADLOCK FALSE
