CONSTANTS
  d1 = d1
  ann = ann
  bob = bob
  c1 = c1
  c2 = c2
  Docs = {d1}
  Users = {ann, bob}
  Policies <- ThreeSteps
  Calls = {c1, c2}
  Never = Never
  MaxRequests = 2
SPECIFICATION Spec
SYMMETRY AnyCall
CHECK_DEADLOCK FALSE
INVARIANTS
  TypeOK
  IssuedOnce
  IssuedWithConsent
  QueueTies
PROPERTIES
  OutcomeIsFinal
  NoWayBack
