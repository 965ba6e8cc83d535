SPECIFICATION Spec
CONSTANTS
  Ids = {1, 2, 3, 4, 5, 6, 7, 8, 9, 10, 11, 12}
  Plans <- MCPlans
INVARIANTS
  QuietMeansAgreed
PROPERTIES
  AnswersMeetTheirOffers
  EventuallyConnected
CHECK_DEADLOCK FALSE
