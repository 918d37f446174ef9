SPECIFICATION Spec
CONSTANTS
  MaxPlans = 1
  MaxEntries = 1
PROPERTIES
  AnswersOwnQuestion
