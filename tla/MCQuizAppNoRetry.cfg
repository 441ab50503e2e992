\* A failed try that is the last; the system stops once all is done.
CONSTANTS
  a1 = a1
  q1 = q1
  right = right
  wrong = wrong
  Attempts <- MCAttempts
  AttemptIds <- MCAttempts
  QuestionIds <- MCQuestionIds
  OptionIds <- MCOptionIds
  QuestionsOf <- MCQuestionsOf
  OptionsOf <- MCOptionsOf
  CorrectOf <- MCCorrectOf
  Payloads <- MCPayloads
  Requests = {r1, r2}
  MaxTries = 3
  Faults = FALSE
  WorkerFaults = FALSE
SPECIFICATION Spec
INVARIANT FailedTryIsRetried
CHECK_DEADLOCK FALSE
