\* Progress of requests and mails, whatever happens to the API process and its
\* transactions; the runs of the worker are not cut.
CONSTANTS
  a1 = a1
  q1 = q1
  right = right
  wrong = wrong
  Attempts <- MCAttempts
  AttemptIds <- MCAttempts
  QuestionIds <- MCQuestionIds
  OptionIds <- MCOptionIds
  QuestionsOf <- MCQuestionsOf
  OptionsOf <- MCOptionsOf
  CorrectOf <- MCCorrectOf
  Payloads <- MCPayloads
  Requests = {r1, r2}
  MaxTries = 3
  Faults = TRUE
  WorkerFaults = FALSE
SPECIFICATION FairSpec
PROPERTIES
  RequestsAnswered
  VisibleJobsLeaveATrace
