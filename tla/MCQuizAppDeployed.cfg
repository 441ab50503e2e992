\* The deployment as it is, with every fault.
CONSTANTS
  a1 = a1
  q1 = q1
  right = right
  wrong = wrong
  Attempts <- MCAttempts
  AttemptIds <- MCAttempts
  QuestionIds <- MCQuestionIds
  OptionIds <- MCOptionIds
  QuestionsOf <- MCQuestionsOf
  OptionsOf <- MCOptionsOf
  CorrectOf <- MCCorrectOf
  Payloads <- MCPayloads
  Requests = {r1, r2}
  MaxTries = 3
  Faults = TRUE
  WorkerFaults = TRUE
SPECIFICATION Spec
SYMMETRY RequestSymmetry
INVARIANTS
  TypeOK
  MailsMatchResult
  SentMeansMailed
  TriesBoundMailsAndFailures
  
  WorkerInv
PROPERTIES
  StatusMoves
  LastErrorTellsOfAFailure
  JobsLeaveForAReason
  ContractKept
