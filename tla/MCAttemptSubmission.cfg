\* Three concurrent submissions, two attempts, every fault.
CONSTANTS
  a1 = a1
  a2 = a2
  noAttempt = noAttempt
  q1 = q1
  q2 = q2
  right1 = right1
  wrong1 = wrong1
  right2 = right2
  wrong2 = wrong2
  Requests = {r1, r2, r3}
  Attempts <- MCAttempts
  AttemptIds <- MCAttemptIds
  QuestionIds <- MCQuestionIds
  OptionIds <- MCOptionIds
  QuestionsOf <- MCQuestionsOf
  OptionsOf <- MCOptionsOf
  CorrectOf <- MCCorrectOf
  Payloads <- MCPayloads
  Faults = TRUE
SPECIFICATION SubmissionSpec
SYMMETRY RequestSymmetry
INVARIANTS
  SubmissionTypeOK
  OkMeansStored
  SubmissionIsWhole
  SubmissionInv
PROPERTY ResultsNeverChange
