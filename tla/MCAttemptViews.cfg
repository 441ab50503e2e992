\* Two starts, two submissions and one read of any kind, with every fault.
CONSTANTS
  a1 = a1
  a2 = a2
  nobody = nobody
  quiz = quiz
  noQuiz = noQuiz
  q1 = q1
  q2 = q2
  q3 = q3
  right1 = right1
  wrong1 = wrong1
  right2 = right2
  wrong2 = wrong2
  right3 = right3
  wrong3 = wrong3
  Requests = {r1, r2}
  Viewers = {v1}
  Starts <- MCStarts
  Emails = {e1, e2}
  Names = {ann, ben}
  QuizIds <- MCQuizIds
  Quizzes <- MCQuizzes
  StartFaults = TRUE
  Attempts <- MCStarts
  AttemptIds <- MCAttemptIds
  QuestionIds <- MCQuestionIds
  OptionIds <- MCOptionIds
  QuestionsOf <- MCQuestionsOf
  OptionsOf <- MCOptionsOf
  CorrectOf <- MCCorrectOf
  Payloads <- MCPayloads
  UserIds <- MCUserIds
  PositionOf <- MCPositionOf
  Faults = TRUE
SPECIFICATION ViewsSpec
SYMMETRY ViewSymmetry
INVARIANTS
  StartTypeOK
  UsersAreSound
  AttemptsBelongToTheAsker
  StartInv
  DetailIsWhole
  ReadsFollowAnswers
  HistoryIsComplete
  ViewInv
PROPERTIES
  NameStoredUnlessStale
  DirectoryKept
CHECK_DEADLOCK FALSE
