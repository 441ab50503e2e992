\* Quizzes of up to 210 questions, past the 200 from which rounding to whole
\* percents would show.  It stops once every answer is marked.
CONSTANT MaxTotal = 210
SPECIFICATION MarkingSpec
INVARIANTS
  FeedbackFitsExactRatio
  ExtremesAreExact
CHECK_DEADLOCK FALSE
