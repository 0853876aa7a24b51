SPECIFICATION FairViewSpec
CONSTANTS
  Answers <- FewAnswers
  AnswerOf <- EachAnswer
  t1 = t1
  t2 = t2
  t3 = t3
  t4 = t4
  t5 = t5
  Traces = {t1, t2, t3, t4, t5}
  Odd = {t4}
  Wanted = {t1, t3, t4, t5}
  Few = {t1, t4}
  Limit = 1
  MaxTears = 2
  MaxCuts = 2
  MaxPolls = 2
  MaxTurns = 1
INVARIANTS LossBounded PagesMissNothing IssuesAlike
PROPERTIES ViewCatchesUp
CHECK_DEADLOCK FALSE
