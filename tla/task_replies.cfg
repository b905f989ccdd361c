SPECIFICATION FairSpec
CONSTANTS
  Task = {t1}
  Question = {q1}
  Message = {m1, m2}
  NoTask = NoTask
  NoQuestion = NoQuestion
  MaxAttempts = 2
  MaxFaults = 0
INVARIANT OneReplyIsTaken
PROPERTIES
  RunsEnd
  TasksEnd
  AnswerWakes
CHECK_DEADLOCK FALSE
