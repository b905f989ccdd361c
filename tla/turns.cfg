CONSTANTS
  Turn = {1, 2}
  Thread = {1, 2, 3}
  MaxTrouble = 1
SPECIFICATION TurnsSpec
INVARIANTS ConversationOK PlanAsVetted
PROPERTIES ResetStartsAfresh
CHECK_DEADLOCK FALSE
