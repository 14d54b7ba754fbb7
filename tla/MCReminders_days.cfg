SPECIFICATION DaySpec
CONSTANTS
  w1 = w1
  w2 = w2
  f1 = f1
  f2 = f2
  q1 = q1
  None = None
  Workers = {w1, w2}
  Forms = {f1, f2}
  Questions = {q1}
  Kinds = {"weekly_phase_review", "unanswered_phase_followup"}
  Patience = 0
  Kept = 1
  MaxEvents = 3
  Asked = {"weekly"}
INVARIANT DayInv
PROPERTIES AnswersGrow WaitingIsFollowedUp
CHECK_DEADLOCK FALSE
