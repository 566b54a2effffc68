\* One sender and one author of one draft.
CONSTANTS
  Sender = {"p"}
  Saver = {"u"}
  Target = {"t1"}
  FirstBody = "body0"
  None = None
SPECIFICATION OutboxSpec
CHECK_DEADLOCK FALSE
INVARIANTS SentIsFinal
