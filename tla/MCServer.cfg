CONSTANTS
  Socket = {s1, s2}
  MaxConversationId = 3
  MaxTracked = 2
  MaxPending = 2
SPECIFICATION FairSpec
INVARIANTS TypeOK OwnersOnline OneAnswerPerAsk NoneStranded TrackingBounded
PROPERTIES AskClosedByItsOwn ServesInOrder AcceptedIsServed
