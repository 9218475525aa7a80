CONSTANTS
  q1 = q1  m1 = m1  m2 = m2
  Queue <- OneQueue
  Message <- TwoMessages
  QueueOf <- ToOneQueue
  MaxCalls = 3
  MaxDrops = 1
  MaxRefusals = 2
CHECK_DEADLOCK FALSE
SPECIFICATION FairSpec
INVARIANTS
  RabbitmqTypeOK
  OneConsumerEach
  NoMessageLost
PROPERTY EveryMessageHandled
