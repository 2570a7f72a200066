SPECIFICATION FairSpecAgent

CONSTANTS
  p1 = p1
  c1 = c1
  Other = Other
  NoCaller = NoCaller
  Producers <- OneProducer
  Consumers <- OneConsumer
  Permitted <- Everyone
  Offsets = {1}
  MaxRequests = 2
  MaxOther = 1

INVARIANTS
  TypeOKAgent
  HandlersEndBeforeLog
  ShutdownOnce
  SuccessMeansDown
  AnswersMatchRequests
  ProducedInOrder
  NoGapsInStream

PROPERTIES
  ShutdownReturns
  TailDelivered

CHECK_DEADLOCK FALSE
