SPECIFICATION Spec
CONSTANTS
  Deliveries = {"push"}
  Length <- MCLength
  Workers = {w1, w2}
  Size = 1
  MaxAttempts = 2
  MaxSends <- MCMaxSends
  Nothing = Nothing
INVARIANTS
  TypeOK
  Conservation
  AcknowledgedTracked
  DrainSettlesEarlier
PROPERTIES
  EveryDeliveryAnswered
  ShutdownEnds
  QueuedSettled
