SPECIFICATION Spec

CONSTANTS
  MaxFdsPerRecv = 2
  Scenarios <- MCScenarios
  Singles <- MCSingles
  DamagedMessages <- MCDamaged
  DamagedWords <- MCDamagedWords
  MAX_INITIAL_PORTALS = 3
  BrokerScenarios <- MCBrokerScenarios

INVARIANTS
  DescriptorsStayWithMessages
  MessagesRoundTrip
  FrameDamageContained
  CloseIsClean
  BootstrapAnswered

PROPERTY
  SentIsDecoded
