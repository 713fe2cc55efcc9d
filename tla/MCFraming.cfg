CONSTANTS
  START = START
  END = END
  ESC = ESC
  Plain = {x}
  NoByte = NoByte
  MSG_SIZ = 4
  Messages <- MCMessages
  MaxLost = 2
SPECIFICATION FairFramingSpec
INVARIANTS
  FramingTypeOK
  AnswersOnlyWaitingHost
PROPERTIES
  DeliveredIntact
  EveryMessageAnswered
