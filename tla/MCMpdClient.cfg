SPECIFICATION Spec
CONSTANTS
  Command = {c1, c2}
  Element = {e1}
  ListBegin = ListBegin
  ListEnd = ListEnd
  NoElement = NoElement
  MaxRequests = 5
  MaxAnswers = 6
  MaxListed = 3
  MaxAfterFault = 2
CONSTRAINT Bounded
INVARIANTS TypeOK Lockstep
PROPERTY ListOksExact
CHECK_DEADLOCK FALSE
