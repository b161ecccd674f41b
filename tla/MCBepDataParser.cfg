\* A Hello and two messages, every cut of the stream.
SPECIFICATION Spec
CONSTANTS
  HelloMessage <- MCHello
  Message <- MCMessage
  OtherMagic <- MCOtherMagic
  MaxMessages = 3
INVARIANTS
  InOrder
  NothingWaiting
  PopulateAssertsHold
  MagicFirst
PROPERTY
  AllDelivered
CHECK_DEADLOCK FALSE
