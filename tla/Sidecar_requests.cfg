\* Two requests at a time, two lists of markets, one client order id.
SPECIFICATION Spec
CONSTANTS
  Markets <- MCMarkets
  NoMarkets = "none"
  Slots <- MCSlots
  NoSlot = "nobody"
  Ids <- MCIds
  NoId = "noid"
  MaxRequests = 3
  MaxFaults = 1
CHECK_DEADLOCK FALSE
INVARIANTS
  OneOrderPerId
  TakenIsReported
  StreamNeverStalls
PROPERTIES
  RequestsAnswered
