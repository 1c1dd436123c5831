SPECIFICATION Spec
CONSTANTS
  Clients = {d1}
  EventCap = 2
  OutCap = 2
  MaxGen = 2
  MaxVersion = 3
INVARIANTS NoSendOnClosed DeliveredInOrder GreetNotOvertaken NothingElseLost NobodyBlocked ReplacedFallsSilent
