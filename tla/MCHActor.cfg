\* Every pair of matching scripts of up to three calls of the owner and the
\* handler's answers to them; rings of one slot, so that two sends in a row
\* block.
SPECIFICATION FairActorSpec
CONSTANTS
  Pipes = {mine, childs}
  Mine = mine
  Childs = childs
  Room <- MCRoom
  MaxMsgs = 4
  None = None
  OwnerScripts <- MCOwnerScripts
  HandlerScripts <- MCHandlerScripts
INVARIANTS
  ActorTypeOK
  OutlivesUse
  NothingLeft
PROPERTIES
  AnySchedule
CHECK_DEADLOCK FALSE
