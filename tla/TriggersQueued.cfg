SPECIFICATION FairSpec
CONSTANTS
  None = None
  Automations <- MCAutomations
  List <- MCList
  Clocked <- MCClocked
  Slots <- MCSlots
  Grace = 1
  Hold <- MCHold
  Way <- MCQueues
  Sequences <- MCSequences
  World <- MCEchoes
  Echoes <- MCEchoes
  QueueLimit = 2
  Horizon = 2
  MaxMoves = 1
INVARIANT SlotOnce
CHECK_DEADLOCK FALSE
