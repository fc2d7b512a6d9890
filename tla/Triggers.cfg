SPECIFICATION FairSpec
CONSTANTS
  None = None
  Automations <- MCAutomations
  List <- MCList
  Clocked <- MCClocked
  Slots <- MCSlots
  Grace = 0
  Hold <- MCHold
  Way <- MCSkips
  Sequences <- MCSequences
  World <- MCEchoes
  Echoes <- MCEchoes
  QueueLimit = 1
  Horizon = 2
  MaxMoves = 3
INVARIANT TypeOK OneStartPerEdge AfreshIsOpen SlotOnce
PROPERTY HeldLong HeldIsStarted
CHECK_DEADLOCK FALSE
