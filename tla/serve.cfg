\* Clients that are cut off, cut their requests anywhere, or send malformed ones.
CONSTANTS
  s1 = s1
  s2 = s2
  Slots <- TwoSlots
  Plans <- Days
  MaxPiece = 12
SPECIFICATION Spec
CHECK_DEADLOCK FALSE
INVARIANTS
  SlotsInv
  AnswersLive
  HandedAsSent
PROPERTIES
  ConnectionsEnd
