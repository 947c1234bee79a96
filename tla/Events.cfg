SPECIFICATION FairSpec
CONSTANTS
  MaxEvents = 4
  MaxOutages = 2
INVARIANTS TypeOK BadFrameIsLocal
PROPERTIES FeedsInOrder StaysSubscribed StopsOnCancel
CHECK_DEADLOCK FALSE
