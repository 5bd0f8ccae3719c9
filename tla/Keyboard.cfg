SPECIFICATION Spec
CONSTANTS
  Letters = {"c"}
  Arrows = {"c"}
  KBD_BUF_SIZE = 3
  WireMax = 2
  MaxHeld = 2
INVARIANTS TypeOK RingHoldsTyped KeyStateTracksKeys
PROPERTY KeyReachesReader
