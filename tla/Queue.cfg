SPECIFICATION Spec
CONSTANTS
  Capacity = 3
  ByteRange = 4
  Item = {1, 2, 3}
INVARIANTS TypeOK RingInv
PROPERTY ImplementsFifo
