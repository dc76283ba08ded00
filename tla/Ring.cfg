\* A ring of four places and two scan codes.
CONSTANTS
  Size = 4
  Item = {x, y}
SPECIFICATION RingSpec
INVARIANT TypeOK
PROPERTY ImplementsFifo
