SPECIFICATION ClientSpec
CONSTANTS
  Nil = Nil
  Texts <- MCEncoded
  PortionSizes = {1, 64}
INVARIANTS
  StopsAreBytes
