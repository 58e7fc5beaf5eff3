SPECIFICATION Spec
CONSTANTS
  Pay = Pay
  Ops = Ops
  NoLimit = NoLimit
  Key <- Keys
  Field <- Teams
  Query <- OnlyPay
  RawLimit <- Limits
  DefaultLimit = 2
  MaxLimit = 3
INVARIANTS
  GrowingListIsComplete
  ShrinkingListIsNotRepeated
PROPERTIES
  TraversalEnds
