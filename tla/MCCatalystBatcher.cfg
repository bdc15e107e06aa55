SPECIFICATION Spec
CONSTANTS
  b1 = b1
  b2 = b2
  b3 = b3
  k1 = k1
  k2 = k2
  h1 = h1
  h2 = h2
  zero = zero
  BatchIds = {b1, b2, b3}
  Keys = {k1, k2}
  Summaries = {"s", "t"}
  Hashes = {zero, h1, h2}
  ZeroHash = zero
  PolicyNames = {"none", "adaptive"}
  NoName = "none"
  MaxCount = 2
  MaxSlot = 2
INVARIANTS TypeOK ReceiptsCounted VerifiedReceiptSound
PROPERTIES ReceiptsFinal PauseHolds ImplementsLifecycle
