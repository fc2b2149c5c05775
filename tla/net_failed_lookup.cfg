\* Parts of one bit: addresses and masks of four bits.
SPECIFICATION Spec
CONSTANTS
  PartBits = 1
  AddrTexts <- MCAddrTexts
  MaskTexts <- MCMaskTexts
  FirstAddress <- MCFirstAddress
  FdLimit = 5
  Faults = TRUE
INVARIANT
  FailedLookupIsRefused
