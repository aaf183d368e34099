CONSTANTS B <- MCB
  U16 <- MCU16
  U8 <- MCU8
  Texts <- MCTexts
  Masters <- MCMasters
  MaxCounts <- MCMaxCounts
  SegMax <- MCSegMax
  SegTexts <- MCSegTexts
SPECIFICATION Spec
CHECK_DEADLOCK FALSE
INVARIANTS PathRoundTrip SharedPrefixIsPrefixLength DeriveBatchIsConsecutive SegRoundTrip
