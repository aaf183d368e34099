CONSTANTS Values <- MCValues
  LOCKTIME_THRESHOLD <- MCThreshold
  U32Max <- MCU32Max
  UsizeValues <- MCUsizeValues
  Texts <- MCTexts
SPECIFICATION Spec
INVARIANTS HeightIsHeight HeightRoundTrip PsbtVerConversionsAgree
