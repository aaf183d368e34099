CONSTANTS f1 = f1
  f2 = f2
  sigA = sigA
  sigB = sigB
  Sigs <- MCSigs
  Origins <- MCOrigins
  Terminals <- MCTerminals
  OurOrigin <- MCOurOrigin
  MaxSigs <- MCMaxSigs
SPECIFICATION Spec
INVARIANT SpendMatchesSpec
