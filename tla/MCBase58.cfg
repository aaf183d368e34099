CONSTANTS
  Strings <- MCStrings
  CheckStrings <- MCCheckStrings
  Datas <- MCDatas
  Sha256dHead <- MCSha256dHead
  StackCap <- MCStackCap
SPECIFICATION Spec
INVARIANTS DecodeIsBase58Value EncodeIsBase58Value CheckRoundTrip
CHECK_DEADLOCK FALSE
