------------------------------ MODULE Timelock ------------------------------
(***************************************************************************)
(* The absolute timelock types of src/psbt/src/timelocks.rs: LockTimestamp *)
(* and LockHeight, their constructors, conversions from a consensus u32,  *)
(* Display and FromStr.  A caller holds at most one value of each type and *)
(* replaces it by calling a constructor or parser.  A text is a sequence *)
(* of one-character strings, so that to_lowercase, starts_with, ends_with, *)
(* the slice s[7..], trim_end_matches(')') and u32::from_str act on it as  *)
(* they do in the code; only the letters the parsers test are given an    *)
(* upper case.                                                            *)
(*                                                                         *)
(* The code only compares values with LOCKTIME_THRESHOLD and (in parsing) *)
(* with the u32 range, so both are constants: a model may shrink them,    *)
(* keeping 0 < LOCKTIME_THRESHOLD < U32Max, without changing any outcome. *)
(*                                                                         *)
(* The same crate's PsbtVer (src/psbt/src/lib.rs) converts a u32 or a     *)
(* usize to a version; a usize wider than u32 is cast with `as u32`, which *)
(* the model keeps as a reduction modulo U32Max + 1.                      *)
(***************************************************************************)
EXTENDS Integers, SequencesExt

CONSTANTS
  Values,               \* values offered by the caller, some above U32Max
  LOCKTIME_THRESHOLD,   \* bp::LOCKTIME_THRESHOLD (500_000_000)
  U32Max,               \* u32::MAX
  UsizeValues,          \* usize values offered to PsbtVer::try_from
  Texts                 \* texts offered to the FromStr impls

ASSUME 0 < LOCKTIME_THRESHOLD /\ LOCKTIME_THRESHOLD < U32Max

\* bp::LockTime::is_height_based (outside src/)
IsHeightBased(lockTime) == lockTime < LOCKTIME_THRESHOLD

NoLock == -1
Ok(v) == [ok |-> TRUE, v |-> v, e |-> "none"]
Fail(e) == [ok |-> FALSE, v |-> NoLock, e |-> e]

VARIABLES
  stamp,    \* the LockTimestamp held by the caller (NoLock before any)
  height,   \* the LockHeight held by the caller (NoLock before any)
  err,      \* error of the caller's last call
  verIn,    \* the number last given to a PsbtVer conversion (NoLock before any)
  ver       \* what that conversion returned

vars == <<stamp, height, err, verIn, ver>>

(***************************************************************************)
(* Constructors and conversions                                            *)
(***************************************************************************)
\* LockTimestamp::from_unix_timestamp
FromUnixTimestamp(t) == IF t < LOCKTIME_THRESHOLD THEN Fail("None") ELSE Ok(t)

\* LockTimestamp::try_from_consensus_u32: rejects what is NOT height based
StampTryFromConsensus(lockTime) ==
  IF ~IsHeightBased(lockTime) THEN Fail("InvalidTimelock") ELSE Ok(lockTime)

\* mutant: the height bound taken inclusively
FromHeightInclusive(h) == IF h <= LOCKTIME_THRESHOLD THEN Ok(h) ELSE Fail("None")

\* LockHeight::from_height
FromHeight(h) == IF h < LOCKTIME_THRESHOLD THEN Ok(h) ELSE Fail("None")

\* LockHeight::try_from_consensus_u32
HeightTryFromConsensus(lockTime) ==
  IF ~IsHeightBased(lockTime) THEN Fail("InvalidTimelock") ELSE Ok(lockTime)

(***************************************************************************)
(* Text                                                                    *)
(***************************************************************************)
DigitValue ==
  "0" :> 0 @@ "1" :> 1 @@ "2" :> 2 @@ "3" :> 3 @@ "4" :> 4 @@
  "5" :> 5 @@ "6" :> 6 @@ "7" :> 7 @@ "8" :> 8 @@ "9" :> 9
Digit(d) == CHOOSE c \in DOMAIN DigitValue : DigitValue[c] = d

\* <u32 as Display>::fmt: the decimal digits, most significant first
RECURSIVE Decimal(_)
Decimal(n) ==
  IF n < 10 THEN <<Digit(n)>> ELSE Decimal(n \div 10) \o <<Digit(n % 10)>>

\* str::to_lowercase, on the letters that have an upper case here
UpperCase == "H" :> "h" @@ "T" :> "t" @@ "N" :> "n" @@ "E" :> "e"
ToLowercase(s) ==
  [i \in DOMAIN s |-> IF s[i] \in DOMAIN UpperCase THEN UpperCase[s[i]] ELSE s[i]]

\* str::trim_end_matches(c): every trailing c removed
RECURSIVE TrimEndMatches(_, _)
TrimEndMatches(s, c) ==
  IF s # <<>> /\ Last(s) = c THEN TrimEndMatches(Front(s), c) ELSE s

\* &s[k..]
SliceFrom(s, k) == SubSeq(s, k + 1, Len(s))

ZeroText == <<"0">>
NoneText == <<"n", "o", "n", "e">>
TimeOpen == <<"t", "i", "m", "e", "(">>
HeightOpen == <<"h", "e", "i", "g", "h", "t", "(">>
Close == <<")">>

\* <u32 as FromStr>::from_str: an optional '+', then one or more decimal
\* digits whose value fits a u32 (every failure is InvalidNumber here)
ParseU32(t) ==
  LET d == IF Len(t) > 1 /\ Head(t) = "+" THEN Tail(t) ELSE t
      v == FoldLeft(LAMBDA acc, c : 10 * acc + DigitValue[c], 0, d)
  IN IF d = <<>> \/ \E i \in DOMAIN d : d[i] \notin DOMAIN DigitValue
     THEN Fail("InvalidNumber")
     ELSE IF v > U32Max THEN Fail("InvalidNumber")
     ELSE Ok(v)

\* <LockTimestamp as Display>::fmt
StampDisplay(t) == TimeOpen \o Decimal(t) \o Close

\* <LockHeight as Display>::fmt
HeightDisplay(h) == HeightOpen \o Decimal(h) \o Close

\* the number of a text open(NUMBER): s[skip..].trim_end_matches(')'),
\* parsed as u32
TimelockNumber(s, skip) == ParseU32(TrimEndMatches(SliceFrom(s, skip), ")"))

\* <LockTimestamp as FromStr>::from_str
StampFromStr(text) ==
  LET s == ToLowercase(text)
      no == TimelockNumber(s, 5)
  IN IF s \in {ZeroText, NoneText} THEN Ok(0)
     ELSE IF IsPrefix(TimeOpen, s) /\ IsSuffix(Close, s)
          THEN IF ~no.ok THEN no
               ELSE IF StampTryFromConsensus(no.v).ok THEN Ok(no.v)
               ELSE Fail("InvalidTimestamp")
     ELSE Fail("InvalidDescriptor")

\* mutant: the number sliced one character early, at s[6..]
HeightFromStrSliceEarly(text) ==
  LET s == ToLowercase(text)
      no == TimelockNumber(s, 6)
  IN IF s \in {ZeroText, NoneText} THEN Ok(0)
     ELSE IF IsPrefix(HeightOpen, s) /\ IsSuffix(Close, s)
          THEN IF ~no.ok THEN no
               ELSE IF HeightTryFromConsensus(no.v).ok THEN Ok(no.v)
               ELSE Fail("InvalidHeight")
     ELSE Fail("InvalidDescriptor")

\* <LockHeight as FromStr>::from_str
HeightFromStr(text) ==
  LET s == ToLowercase(text)
      no == TimelockNumber(s, 7)
  IN IF s \in {ZeroText, NoneText} THEN Ok(0)
     ELSE IF IsPrefix(HeightOpen, s) /\ IsSuffix(Close, s)
          THEN IF ~no.ok THEN no
               ELSE IF HeightTryFromConsensus(no.v).ok THEN Ok(no.v)
               ELSE Fail("InvalidHeight")
     ELSE Fail("InvalidDescriptor")

(***************************************************************************)
(* The caller replaces the held value by the result of one call; a failed *)
(* call leaves it unchanged and records the error.                        *)
(***************************************************************************)
SetStamp(r) ==
  /\ stamp' = IF r.ok THEN r.v ELSE stamp
  /\ err' = r.e
  /\ UNCHANGED <<height, verIn, ver>>

SetHeight(r) ==
  /\ height' = IF r.ok THEN r.v ELSE height
  /\ err' = r.e
  /\ UNCHANGED <<stamp, verIn, ver>>

StampAnytime == SetStamp(Ok(0))
StampFromUnix(t) == SetStamp(FromUnixTimestamp(t))
StampTryFrom(v) == SetStamp(StampTryFromConsensus(v))
StampParse(s) == SetStamp(StampFromStr(s))

HeightAnytime == SetHeight(Ok(0))
HeightFrom(h) == SetHeight(FromHeight(h))
HeightTryFrom(v) == SetHeight(HeightTryFromConsensus(v))
HeightParse(s) == SetHeight(HeightFromStr(s))

(***************************************************************************)
(* PsbtVer: a version (V0 = 0, V2 = 2), or PsbtUnsupportedVer(n).         *)
(***************************************************************************)
VerOk(x) == [ok |-> TRUE, ver |-> x, n |-> 0]
VerUnsupported(n) == [ok |-> FALSE, ver |-> "none", n |-> n]
VerNone == VerUnsupported(NoLock)

\* PsbtVer::to_standard_u32 (`*self as u32`, the discriminant)
ToStandardU32(x) == IF x = "V0" THEN 0 ELSE 2

\* PsbtVer::try_from_standard_u32
TryFromStandardU32(v) ==
  CASE v = 0 -> VerOk("V0")
    [] v = 2 -> VerOk("V2")
    [] OTHER -> VerUnsupported(v)

\* mutant: the V2 arm copied from the V0 one
TryFromUsizeV2AsV0(v) ==
  CASE v = 0 -> VerOk("V0")
    [] v = 2 -> VerOk("V0")
    [] OTHER -> VerUnsupported(v % (U32Max + 1))

\* <PsbtVer as TryFrom<usize>>::try_from: the error value cast `as u32`
TryFromUsize(v) ==
  CASE v = 0 -> VerOk("V0")
    [] v = 2 -> VerOk("V2")
    [] OTHER -> VerUnsupported(v % (U32Max + 1))

SetVer(v, r) ==
  /\ verIn' = v
  /\ ver' = r
  /\ UNCHANGED <<stamp, height, err>>

VerTryFromStandard(v) == SetVer(v, TryFromStandardU32(v))
VerTryFrom(v) == SetVer(v, TryFromUsize(v))

U32Values == {v \in Values : v <= U32Max}

Init ==
  /\ stamp = NoLock
  /\ height = NoLock
  /\ err = "none"
  /\ verIn = NoLock
  /\ ver = VerNone

Next ==
  \/ StampAnytime
  \/ \E t \in U32Values : StampFromUnix(t)
  \/ \E v \in U32Values : StampTryFrom(v)
  \/ \E s \in Texts : StampParse(s)
  \/ HeightAnytime
  \/ \E h \in U32Values : HeightFrom(h)
  \/ \E v \in U32Values : HeightTryFrom(v)
  \/ \E s \in Texts : HeightParse(s)
  \/ \E v \in U32Values : VerTryFromStandard(v)
  \/ \E v \in UsizeValues : VerTryFrom(v)

Spec == Init /\ [][Next]_vars

-----------------------------------------------------------------------------
(***************************************************************************)
(* A LockHeight, however it was obtained (from_height, try_from, from_str *)
(* of any text), is a block height: strictly below LOCKTIME_THRESHOLD, as *)
(* the doc comment of the type guarantees.                                *)
(***************************************************************************)
HeightIsHeight ==
  height # NoLock => height < LOCKTIME_THRESHOLD

(***************************************************************************)
(* A LockHeight prints and parses back to itself: from_str(to_string(h))  *)
(* is Ok(h) for every LockHeight the caller can hold, through the prefix  *)
(* test, the slice s[7..] and trim_end_matches(')') of from_str and the   *)
(* decimal digits of Display.                                             *)
(***************************************************************************)
HeightRoundTrip ==
  height # NoLock => HeightFromStr(HeightDisplay(height)) = Ok(height)

(***************************************************************************)
(* The two PsbtVer conversions agree (spec 4.4: V0 = 0, V2 = 2, any other *)
(* version is PsbtUnsupportedVer(n)): a version either of them returns    *)
(* converts back, by to_standard_u32, to the number it was made from, and *)
(* TryFrom<usize> gives what try_from_standard_u32 gives for every number *)
(* that fits a u32.  Beyond u32 the error names the truncated number.     *)
(***************************************************************************)
PsbtVerConversionsAgree ==
  verIn # NoLock =>
    /\ ver.ok => ToStandardU32(ver.ver) = verIn
    /\ verIn <= U32Max => ver = TryFromStandardU32(verIn)

(***************************************************************************)
(* A LockTimestamp, however it was obtained (anytime, from_unix_timestamp,*)
(* try_from, from_str), is 0 or at least LOCKTIME_THRESHOLD, as the doc   *)
(* comment of the type guarantees (and spec E6: try_from(0) fails,        *)
(* try_from(500_000_000) succeeds).                                       *)
(***************************************************************************)
StampIsTimestamp ==
  stamp # NoLock => stamp = 0 \/ stamp >= LOCKTIME_THRESHOLD

=============================================================================
