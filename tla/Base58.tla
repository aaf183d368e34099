------------------------------ MODULE Base58 ------------------------------
(***************************************************************************)
(* The Base58 codec of src/invoice/src/base58.rs: decode, decode_check,   *)
(* encode (encode_iter / format_iter over a SmallVec) and encode_check.   *)
(* A string is the sequence of its bytes (ASCII codes, any value 0..255); *)
(* data is a sequence of bytes.  The first four bytes of sha256d are the  *)
(* constant operator Sha256dHead: the code only compares them.  SmallVec  *)
(* keeps StackCap items inline (100 in the code) and the rest on a heap;  *)
(* a model may lower the capacity so that the spill happens.              *)
(***************************************************************************)
EXTENDS Integers, Sequences, SequencesExt

CONSTANTS
  Strings,          \* strings offered to decode and decode_check
  CheckStrings,     \* longer strings offered to decode_check only
  Datas,            \* byte sequences offered to encode and encode_check
  Sha256dHead(_),   \* first four bytes of sha256d of a byte sequence
  StackCap          \* inline capacity of SmallVec (100)

ASSUME StackCap \in Nat \ {0}

\* BASE58_CHARS, as ASCII codes
BASE58_CHARS == <<
     49,  50,  51,  52,  53,  54,  55,  56,  57,  65,  66,  67,  68,  69,  70,
     71,  72,  74,  75,  76,  77,  78,  80,  81,  82,  83,  84,  85,  86,  87,
     88,  89,  90,  97,  98,  99, 100, 101, 102, 103, 104, 105, 106, 107, 109,
    110, 111, 112, 113, 114, 115, 116, 117, 118, 119, 120, 121, 122>>

\* BASE58_DIGITS: the digit of every ASCII code, -1 for None
BASE58_DIGITS == <<
    -1, -1, -1, -1, -1, -1, -1, -1, -1, -1, -1, -1, -1, -1, -1, -1,
    -1, -1, -1, -1, -1, -1, -1, -1, -1, -1, -1, -1, -1, -1, -1, -1,
    -1, -1, -1, -1, -1, -1, -1, -1, -1, -1, -1, -1, -1, -1, -1, -1,
    -1,  0,  1,  2,  3,  4,  5,  6,  7,  8, -1, -1, -1, -1, -1, -1,
    -1,  9, 10, 11, 12, 13, 14, 15, 16, -1, 17, 18, 19, 20, 21, -1,
    22, 23, 24, 25, 26, 27, 28, 29, 30, 31, 32, -1, -1, -1, -1, -1,
    -1, 33, 34, 35, 36, 37, 38, 39, 40, 41, 42, 43, -1, 44, 45, 46,
    47, 48, 49, 50, 51, 52, 53, 54, 55, 56, 57, -1, -1, -1, -1, -1>>

Ok(v) == [ok |-> TRUE, v |-> v, e |-> "none"]
Fail(e) == [ok |-> FALSE, v |-> <<>>, e |-> e]

\* number of leading items of s equal to x
LeadingCount(s, x) ==
  LET other == {i \in DOMAIN s : s[i] # x}
  IN IF other = {} THEN Len(s) ELSE Min(other) - 1

Zeros(n) == [i \in 1..n |-> 0]

(***************************************************************************)
(* decode: the number is built in base 256 in a scratch buffer of         *)
(* 1 + len * 11 / 15 bytes, multiplying it by 58 and adding each digit   *)
(* from the last byte up; a carry left over fails assert_eq! (a panic).  *)
(* Leading '1's become zero bytes, then the scratch without its zeros.    *)
(***************************************************************************)
\* one byte of the "X = X * 58 + digit" loop, run from the last byte up
MulAdd58(d256, st) ==
  LET carry == st.carry + d256 * 58
  IN [out |-> <<carry % 256>> \o st.out, carry |-> carry \div 256]

DecodeByte(acc, d58) ==
  IF acc.e # "none" THEN acc
  ELSE IF d58 >= 128 \/ BASE58_DIGITS[d58 + 1] = -1
  THEN [acc EXCEPT !.e = "BadByte"]
  ELSE LET r == FoldRight(MulAdd58, acc.scratch, [out |-> <<>>, carry |-> BASE58_DIGITS[d58 + 1]])
       IN IF r.carry # 0 THEN [acc EXCEPT !.e = "panic"]
          ELSE [acc EXCEPT !.scratch = r.out]

\* mutant: the scratch buffer sized without its extra byte
ScratchLenShort(n) == (n * 11) \div 15

ScratchLen(n) == 1 + (n * 11) \div 15

Decode(data) ==
  LET r == FoldLeft(DecodeByte, [scratch |-> Zeros(ScratchLen(Len(data))), e |-> "none"], data)
  IN IF r.e # "none" THEN Fail(r.e)
     ELSE Ok(Zeros(LeadingCount(data, BASE58_CHARS[1]))
             \o SubSeq(r.scratch, LeadingCount(r.scratch, 0) + 1, Len(r.scratch)))

(***************************************************************************)
(* decode_check: at least four bytes, the last four equal to the first    *)
(* four of sha256d of the rest, which is returned.                        *)
(***************************************************************************)
\* mutant: the checksum left on the returned data
DecodeCheckNoTruncate(data) ==
  LET r == Decode(data)
      checkStart == Len(r.v) - 4
  IN IF ~r.ok THEN r
     ELSE IF Len(r.v) < 4 THEN Fail("TooShort")
     ELSE IF Sha256dHead(SubSeq(r.v, 1, checkStart)) # SubSeq(r.v, checkStart + 1, Len(r.v))
          THEN Fail("BadChecksum")
     ELSE Ok(r.v)

DecodeCheck(data) ==
  LET r == Decode(data)
      checkStart == Len(r.v) - 4
  IN IF ~r.ok THEN r
     ELSE IF Len(r.v) < 4 THEN Fail("TooShort")
     ELSE IF Sha256dHead(SubSeq(r.v, 1, checkStart)) # SubSeq(r.v, checkStart + 1, Len(r.v))
          THEN Fail("BadChecksum")
     ELSE Ok(SubSeq(r.v, 1, checkStart))

(***************************************************************************)
(* SmallVec: push fills the inline stack up to StackCap, then the heap;   *)
(* iter and iter_mut chain the stack before the heap.                     *)
(***************************************************************************)
SvNew == [stack |-> <<>>, heap |-> <<>>]

SvPush(sv, val) ==
  IF Len(sv.stack) < StackCap THEN [sv EXCEPT !.stack = Append(@, val)]
  ELSE [sv EXCEPT !.heap = Append(@, val)]

\* mutant: the heap chained before the stack
SvIterHeapFirst(sv) == sv.heap \o sv.stack

SvIter(sv) == sv.stack \o sv.heap

\* iter_mut writing back the items of SvIter(sv), in the same order
SvWrite(sv, items) ==
  [stack |-> SubSeq(items, 1, Len(sv.stack)),
   heap  |-> SubSeq(items, Len(sv.stack) + 1, Len(items))]

(***************************************************************************)
(* format_iter: base-58 digits are kept little endian; every byte         *)
(* multiplies them by 256 and adds itself, carrying upward, then pushes   *)
(* the remaining carry as new digits.  Leading zero bytes are counted and *)
(* pushed as zero digits at the end; the digits are written reversed as   *)
(* characters.                                                             *)
(***************************************************************************)
MulAdd256(st, ch) ==
  LET newCh == ch * 256 + st.carry
  IN [out |-> Append(st.out, newCh % 58), carry |-> newCh \div 58]

RECURSIVE PushCarry(_, _)
PushCarry(sv, carry) ==
  IF carry > 0 THEN PushCarry(SvPush(sv, carry % 58), carry \div 58) ELSE sv

EncodeByte(acc, d256) ==
  LET lz  == acc.leadingZeroes /\ d256 = 0
      r   == FoldLeft(MulAdd256, [out |-> <<>>, carry |-> d256], SvIter(acc.ret))
  IN [ret              |-> PushCarry(SvWrite(acc.ret, r.out), r.carry),
      leadingZeroCount |-> acc.leadingZeroCount + (IF lz THEN 1 ELSE 0),
      leadingZeroes    |-> lz]

RECURSIVE PushZeros(_, _)
PushZeros(sv, n) == IF n = 0 THEN sv ELSE PushZeros(SvPush(sv, 0), n - 1)

FormatIter(data) ==
  LET r   == FoldLeft(EncodeByte, [ret |-> SvNew, leadingZeroCount |-> 0, leadingZeroes |-> TRUE], data)
      ret == SvIter(PushZeros(r.ret, r.leadingZeroCount))
  IN [i \in DOMAIN ret |-> BASE58_CHARS[Reverse(ret)[i] + 1]]

Encode(data) == FormatIter(data)

EncodeCheck(data) == FormatIter(data \o Sha256dHead(data))

-----------------------------------------------------------------------------
VARIABLES
  input,    \* [kind |-> "str" or "ckstr", v |-> string] or [kind |-> "data", v |-> bytes]
  call,     \* the function called on it ("none" before the call)
  result    \* what it returned

vars == <<input, call, result>>

Init ==
  /\ input \in [kind : {"str"}, v : Strings] \cup [kind : {"ckstr"}, v : CheckStrings]
               \cup [kind : {"data"}, v : Datas]
  /\ call = "none"
  /\ result = Fail("none")

Call(name, kinds, r) ==
  /\ call = "none"
  /\ input.kind \in kinds
  /\ call' = name
  /\ result' = r
  /\ UNCHANGED input

DecodeCall      == Call("decode", {"str"}, Decode(input.v))
DecodeCheckCall == Call("decode_check", {"str", "ckstr"}, DecodeCheck(input.v))
EncodeCall      == Call("encode", {"data"}, Ok(Encode(input.v)))
EncodeCheckCall == Call("encode_check", {"data"}, Ok(EncodeCheck(input.v)))

Next == DecodeCall \/ DecodeCheckCall \/ EncodeCall \/ EncodeCheckCall

Spec == Init /\ [][Next]_vars

-----------------------------------------------------------------------------
(***************************************************************************)
(* Reference: the number a digit or byte string denotes, and its minimal  *)
(* big-endian digits in a base.                                            *)
(***************************************************************************)
ValueIn(base, s) == FoldLeft(LAMBDA a, d : a * base + d, 0, s)

RECURSIVE DigitsIn(_, _)
DigitsIn(base, v) == IF v = 0 THEN <<>> ELSE Append(DigitsIn(base, v \div base), v % base)

IsBase58Char(c) == \E d \in 1..58 : BASE58_CHARS[d] = c
DigitOf(c) == CHOOSE d \in 0..57 : BASE58_CHARS[d + 1] = c

(***************************************************************************)
(* decode never panics, rejects exactly the strings with a byte outside   *)
(* the alphabet, and otherwise returns one zero byte per leading '1'      *)
(* followed by the minimal big-endian bytes of the base-58 number.        *)
(***************************************************************************)
DecodeIsBase58Value ==
  call = "decode" =>
    result = IF \A i \in DOMAIN input.v : IsBase58Char(input.v[i])
             THEN Ok(Zeros(LeadingCount(input.v, BASE58_CHARS[1]))
                     \o DigitsIn(256, ValueIn(58, [i \in DOMAIN input.v |-> DigitOf(input.v[i])])))
             ELSE Fail("BadByte")

(***************************************************************************)
(* encode writes one '1' per leading zero byte followed by the minimal    *)
(* base-58 digits of the big-endian number, also when the digit buffer    *)
(* spills from the SmallVec stack to its heap.                            *)
(***************************************************************************)
EncodeIsBase58Value ==
  call = "encode" =>
    result = Ok([i \in 1..LeadingCount(input.v, 0) |-> BASE58_CHARS[1]]
                \o [i \in DOMAIN DigitsIn(58, ValueIn(256, input.v)) |->
                      BASE58_CHARS[DigitsIn(58, ValueIn(256, input.v))[i] + 1]])

(***************************************************************************)
(* decode_check and encode_check are inverse: encode_check's output       *)
(* decodes back to its data, and a string decode_check accepts is the     *)
(* encode_check of what it returned (no other spelling is accepted).      *)
(***************************************************************************)
CheckRoundTrip ==
  /\ call = "encode_check" => DecodeCheck(result.v) = Ok(input.v)
  /\ (call = "decode_check" /\ result.ok) => EncodeCheck(result.v) = input.v
=============================================================================
