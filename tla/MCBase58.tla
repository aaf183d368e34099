----------------------------- MODULE MCBase58 -----------------------------
(***************************************************************************)
(* Strings of up to four bytes over '1', '2', 'A', 'z' (digits 0, 1, 9,   *)
(* 57) and the bytes '0', 'l' (outside the alphabet) and 200 (not ASCII), *)
(* plus the encode_check of short data so that decode_check also         *)
(* succeeds; data of up to three bytes over 0, 1, 57, 58, 255.  The       *)
(* SmallVec capacity is 2 so that five-digit outputs spill to the heap.  *)
(***************************************************************************)
EXTENDS Base58

MCChars == {49, 50, 65, 122, 48, 108, 200}
MCBytes == {0, 1, 57, 58, 255}

MCSha256dHead(d) == <<(Len(d) * 7 + ValueIn(3, d)) % 256, 0, 255, Len(d)>>

MCDatas == UNION {[1..n -> MCBytes] : n \in 0..3}
MCStrings == UNION {[1..n -> MCChars] : n \in 0..4}
MCCheckStrings == {FormatIter(d \o MCSha256dHead(d)) : d \in UNION {[1..n -> MCBytes] : n \in 0..2}}
MCStackCap == 2
=============================================================================
