----------------------------- MODULE MCTimelock -----------------------------
(***************************************************************************)
(* A scaled u32: threshold 12 and largest value 14, so that 0, 1, the    *)
(* last height 11, the threshold, the values after it, u32::MAX and one   *)
(* past it (text only, which u32::from_str rejects) are all offered, and  *)
(* heights of one and of two digits are printed and parsed.  The usize    *)
(* values reach two widths of the scaled u32, so that the cast `as u32`   *)
(* wraps onto 0 and onto 2.                                               *)
(*                                                                         *)
(* The texts are what Display prints for every value, and the forms the   *)
(* parsers treat specially: "0", "none" in upper case, an empty or signed *)
(* number, repeated or missing closing parentheses and an unknown word.   *)
(***************************************************************************)
EXTENDS Timelock

MCThreshold == 12
MCU32Max == 14
MCValues == 0..(MCU32Max + 1)
MCUsizeValues == 0..(2 * (MCU32Max + 1) + 3)
MCTexts ==
  {StampDisplay(v) : v \in MCValues} \cup {HeightDisplay(v) : v \in MCValues}
  \cup { ZeroText, <<"N", "O", "N", "E">>,
         <<"H", "e", "i", "g", "h", "t", "(", "3", ")">>,
         HeightOpen \o Close,
         HeightOpen \o <<"+", "1", "1">> \o Close,
         HeightOpen \o <<"1", "1">> \o Close \o Close,
         HeightOpen \o <<"1", "1">>,
         TimeOpen \o <<"1", "3">> \o Close \o Close,
         <<"n", "o">> }
=============================================================================
