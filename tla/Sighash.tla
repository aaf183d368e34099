------------------------------ MODULE Sighash ------------------------------
(***************************************************************************)
(* SighashType of src/psbt/src/sigtypes.rs: the six constructors,         *)
(* from_consensus (loose), from_standard (strict), from_psbt_u8 and       *)
(* into_u8/into_u32, and the sighash byte of EcdsaSig::from_bytes and     *)
(* to_vec.  A caller holds one SighashType and replaces it by calling a   *)
(* constructor or a decoder on a u32.                                      *)
(***************************************************************************)
EXTENDS Integers, Bitwise

CONSTANTS Values   \* u32 values offered to the decoders

\* SighashFlag discriminants
All == 1
None == 2
Single == 3
Flags == {All, None, Single}

SighashTypes == [flag : Flags, acp : BOOLEAN]
ST(flag, acp) == [flag |-> flag, acp |-> acp]

Ok(s) == [ok |-> TRUE, s |-> s]
NonStandard == [ok |-> FALSE, s |-> ST(All, FALSE)]

VARIABLES
  sighash,   \* the SighashType held by the caller
  err,       \* the last decoder call failed with NonStandardSighashType
  raw        \* the u32 of the last decoder call (NoRaw before any)

vars == <<sighash, err, raw>>

NoRaw == -1

(***************************************************************************)
(* from_consensus: n & (0x1f | 0x80), the six standard values by their    *)
(* flag, other values with bit 7 as (All, true), the rest (All, false).   *)
(***************************************************************************)
\* mutant: the flag taken from the two low bits
FromConsensusLowBits(n) == ST(n & 3, (n & 128) = 128)

\* mutant: bit 4 left out of the mask
FromConsensusMask8F(n) ==
  LET x == n & (15 + 128)
  IN CASE x \in {1, 2, 3}             -> ST(x, FALSE)
       [] x \in {129, 130, 131}       -> ST(x - 128, TRUE)
       [] (x & 128) = 128             -> ST(All, TRUE)
       [] OTHER                       -> ST(All, FALSE)

FromConsensus(n) ==
  LET x == n & (31 + 128)
  IN CASE x \in {1, 2, 3}             -> ST(x, FALSE)
       [] x \in {129, 130, 131}       -> ST(x - 128, TRUE)
       [] (x & 128) = 128             -> ST(All, TRUE)
       [] OTHER                       -> ST(All, FALSE)

\* from_standard: exactly the six standard values
FromStandard(n) ==
  CASE n \in {1, 2, 3}       -> Ok(ST(n, FALSE))
    [] n \in {129, 130, 131} -> Ok(ST(n - 128, TRUE))
    [] OTHER                 -> NonStandard

\* mutant: the anyone-can-pay bit shifted by 8
IntoU8Shift8(s) == s.flag + (IF s.acp THEN 256 ELSE 0)

\* into_u8: flag | (anyone_can_pay << 7)
IntoU8(s) == s.flag + (IF s.acp THEN 128 ELSE 0)

Init ==
  /\ sighash = ST(All, FALSE)
  /\ err = FALSE
  /\ raw = NoRaw

\* SighashType::all() ... single_anyone_can_pay()
Construct(s) ==
  /\ sighash' = s
  /\ err' = FALSE
  /\ UNCHANGED raw

DecodeConsensus(n) ==
  /\ sighash' = FromConsensus(n)
  /\ err' = FALSE
  /\ raw' = n

\* from_standard, from_psbt_u8 and the last byte of EcdsaSig::from_bytes
DecodeStandard(n) ==
  LET r == FromStandard(n)
  IN /\ sighash' = IF r.ok THEN r.s ELSE sighash
     /\ err' = ~r.ok
     /\ raw' = n

\* a held SighashType written with EcdsaSig::to_vec and read back with
\* EcdsaSig::from_bytes (the DER part is kept as is)
Reencode ==
  LET r == FromStandard(IntoU8(sighash))
  IN /\ sighash' = IF r.ok THEN r.s ELSE sighash
     /\ err' = ~r.ok
     /\ raw' = IntoU8(sighash)

Next ==
  \/ \E s \in SighashTypes : Construct(s)
  \/ \E n \in Values : DecodeConsensus(n)
  \/ \E n \in Values : DecodeStandard(n)
  \/ Reencode

Spec == Init /\ [][Next]_vars

-----------------------------------------------------------------------------
TypeOK ==
  /\ sighash \in SighashTypes
  /\ err \in BOOLEAN
  /\ raw \in Values \cup {NoRaw} \cup 0..255

(***************************************************************************)
(* Every SighashType the caller can hold, from a constructor or from      *)
(* either decoder, survives into_u8 and from_standard unchanged (spec 8,  *)
(* property 10), so that EcdsaSig::to_vec output is accepted by           *)
(* from_bytes.                                                            *)
(***************************************************************************)
StandardRoundTrip ==
  FromStandard(IntoU8(sighash)) = Ok(sighash)

(***************************************************************************)
(* The loose decoder agrees with Bitcoin Core (spec 6): anyone-can-pay is *)
(* bit 7, the flag is None or Single when the low five bits say so and    *)
(* All otherwise; and it agrees with from_standard wherever that accepts, *)
(* for every u32 the caller passes to a decoder.                          *)
(***************************************************************************)
CoreFlag(n) == CASE (n & 31) = 2 -> None [] (n & 31) = 3 -> Single [] OTHER -> All

ConsensusIsCore ==
  raw # NoRaw =>
    /\ FromConsensus(raw) = ST(CoreFlag(raw), (raw & 128) = 128)
    /\ FromStandard(raw).ok => FromConsensus(raw) = FromStandard(raw).s
=============================================================================
