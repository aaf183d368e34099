------------------------------- MODULE MCPath -------------------------------
(***************************************************************************)
(* A scaled index space: u8 holds 0..1, u16 holds 0..3, normal indices   *)
(* are 0..7.  Texts have up to three tokens; their numbers are 0, 1, the *)
(* first value past a u8 and past a u16, the last index and the boundary *)
(* itself, each with every hardened mark, plus the empty token.          *)
(* derive_batch starts at every normal index with every max_count up to  *)
(* past the normal range.  DerivationSeg texts are up to three pieces     *)
(* between runs of up to two '<' and two '>', so that balanced, missing, *)
(* doubled and stray brackets, empty pieces, duplicates, hardened and    *)
(* out-of-range indices and an overfull segment all occur.                *)
(***************************************************************************)
EXTENDS Path

MCB == 8
MCU16 == 4
MCU8 == 2

Tokens == {[n |-> n, mark |-> m] : n \in {0, 1, 2, 4, 7, 8}, m \in {"", "'", "h", "H"}}
          \cup {EmptyToken}

TokenSeqs == {<<a>> : a \in Tokens} \cup {<<a, b>> : a, b \in Tokens}
             \cup {<<a, b, c>> : a, b, c \in Tokens}

MCTexts == [slash : BOOLEAN, toks : TokenSeqs]

SmallIndices == {[h |-> FALSE, n |-> 0], [h |-> FALSE, n |-> 1], [h |-> TRUE, n |-> 0]}

\* derive_batch counts: 0, every count up to and past the normal range, u8::MAX
MCMaxCounts == 0..(MCB + 1) \cup {255}

\* DerivationSeg: capacity 2 (8 in the code), so three indices overflow it
MCSegMax == 2

\* a piece between ';' separators: empty, a stray bracket, or one token:
\* 0, 1, 2, the boundary 8, and a hardened 1
SegPieces ==
  {<<>>, <<Punct("<")>>, <<Punct(">")>>}
  \cup {<<IdxSym([n |-> n, mark |-> ""])>> : n \in {0, 1, 2, 8}}
  \cup {<<IdxSym([n |-> 1, mark |-> "'"])>>}

\* one to three pieces joined by ';', behind 0..2 '<' and before 0..2 '>'
SegBodies ==
  {a : a \in SegPieces}
  \cup {a \o <<Punct(";")>> \o b : a, b \in SegPieces}
  \cup {a \o <<Punct(";")>> \o b \o <<Punct(";")>> \o c : a, b, c \in SegPieces}

MCSegTexts ==
  {[i \in 1..l |-> Punct("<")] \o body \o [i \in 1..r |-> Punct(">")] :
     l \in 0..2, body \in SegBodies, r \in 0..2}

MCMasters == {<<>>} \cup {<<a>> : a \in SmallIndices} \cup {<<a, b>> : a, b \in SmallIndices}
=============================================================================
