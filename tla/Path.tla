-------------------------------- MODULE Path --------------------------------
(***************************************************************************)
(* DerivationPath<DerivationIndex> of src/derive/src/path.rs: parsing     *)
(* (FromStr), Display, terminal, shared_prefix/starts_with and            *)
(* hardened_prefix.  A caller parses one text and queries the path.      *)
(* Also Derive::derive_batch of src/std/src/derive.rs, the loop over      *)
(* consecutive normal indices that derives a batch of keys or scripts,    *)
(* and DerivationSeg<NormalIndex> (new, with, standard, FromStr,         *)
(* Display), the multipath segment <a;b;...> of normal indices.           *)
(*                                                                         *)
(* An index is [h |-> hardened?, n |-> number below the boundary B].  The *)
(* code compares child numbers with B = 2^31, casts them to u16 and       *)
(* narrows them to u8; B, U16 and U8 are constants so that a model can    *)
(* shrink them keeping U8 < U16 < B.  A text is its leading '/' (or none) *)
(* and the '/'-separated tokens after it; a token is a number with a      *)
(* hardened mark ("", "'", "h" or "H"), or the empty token.               *)
(***************************************************************************)
EXTENDS Integers, Sequences, SequencesExt

CONSTANTS
  B,         \* HD_INDEX_BOUNDARY, 2^31
  U16,       \* 2^16: values of a u16
  U8,        \* 2^8: values of a u8
  Texts,     \* texts offered to DerivationPath::from_str
  Masters,   \* paths offered to shared_prefix and starts_with
  MaxCounts, \* max_count values (u8) offered to derive_batch
  SegMax,    \* capacity of a DerivationSeg (NonEmptyOrdSet<I, 8>)
  SegTexts   \* texts offered to DerivationSeg::from_str

ASSUME 0 < U8 /\ U8 < U16 /\ U16 < B
ASSUME MaxCounts \subseteq 0..255
ASSUME SegMax \in Nat /\ SegMax >= 2   \* standard() holds two indices

VARIABLES
  text,      \* the text being parsed
  path,      \* result of from_str: NotParsed, Ok(path) or Err(error)
  derived,   \* the derive_batch call: its from, max_count and result
  seg        \* the DerivationSeg made by new, with, standard or from_str

vars == <<text, path, derived, seg>>

Index == [h : BOOLEAN, n : 0..(B - 1)]
EmptyToken == [n |-> -1, mark |-> ""]

Ok(p) == [ok |-> TRUE, p |-> p, e |-> "none"]
Fail(e) == [ok |-> FALSE, p |-> <<>>, e |-> e]
NotParsed == Fail("NotParsed")

(***************************************************************************)
(* Index algebra (src/derive/src/index.rs, outside src/ of this tree):    *)
(* the u32 child number, and FromStr/Display of DerivationIndex.          *)
(***************************************************************************)
ChildNumber(i) == IF i.h THEN i.n + B ELSE i.n

IndexFromStr(tok) ==
  CASE tok = EmptyToken -> Fail("Empty")
    [] tok.n >= B       -> Fail("OutOfRange")
    [] OTHER            -> Ok([h |-> tok.mark # "", n |-> tok.n])

IndexDisplay(i) == [n |-> i.n, mark |-> IF i.h THEN "'" ELSE ""]

(***************************************************************************)
(* DerivationPath::from_str: one leading '/' is stripped, the rest split  *)
(* on '/' and every token parsed; the first failing token fails the whole *)
(* parse with InvalidIndex; an empty result fails with InvalidFormat.     *)
(***************************************************************************)
\* mutant: the leading '/' not stripped before splitting
PathFromStrKeepsSlash(t) ==
  LET toks   == IF t.slash THEN <<EmptyToken>> \o t.toks ELSE t.toks
      parsed == [i \in DOMAIN toks |-> IndexFromStr(toks[i])]
  IN IF \E i \in DOMAIN parsed : ~parsed[i].ok THEN Fail("InvalidIndex")
     ELSE IF toks = <<>> THEN Fail("InvalidFormat")
     ELSE Ok([i \in DOMAIN parsed |-> parsed[i].p])

PathFromStr(t) ==
  LET parsed == [i \in DOMAIN t.toks |-> IndexFromStr(t.toks[i])]
  IN IF \E i \in DOMAIN parsed : ~parsed[i].ok THEN Fail("InvalidIndex")
     ELSE IF t.toks = <<>> THEN Fail("InvalidFormat")
     ELSE Ok([i \in DOMAIN parsed |-> parsed[i].p])

\* <DerivationPath as Display>::fmt: "/" before every index
PathDisplay(p) == [slash |-> TRUE, toks |-> [i \in DOMAIN p |-> IndexDisplay(p[i])]]

(***************************************************************************)
(* DerivationPath::terminal: the last index must be normal and is cast to *)
(* u16 (child_number() as u16); the one before must be normal and fit a   *)
(* u8 (u8::try_from); otherwise None.                                     *)
(***************************************************************************)
NoTerminal == [some |-> FALSE, keychain |-> 0, index |-> 0]

Terminal(p) ==
  IF p = <<>> \/ Last(p).h THEN NoTerminal
  ELSE LET index == ChildNumber(Last(p)) % U16
       IN IF Len(p) < 2 \/ p[Len(p) - 1].h THEN NoTerminal
          ELSE IF ChildNumber(p[Len(p) - 1]) >= U8 THEN NoTerminal
          ELSE [some |-> TRUE, keychain |-> ChildNumber(p[Len(p) - 1]), index |-> index]

(***************************************************************************)
(* DerivationPath::shared_prefix: when master is no longer than the path, *)
(* the count of leading equal indices, returned only if it covers the     *)
(* whole master; 0 otherwise.  starts_with compares it with len(master).  *)
(***************************************************************************)
\* mutant: the length check made strict
SharedPrefixStrict(p, master) ==
  IF Len(master) < Len(p)
  THEN LET shared == Max({i \in 0..Len(master) : \A j \in 1..i : p[j] = master[j]})
       IN IF shared = Len(master) THEN shared ELSE 0
  ELSE 0

SharedPrefix(p, master) ==
  IF Len(master) <= Len(p)
  THEN LET shared == Max({i \in 0..Len(master) : \A j \in 1..i : p[j] = master[j]})
       IN IF shared = Len(master) THEN shared ELSE 0
  ELSE 0

(***************************************************************************)
(* Derive::derive_batch: derive at (change, index), count it, and stop    *)
(* when the index cannot be incremented or count >= max_count; count is a *)
(* u8.  A derived item is abstracted to the (change, index) it was        *)
(* derived at, derive itself being a deterministic function of them.      *)
(***************************************************************************)
\* NormalIndex::checked_inc_assign (index.rs, outside src/): None at the
\* last normal index, which is left unchanged
CheckedInc(n) ==
  IF n + 1 < B THEN [some |-> TRUE, n |-> n + 1] ELSE [some |-> FALSE, n |-> n]

\* mutant: the count compared strictly (count > max_count)
RECURSIVE DeriveBatchLoopStrict(_, _, _, _, _)
DeriveBatchLoopStrict(change, index, count, maxCount, batch) ==
  LET batch1 == Append(batch, <<change, index>>)
      count1 == (count + 1) % 256
      next   == CheckedInc(index)
  IN IF ~next.some \/ count1 > maxCount THEN batch1
     ELSE DeriveBatchLoopStrict(change, next.n, count1, maxCount, batch1)

RECURSIVE DeriveBatchLoop(_, _, _, _, _)
DeriveBatchLoop(change, index, count, maxCount, batch) ==
  LET batch1 == Append(batch, <<change, index>>)
      count1 == (count + 1) % 256
      next   == CheckedInc(index)
  IN IF ~next.some \/ count1 >= maxCount THEN batch1
     ELSE DeriveBatchLoop(change, next.n, count1, maxCount, batch1)

DeriveBatch(change, from, maxCount) == DeriveBatchLoop(change, from, 0, maxCount, <<>>)

(***************************************************************************)
(* DerivationSeg<NormalIndex>.  A segment text is a sequence of symbols:  *)
(* the characters '<', '>' and ';' and index tokens (digits with a mark), *)
(* no two tokens adjacent.  A segment is the set of its indices.          *)
(***************************************************************************)
Punct(c) == [k |-> c, n |-> 0, mark |-> ""]
IdxSym(tok) == [k |-> "idx", n |-> tok.n, mark |-> tok.mark]

SegOk(set) == [ok |-> TRUE, p |-> set, e |-> "none"]
SegFail(e) == [ok |-> FALSE, p |-> {}, e |-> e]
SegNotParsed == SegFail("NotParsed")

\* NormalIndex::from_str (index.rs, outside src/) on one piece of text
NormalFromStr(piece) ==
  CASE piece = <<>>                          -> SegFail("Empty")
    [] Len(piece) > 1 \/ piece[1].k # "idx"  -> SegFail("NotANumber")
    [] piece[1].mark # ""                    -> SegFail("UnexpectedHardenedMarker")
    [] piece[1].n >= B                       -> SegFail("OutOfRange")
    [] OTHER                                 -> SegOk({piece[1].n})

\* str::trim_start_matches(c): every leading c removed
TrimStartMatches(s, c) ==
  LET lead == Max({i \in 0..Len(s) : \A j \in 1..i : s[j] = Punct(c)})
  IN SubSeq(s, lead + 1, Len(s))

\* str::trim_end_matches(c): every trailing c removed
TrimEndMatches(s, c) == Reverse(TrimStartMatches(Reverse(s), c))

\* str::split(c): the pieces between separators, empty ones included
RECURSIVE SplitOn(_, _)
SplitOn(s, c) ==
  LET seps == {i \in DOMAIN s : s[i] = Punct(c)}
  IN IF seps = {} THEN <<s>>
     ELSE <<SubSeq(s, 1, Min(seps) - 1)>> \o SplitOn(SubSeq(s, Min(seps) + 1, Len(s)), c)

(***************************************************************************)
(* DerivationSeg::from_str: when trimming every leading '<' and trailing  *)
(* '>' removed exactly two characters, the rest is split on ';', every    *)
(* piece parsed (the first error wins), collected into a BTreeSet and     *)
(* confined to 1..SegMax elements; otherwise the whole text is one index. *)
(***************************************************************************)
\* mutant: the length test made strict (t.len() + 2 < s.len())
SegFromStrStrict(s) ==
  LET t == TrimEndMatches(TrimStartMatches(s, "<"), ">")
      parsed == [i \in DOMAIN SplitOn(t, ";") |-> NormalFromStr(SplitOn(t, ";")[i])]
      set == UNION {parsed[i].p : i \in DOMAIN parsed}
  IN IF Len(t) + 2 < Len(s)
     THEN IF \E i \in DOMAIN parsed : ~parsed[i].ok THEN SegFail("InvalidFormat")
          ELSE IF Cardinality(set) \notin 1..SegMax THEN SegFail("Confinement")
          ELSE SegOk(set)
     ELSE IF NormalFromStr(s).ok THEN NormalFromStr(s) ELSE SegFail("InvalidFormat")

SegFromStr(s) ==
  LET t == TrimEndMatches(TrimStartMatches(s, "<"), ">")
      parsed == [i \in DOMAIN SplitOn(t, ";") |-> NormalFromStr(SplitOn(t, ";")[i])]
      set == UNION {parsed[i].p : i \in DOMAIN parsed}
  IN IF Len(t) + 2 = Len(s)
     THEN IF \E i \in DOMAIN parsed : ~parsed[i].ok THEN SegFail("InvalidFormat")
          ELSE IF Cardinality(set) \notin 1..SegMax THEN SegFail("Confinement")
          ELSE SegOk(set)
     ELSE IF NormalFromStr(s).ok THEN NormalFromStr(s) ELSE SegFail("InvalidFormat")

(***************************************************************************)
(* <DerivationSeg as Display>::fmt: a single index bare; otherwise '<',   *)
(* the indices in BTreeSet (ascending) order with ';' written before all  *)
(* but the first, and '>'.                                                 *)
(***************************************************************************)
SegDisplay(set) ==
  LET sorted == SetToSortSeq(set, <)
      step(acc, n) == acc \o (IF acc = <<>> THEN <<>> ELSE <<Punct(";")>>)
                          \o <<IdxSym([n |-> n, mark |-> ""])>>
  IN IF Cardinality(set) = 1 THEN <<IdxSym([n |-> sorted[1], mark |-> ""])>>
     ELSE <<Punct("<")>> \o FoldLeft(step, <<>>, sorted) \o <<Punct(">")>>

\* DerivationSeg::with: Confined::try_from_iter collects into the set and
\* fails when its size is outside 1..SegMax
SegWithResult(l) ==
  IF Cardinality(Range(l)) \in 1..SegMax THEN SegOk(Range(l)) ELSE SegFail("Confinement")

\* the index lists offered to DerivationSeg::with: up to one more than fits
SegWithInputs == BoundedSeq(0..(B - 1), SegMax + 1)

-----------------------------------------------------------------------------
NoBatch == [called |-> FALSE, from |-> 0, max |-> 0, out |-> <<>>]

\* the caller makes one call: it parses a text or derives a batch
Init ==
  /\ text = <<>>
  /\ path = NotParsed
  /\ derived = NoBatch
  /\ seg = SegNotParsed

\* nothing has been called yet
Idle == path = NotParsed /\ derived = NoBatch /\ seg = SegNotParsed

Parse(t) ==
  /\ Idle
  /\ text' = t
  /\ path' = PathFromStr(t)
  /\ UNCHANGED <<derived, seg>>

DeriveBatchCall(from, maxCount) ==
  /\ Idle
  /\ derived' = [called |-> TRUE, from |-> from, max |-> maxCount,
                  out |-> DeriveBatch(0, from, maxCount)]
  /\ UNCHANGED <<text, path, seg>>

SegParse(t) ==
  /\ Idle
  /\ text' = t
  /\ seg' = SegFromStr(t)
  /\ UNCHANGED <<path, derived>>

\* DerivationSeg::new: NonEmptyOrdSet::with(index)
SegNew(i) ==
  /\ Idle
  /\ seg' = SegOk({i})
  /\ UNCHANGED <<text, path, derived>>

SegWith(l) ==
  /\ Idle
  /\ seg' = SegWithResult(l)
  /\ UNCHANGED <<text, path, derived>>

\* DerivationSeg::standard: the segment <0;1>
SegStandard ==
  /\ Idle
  /\ seg' = SegOk({0, 1})
  /\ UNCHANGED <<text, path, derived>>

Next ==
  /\ Idle
  /\ \/ \E t \in Texts : Parse(t)
     \/ \E from \in 0..(B - 1), m \in MaxCounts : DeriveBatchCall(from, m)
     \/ \E t \in SegTexts : SegParse(t)
     \/ \E i \in 0..(B - 1) : SegNew(i)
     \/ \E l \in SegWithInputs : SegWith(l)
     \/ SegStandard

Spec == Init /\ [][Next]_vars

-----------------------------------------------------------------------------
(***************************************************************************)
(* A parsed path displays and parses back to itself (spec 8, property 2), *)
(* whatever hardened marker and leading '/' the text used.                *)
(***************************************************************************)
PathRoundTrip ==
  path.ok => PathFromStr(PathDisplay(path.p)) = path

(***************************************************************************)
(* shared_prefix(master) is len(master) when master is a prefix of the    *)
(* path and 0 otherwise (spec 4.1), for every parsed path and master,     *)
(* including the empty master and a master equal to the path.            *)
(***************************************************************************)
SharedPrefixIsPrefixLength ==
  path.ok =>
    \A m \in Masters :
      SharedPrefix(path.p, m) = IF IsPrefix(m, path.p) THEN Len(m) ELSE 0

(***************************************************************************)
(* terminal() is (keychain, index) exactly when the last two indices are  *)
(* normal and fit a u8 and a u16 (spec 3), and then carries their values. *)
(***************************************************************************)
TerminalSpec(p) ==
  IF /\ Len(p) >= 2
     /\ ~p[Len(p) - 1].h /\ ~Last(p).h
     /\ ChildNumber(p[Len(p) - 1]) < U8 /\ ChildNumber(Last(p)) < U16
  THEN [some |-> TRUE, keychain |-> ChildNumber(p[Len(p) - 1]), index |-> ChildNumber(Last(p))]
  ELSE NoTerminal

TerminalFitsOrNone ==
  path.ok => Terminal(path.p) = TerminalSpec(path.p)

(***************************************************************************)
(* derive_batch(change, from, max_count) derives at the consecutive       *)
(* normal indices from, from+1, ..., never at a hardened one: exactly     *)
(* max_count of them when the normal range allows (one when max_count is *)
(* 0, the count being tested after the first derivation), and every      *)
(* index up to the last normal one when it does not.                      *)
(***************************************************************************)
DeriveBatchIsConsecutive ==
  derived.called =>
    derived.out = [i \in 1..Min({Max({derived.max, 1}), B - derived.from})
                   |-> <<0, derived.from + i - 1>>]

(***************************************************************************)
(* A segment, parsed or built by new, with or standard, displays and      *)
(* parses back to the same set of indices (spec 2: "<a;b;...>" for more   *)
(* than one index, the bare index for one), whatever order, duplicates    *)
(* and bracket runs its text or list had.                                 *)
(***************************************************************************)
SegRoundTrip ==
  seg.ok => SegFromStr(SegDisplay(seg.p)) = seg
=============================================================================
