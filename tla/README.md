# TLA+ models of bp-std

This directory holds TLA+ models of the parts of bp-std (the Bitcoin
standard library in `src/`) that are worth exploring exhaustively. It has
the modules, the TLC configurations that check them, and `PROJECT.json`.
That file lists:

- every component and whether it is modelled;
- every run and what it checks;
- one mutant for each checked property;
- the source lines each definition translates;
- the findings and the hazards of the code.

The library is single-threaded and has no I/O of its own. Each component
is a set of value types whose methods a caller calls one at a time, or a
builder or iterator the caller drives. So the interesting behaviours are:

- sequences of calls;
- boundary values;
- the inputs a parser may be given.

There are no threads, messages or crashes to interleave. No fairness is
assumed anywhere, and no liveness property is stated, because nothing in
the code schedules itself. Whether a builder is ever finished or a
factory ever drained is up to the caller. Every "eventually" the code
itself guarantees is the termination of a single call, and TLC sees that
directly. (For example, the loop of `derive_batch` and the fold of
`from_leaves` are evaluated inside one step.)

## How the parts interact

A wallet builds a descriptor from text. `compiler/compile.rs` parses the
text into one of the 17 `StdDescr` variants. To spend, the signer does
three things:

1. It reads the derivation of an input.
2. It takes the path's `terminal()` (keychain, index) and the key
   origins.
3. It collects signatures into an insertion-ordered map keyed by origin.

The descriptor then assembles the `sig_script` and witness from that map
(`legacy_witness` in `singlesig.rs` and `descriptor.rs`). Taproot
descriptors carry a script tree built with `TapTreeBuilder`, and spends
iterate it with `ControlBlockFactory` (`taptree.rs`). Signatures carry a
sighash byte (`sigtypes.rs`). Transactions carry absolute timelocks
(`timelocks.rs`), and a PSBT names its version (`PsbtVer` in
`psbt/src/lib.rs`). Extended keys and addresses travel as Base58Check
strings (`base58.rs`).

## Modules

Each module is written from the code. Every definition that models code
is listed in `PROJECT.json` "map" with the lines it translates. A few
definitions are modelled from the spec because their code lives outside
`src/`; these are marked `spec_modelled`:

- `MerkleBuoy`;
- `KeyOrigin::is_subset_of`;
- `LockTime::is_height_based`;
- the index parsing and Display of `index.rs`;
- the `IndexMap` insert done by the signer;
- `u32`'s own `FromStr` and decimal `Display`.

| module | code | state | actions |
|---|---|---|---|
| `TapTree` | `derive/src/taptree.rs` | builder leaves, buoy and `finalized`; the finished tree; the factory's `remaining_leaves`; what `next` yielded; which object the caller holds; the last `from_leaves` call (its list and error) | `Drop` (the caller drops what it holds), the constructors `New`, `FromLeaves` and `WithSingleLeaf`, `PushLeaf` (both outcomes of `push_leaf`/`with_leaf`, through the operator `PushLeafOn`), `FinishOk`, `FinishErr`, `FactoryWith`, `FactoryWithPanics` (the `todo!()` of `merkle_root`), `FactoryNext`, `FactoryExhausted`, `IntoRemainingLeaves`. `FromLeaves` folds `PushLeafOn` over the list on a fresh builder, as the code's loop does, and leaves that builder behind |
| `Descriptor` | `descriptors/src/compiler/compile.rs`, `descriptors/src/descriptor.rs` | the parser called (`StdDescr::from_str` or the `from_str` of one descriptor type, as the `roundtrip` unit tests call both); the syntax tree given to it; its result (Ok variant with threshold and key count, Err, or panic) | `Parse`. Its operators follow every `from_str` (`ShWpkh` included), `check_forms`, `parse_multi_form`, `parse_tr_form` and the dispatch of `Sh`, `Wsh`, `ShWsh`, `Tr` and `StdDescr`. Those four enum parsers return their own variants (`Wrap`, for `.map(Sh::ShMulti)` and the like). `StdDescr::from_str`, and `Parse` for the test's `d2.into()`, convert them with the `From` impls of `descriptor.rs` (`StdFromSh`, `StdFromWsh`, `StdFromShWsh` and `StdFromTr`) |
| `Timelock` | `psbt/src/timelocks.rs`, `psbt/src/lib.rs` | the `LockTimestamp` and `LockHeight` the caller holds; the last error; the number last given to a `PsbtVer` conversion and its result | one action per constructor, `try_from` and `from_str` of each type. `StampFromStr` and `HeightFromStr` lowercase the text, test `starts_with` and `ends_with(')')`, slice at 5 or 7, trim every trailing `)` and parse the rest as a u32 (an optional `+` and decimal digits); `StampDisplay` and `HeightDisplay` write the prefix, the decimal digits and `)`; `VerTryFromStandard` and `VerTryFrom` for `PsbtVer::try_from_standard_u32` and `TryFrom<usize>`. The usize cast `value as u32` is a reduction modulo `U32Max + 1` |
| `Path` | `derive/src/path.rs`, `std/src/derive.rs` | the text given to `DerivationPath::from_str` and its result; or the `derive_batch` call (`from`, `max_count`, result); or the text given to `DerivationSeg::from_str` and its result (`seg`) | The caller makes one call: `Parse`, `DeriveBatchCall`, `SegParse`, or one of the segment constructors `SegNew`, `SegWith` and `SegStandard`. `SegWith` is given every list of up to `SegMax + 1` normal indices. `SegFromStr` is the segment parser: it trims brackets, splits on `;`, collects the indices into a set and confines it to 1..`SegMax`. `SegDisplay` writes the set in ascending order. `Terminal`, `SharedPrefix` and `PathDisplay` are operators the properties apply to the parsed path. `DeriveBatchLoop` is the loop of `derive_batch`, one recursion per iteration, with the u8 count and the checked increment of a normal index |
| `Sighash` | `psbt/src/sigtypes.rs` | the held `SighashType`; the raw value it was decoded from; the error flag | `Construct`, `DecodeConsensus`, `DecodeStandard` (`from_standard`, `from_psbt_u8`, the last byte of `EcdsaSig::from_bytes`), `Reencode` (`to_vec` then `from_bytes`) |
| `SingleSig` | `descriptors/src/singlesig.rs`, `descriptor.rs` | the keysig map (origin, signature) in insertion order; the variant last asked; its result | `InsertKeySig` (a new origin is appended, a known one is replaced in place), `SignKeyset` (the signer signs for an origin `legacy_keyset` of Pkh, Wpkh or ShWpkh returns at a terminal), `Finalize` (`legacy_witness`). `Class` and `DeriveScript` are each variant's `class()` and `derive()`, the latter abstracted to the form of the derived script |
| `Base58` | `invoice/src/base58.rs` | the input string or bytes; the function called; its result | `DecodeCall`, `DecodeCheckCall`, `EncodeCall`, `EncodeCheckCall`. `Decode`, `DecodeCheck` and `FormatIter` translate the loops byte by byte, including the `SmallVec` stack/heap split |

Data is abstracted to what the properties tell apart:

- Keys and scripts are model values.
- A descriptor text is its syntax tree, because the tokenizer is outside
  `src/`.
- A path text is a leading-slash flag and tokens that each carry a
  number and a hardened mark.
- A timelock text is a sequence of characters; only the letters the
  parsers test have an upper case.
- The four checksum bytes of sha256d are an abstract function, because
  the code only compares them.

Integers keep their meaning where the code compares them. TLC integers are
32-bit, so the u32 constants are parameters:

- `LOCKTIME_THRESHOLD` and `u32::MAX` in `Timelock`;
- 2^31, 2^16 and 2^8 in `Path`.

MC modules shrink these constants while keeping their order. The code only
compares values with them (or reduces modulo 2^16), so every outcome has
the same shape at the smaller scale. Base58 keeps the real bases 58 and
256. Its inline `SmallVec` capacity (100) is a parameter set to 2, so
that outputs spill to the heap.

## Runs

| run | cfg | expect | what it shows |
|---|---|---|---|
| `taptree_builder` | `MCTapTree.cfg` | pass | Every sequence of up to 5 leaves of depth 0..3 is covered. `push_leaf` and `finish` finalize the builder exactly when the leaves pushed so far form one complete binary tree in depth-first order (reference: a recursive reader of BIP-341 trees). After finalization, pushes are refused. For every list of up to 4 leaves, `from_leaves` returns a tree exactly when the list is one tree. It returns `MountainRange` exactly when a proper prefix already is one, and `Unfinalized` otherwise. Single-leaf trees drain through the factory |
| `taptree_display_bip386` | `MCTapTree_DisplayIsBip386.cfg` | violation | `Display` of a finished tree is not the BIP-386 `{left,right}` form. Scripts are never written, and commas are missing after a closed subtree. The last leaf trips `debug_assert_ne!(level, 0)` |
| `descriptor_roundtrip` | `MCDescriptor.cfg` | pass | All 23148 syntax trees up to three levels deep are given to `StdDescr::from_str`, and those of each keyword to the 17 parsers of that keyword (88734 calls). Every tree a parser accepts renders back as itself. Thresholds and key counts stay within u4/16 before taproot and u16/999 under `tr`. |
| `descriptor_grammar` | `MCDescriptor_ParseMatchesGrammar.cfg` | violation | `from_str` panics on `tr(KEY,TREE)` (`TrScript` pops the key before the tree). It rejects `sh(wpkh(KEY))` (`Sh` never calls `ShWpkh::from_str`). It accepts multisig with threshold 0 or above the key count. `check_forms` lets an argument list one short pass, so `TrMulti::from_str("tr(KEY)")` panics |
| `timelock_height` | `MCTimelock.cfg` | pass | Whatever calls are made, a `LockHeight` stays below the threshold and prints and parses back to itself (`HeightRoundTrip`), through the slice `s[7..]`, `trim_end_matches(')')` and the digits of one- and two-digit heights. The u32 and usize conversions to `PsbtVer` agree on every u32, and a version converts back to the number it came from (`PsbtVerConversionsAgree`) |
| `timelock_stamp` | `MCTimelock_StampIsTimestamp.cfg` | violation | `LockTimestamp::try_from_consensus_u32` tests the inverted condition. A timestamp below the threshold is accepted, and so is `from_str("time(1)")` |
| `path` | `MCPath.cfg` | pass | Every parsed path round-trips through Display, whatever the hardened mark and leading slash. `shared_prefix` equals the prefix length or 0. `derive_batch` derives at consecutive normal indices, and never at a hardened one. It derives `max_count` of them when the range allows, one for `max_count` 0, and otherwise every index up to the last normal one. Every segment `DerivationSeg::from_str` accepts displays as a text that parses back to the same set (`SegRoundTrip`) |
| `path_terminal` | `MCPath_TerminalFitsOrNone.cfg` | violation | `terminal()` truncates an index that does not fit a u16 (`as u16`) instead of returning None |
| `sighash` | `MCSighash.cfg` | pass | Every u8 value and three wider u32 values are covered. `from_consensus` masks like Bitcoin Core. Every `SighashType` written by `EcdsaSig::to_vec` reads back unchanged |
| `singlesig_witness` | `MCSingleSig.cfg` | pass | Over any sequence of inserts, re-signings, signatures for a `legacy_keyset` origin, and finalizations: `OwnKeysetSpendable`: once the signer has signed for an origin `legacy_keyset` returned, every single-key variant finds a signature to spend with. `ClassMatchesSpend`: each variant's declared class is the class of the scriptPubkey it derives, and a segwit class is spent from the witness. `sh(wpkh)` declares P2sh, so `Descriptor::is_segwit` is false for it even though its spend is segwit |
| `singlesig_spend_shape` | `MCSingleSig_SpendMatchesSpec.cfg` | violation | `ShWpkh::legacy_witness` returns an empty `sig_script`. The spec requires the push of the P2WPKH redeem script |
| `base58` | `MCBase58.cfg` | pass | `decode` and `encode` are checked against the base-58 value of the input: leading `1`s and zero bytes, no panic of the scratch-buffer assertion, digit order across the SmallVec spill. `decode_check` and `encode_check` invert each other |

Each property of a passing run has a mutant in `PROJECT.json`. The mutant
replaces one mapped definition with a plausible bug, and TLC then finds
the property violated. Examples:

- the finalized guard of `push_leaf` dropped;
- the result of `push_leaf` ignored in `from_leaves`;
- `count > max_count` in `derive_batch`;
- `legacy_keyset` of `Wpkh` giving the master's origin;
- a re-signed origin appended to the keysig map rather than replaced;
- the literal counted as a key;
- the height bound made inclusive;
- the leading `/` kept;
- `take_while` replaced by a filter;
- the 0x8f mask;
- the subset test reversed;
- the scratch buffer one byte short;
- the heap chained before the stack.

## Bounds

- **TapTree.** Depths 0..3 and 5 leaves reach every tree shape up to 4
  leaves, the trees with unequal depths, and pushes after finalization.
  `from_leaves` gets each of the 4681 lists of up to 4 leaves. These
  include complete trees, lists with leaves after a complete tree, and
  incomplete lists. The two scripts are symmetric.
- **Descriptor.** The inputs mix keys, scripts and literals 0, 1, 2 and
  16 (16 is the first value a u4 cannot hold). They include:
  - multisig thresholds with 1–2 keys;
  - every nesting of `sh`, `wsh`, `sh(wsh)` and `tr` over the
    multisig and single-key forms;
  - forms with wrong arity.

  A descriptor type's own parser is given only the trees of its keyword.
  Any other name fails its first `check_forms` with an error, so the
  left-out calls cannot panic or succeed.
- **Timelock.** A threshold of 12 and u32 max of 14 put values on both
  sides of the threshold and one above u32, and give heights of one and
  of two digits. The texts are Display's output for every value, "0",
  "NONE", "Height(3)", an empty number, a `+` sign, a doubled `)`, a
  missing `)`, "time(13))" and "no". The usize values
  0..33 span two widths of the scaled u32.
  The cast therefore wraps onto 0 and onto 2.
- **Path.** Numbers 0, 1, 2, 4, 7 and 8 with B = 8, U16 = 4 and U8 = 2
  give values inside each bound, at it and above it, with all four
  hardened marks, the empty token, and 1–3 tokens. `derive_batch` starts
  at every normal index 0..7. Its `max_count` values are 0..9 and 255, so
  batches run both into the count and into the last normal index.
  Segment texts are 0–2 leading `<`, 1–3 pieces joined by `;`, and 0–2
  trailing `>`. A piece is empty, a bracket, one of 0, 1, 2 and 8, or a
  hardened 1. With `SegMax` = 2, three distinct indices exceed the
  confinement while duplicates collapse.
- **SingleSig.** The origins are:
  - our account origin f1/1;
  - the keys `legacy_keyset` derives below it at terminals (0,0) and
    (1,0);
  - a key of another account of f1;
  - a key of another master f2.

  With two signatures, these allow a foreign origin, a matching one and
  a re-signed origin. There are up to three entries.
- **Base58.**
  - Strings of up to 4 bytes over valid and invalid characters (including
    a non-ASCII byte).
  - Data of up to 3 bytes over 0, 1, 57, 58 and 255.
  - The `encode_check` output of short data, so that `decode_check`
    succeeds.
  - Three-byte values need five digits, which is more than the capacity
    of 2.

## Not modelled

- No abstract specification is refined. The one candidate, the keysig
  map, is an `IndexMap` keyed by origin: "one signature per origin" is
  its type, and an abstract map would restate it.
- `network.rs` is five-entry tables: the names for `Display` and
  `FromStr`, the genesis hashes with their `TryFrom` inverse, and the
  `AddressNetwork` mapping. `chain.rs` declares data records without
  methods.
- `PsbtVer::max()` is a constant. `TryFrom<usize>` reports a number above
  u32 as `PsbtUnsupportedVer(value as u32)`, so 2^32 + 2 is reported as an
  unsupported v2. The model reaches this case, but no property checks it,
  because spec 4.4 does not say what the error holds.
- `descriptor.rs` is largely one-line delegation to the variants. Its
  `DescrId` is a hash of a derived script.
- The `DerivationSeg` accessors (`count`, `at`, `first`, `is_distinct`,
  `Index`) are queries. The `From<[I; N]>` constructors could only fail
  above the capacity of 8, which the model scales down. The parser and
  the constructors `new`, `with` and `standard` are modelled. That
  model shows one leniency, which no run checks because the spec only
  says how a segment renders. The bracketed form is chosen when trimming
  removed two characters in total, so `<<1` and `1>>` parse as {1}.
- The derive calls themselves (`derive`, `derive_address*` in
  `std/src/derive.rs`) are secp256k1 and address encoding.
- The order in which `ControlBlockFactory::next` yields leaves
  (last-pushed first, as spec 4.3 asks) cannot be observed.
  `ControlBlockFactory::with` panics in `merkle_root` for every tree of
  more than one leaf, so no factory ever holds two leaves.
- `TapTree::map` and the `Deref`/`IntoIterator` impls change no state.
- The parts the spec names that are not in `src/`: the PSBT codec and
  signer, xpub types, index arithmetic, and the tokenizer.
- Key derivation and hashing (secp256k1, sha256) are outside the model.
  Keys, scripts and digests are model values or abstract functions.
