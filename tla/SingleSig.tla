----------------------------- MODULE SingleSig -----------------------------
(***************************************************************************)
(* Witness assembly of the single-key descriptors of                      *)
(* src/descriptors/src/singlesig.rs: Pkh, Wpkh and ShWpkh legacy_witness.  *)
(* The signer collects key signatures in an IndexMap keyed by key origin  *)
(* (insertion ordered; re-inserting an origin replaces its value in      *)
(* place); the finalizer asks the descriptor for its sig_script and       *)
(* witness from that map.  An origin is a master fingerprint and a path;  *)
(* the key of a signature is identified by its origin.                    *)
(***************************************************************************)
EXTENDS Integers, Sequences, SequencesExt

CONSTANTS
  Origins,        \* key origins [fp |-> master fingerprint, path |-> indices]
  Sigs,           \* signatures (model values)
  OurOrigin,      \* the origin of the descriptor's xpub
  Terminals,      \* (keychain, index) terminals the wallet derives at
  MaxSigs         \* bound on the entries of the keysig map

Variants == {"Pkh", "Wpkh", "ShWpkh"}

\* one item of a script or witness: a signature, a public key, or the
\* push of the P2WPKH redeem script of a key
SigItem(s) == [t |-> "sig", v |-> s]
KeyItem(o) == [t |-> "key", v |-> o]
RedeemItem(o) == [t |-> "redeem", v |-> o]

NoWitness == [some |-> FALSE, stack |-> <<>>]
Witness(stack) == [some |-> TRUE, stack |-> stack]
NoResult == [some |-> FALSE, sigScript |-> <<>>, witness |-> NoWitness]
Result(sigScript, witness) == [some |-> TRUE, sigScript |-> sigScript, witness |-> witness]

VARIABLES
  keysigs,     \* the IndexMap<&KeyOrigin, LegacyKeySig>, as <<origin, sig>> pairs
  variant,     \* the descriptor last asked for a witness
  result       \* what its legacy_witness returned

vars == <<keysigs, variant, result>>

(***************************************************************************)
(* KeyOrigin::is_subset_of (outside src/): same master fingerprint and    *)
(* the other path extends ours.                                           *)
(***************************************************************************)
IsSubsetOf(ours, other) == ours.fp = other.fp /\ IsPrefix(ours.path, other.path)

\* KeyOrigin::with (outside src/): the xpub origin extended by the terminal
KeyOriginWith(xpubOrigin, t) ==
  [fp |-> xpubOrigin.fp, path |-> xpubOrigin.path \o <<t.keychain, t.index>>]

(***************************************************************************)
(* legacy_keyset(terminal) of Pkh, Wpkh and ShWpkh: the one key derived   *)
(* at the terminal, with the origin KeyOrigin::with(xpub origin, terminal);*)
(* <StdDescr as Descriptor>::legacy_keyset dispatches on the variant.     *)
(***************************************************************************)
PkhLegacyKeyset(t) == {KeyOriginWith(OurOrigin, t)}

\* mutant: the key origin taken from the master, not from the xpub origin
WpkhLegacyKeysetFromMaster(t) == {KeyOriginWith([fp |-> OurOrigin.fp, path |-> <<>>], t)}

WpkhLegacyKeyset(t) == {KeyOriginWith(OurOrigin, t)}

ShWpkhLegacyKeyset(t) == {KeyOriginWith(OurOrigin, t)}

LegacyKeyset(v, t) ==
  CASE v = "Pkh"    -> PkhLegacyKeyset(t)
    [] v = "Wpkh"   -> WpkhLegacyKeyset(t)
    [] v = "ShWpkh" -> ShWpkhLegacyKeyset(t)

(***************************************************************************)
(* SpkClass (descriptor.rs) and the class and derive of each variant: the *)
(* derived script is abstracted to its DerivedScript form and the kind of *)
(* its scriptPubkey.                                                      *)
(***************************************************************************)
\* SpkClass::is_segwit
IsSegwit(c) == c \in {"P2wpkh", "P2wsh", "P2tr"}

\* the class each variant's Descriptor::class declares
PkhClass == "P2pkh"
WpkhClass == "P2wpkh"

\* mutant: sh(wpkh) declared by the class of its inner script
ShWpkhClassInner == "P2wpkh"

ShWpkhClass == "P2sh"

\* <StdDescr as Descriptor>::class dispatches on the variant
Class(v) ==
  CASE v = "Pkh"    -> PkhClass
    [] v = "Wpkh"   -> WpkhClass
    [] v = "ShWpkh" -> ShWpkhClass

\* Derive::derive of each variant: Bare(p2pkh), Bare(p2wpkh) or NestedKey
PkhDerive == [form |-> "Bare", spk |-> "p2pkh"]
WpkhDerive == [form |-> "Bare", spk |-> "p2wpkh"]
ShWpkhDerive == [form |-> "NestedKey", spk |-> "p2wpkh"]

DeriveScript(v) ==
  CASE v = "Pkh"    -> PkhDerive
    [] v = "Wpkh"   -> WpkhDerive
    [] v = "ShWpkh" -> ShWpkhDerive

\* DerivedScript::to_script_pubkey (outside src/, spec 4.2): a nested key
\* is paid to the P2SH of its P2WPKH redeem script
ScriptClass(d) ==
  IF d.form = "NestedKey" THEN "P2sh"
  ELSE IF d.spk = "p2pkh" THEN "P2pkh" ELSE "P2wpkh"

\* keysigs.iter().find(|(origin, _)| our_origin.is_subset_of(origin)):
\* the position of the first match, 0 when none
FindKeySig(ks) ==
  LET hits == {i \in DOMAIN ks : IsSubsetOf(OurOrigin, ks[i][1])}
  IN IF hits = {} THEN 0 ELSE Min(hits)

(***************************************************************************)
(* legacy_witness of each variant, from the first matching key signature *)
(* (position i > 0); each returns None when i = 0.                        *)
(***************************************************************************)
PkhLegacyWitness(ks, i) ==
  IF i = 0 THEN NoResult
  ELSE Result(<<SigItem(ks[i][2]), KeyItem(ks[i][1])>>, NoWitness)

WpkhLegacyWitness(ks, i) ==
  IF i = 0 THEN NoResult
  ELSE Result(<<>>, Witness(<<SigItem(ks[i][2]), KeyItem(ks[i][1])>>))

ShWpkhLegacyWitness(ks, i) ==
  IF i = 0 THEN NoResult
  ELSE Result(<<>>, Witness(<<SigItem(ks[i][2]), KeyItem(ks[i][1])>>))

\* <StdDescr as Descriptor>::legacy_witness dispatches on the variant
LegacyWitness(v, ks) ==
  CASE v = "Pkh"    -> PkhLegacyWitness(ks, FindKeySig(ks))
    [] v = "Wpkh"   -> WpkhLegacyWitness(ks, FindKeySig(ks))
    [] v = "ShWpkh" -> ShWpkhLegacyWitness(ks, FindKeySig(ks))

\* IndexMap::insert: a new origin is appended, a known one keeps its place
InsertKeySig(o, s) ==
  /\ \/ /\ \E i \in DOMAIN keysigs : keysigs[i][1] = o
        /\ keysigs' = [i \in DOMAIN keysigs |->
                         IF keysigs[i][1] = o THEN <<o, s>> ELSE keysigs[i]]
     \/ /\ \A i \in DOMAIN keysigs : keysigs[i][1] # o
        /\ Len(keysigs) < MaxSigs
        /\ keysigs' = Append(keysigs, <<o, s>>)
  /\ UNCHANGED <<variant, result>>

\* the signer signs the key of the descriptor's keyset at a terminal
SignKeyset(v, t, s) ==
  \E o \in LegacyKeyset(v, t) : InsertKeySig(o, s)

Finalize(v) ==
  /\ variant' = v
  /\ result' = LegacyWitness(v, keysigs)
  /\ UNCHANGED keysigs

Init ==
  /\ keysigs = <<>>
  /\ variant = "Pkh"
  /\ result = NoResult

\* signatures of any origin (other cosigners' keys included) may be added
Next ==
  \/ \E o \in Origins, s \in Sigs : InsertKeySig(o, s)
  \/ \E v \in Variants, t \in Terminals, s \in Sigs : SignKeyset(v, t, s)
  \/ \E v \in Variants : Finalize(v)

Spec == Init /\ [][Next]_vars

-----------------------------------------------------------------------------
(***************************************************************************)
(* A wallet that has signed the key its own descriptor derives at some    *)
(* terminal can always spend: whatever else the map holds (other origins,  *)
(* earlier signatures), every variant's legacy_witness then returns a     *)
(* witness.  It ties legacy_keyset's origins to legacy_witness's search.  *)
(***************************************************************************)
OwnKeysetSpendable ==
  (\E i \in DOMAIN keysigs, t \in Terminals, v \in Variants : keysigs[i][1] \in LegacyKeyset(v, t))
    => \A v \in Variants : LegacyWitness(v, keysigs).some

(***************************************************************************)
(* The assembled spend has the shape of spec 4.5: pkh puts <sig> <key> in *)
(* the sig_script and has no witness; wpkh has witness [sig, key] and an  *)
(* empty sig_script; sh(wpkh) has witness [sig, key] and a sig_script     *)
(* that pushes the redeem script.                                          *)
(***************************************************************************)
(***************************************************************************)
(* The class a descriptor declares is the class of the scriptPubkey its   *)
(* derive() produces (the class sets the dust limit and, through          *)
(* is_segwit, the sighash algorithm), and a descriptor of a segwit class  *)
(* is spent from the witness with an empty sig_script.  It relates class, *)
(* derive and legacy_witness, three methods written apart per variant.    *)
(***************************************************************************)
ClassMatchesSpend ==
  result.some =>
    /\ ScriptClass(DeriveScript(variant)) = Class(variant)
    /\ IsSegwit(Class(variant)) => result.sigScript = <<>> /\ result.witness.some

SpendShape(v, s, o) ==
  CASE v = "Pkh"    -> Result(<<SigItem(s), KeyItem(o)>>, NoWitness)
    [] v = "Wpkh"   -> Result(<<>>, Witness(<<SigItem(s), KeyItem(o)>>))
    [] v = "ShWpkh" -> Result(<<RedeemItem(o)>>, Witness(<<SigItem(s), KeyItem(o)>>))

SpendMatchesSpec ==
  result.some => \E o \in Origins, s \in Sigs : result = SpendShape(variant, s, o)
=============================================================================
