----------------------------- MODULE Descriptor -----------------------------
(***************************************************************************)
(* Descriptor parsing of src/descriptors/src/compiler/compile.rs:         *)
(* StdDescr::from_str and the from_str of every descriptor form it        *)
(* dispatches to, with check_forms, parse_multi_form and parse_tr_form.   *)
(*                                                                         *)
(* The input is the syntax tree ScriptExpr produced by the tokenizer (not *)
(* part of src/): a call is a record [name, args] and an argument is a key *)
(* [k |-> "Key"], a decimal literal [k |-> "Lit", v |-> n], a tap tree    *)
(* [k |-> "Tree"] or a nested call [k |-> "Script", e |-> call].  The     *)
(* string prefix tests of the code (s.starts_with("sh"), rest.starts_with *)
(* ("multi")...) are tests on the name of the call or of its first        *)
(* argument.  A parse returns Ok(descriptor), Err(error) or panics.       *)
(***************************************************************************)
EXTENDS Integers, Sequences, SequencesExt, Functions

CONSTANTS Inputs   \* the syntax trees offered to the parsers

VARIABLES
  parser,   \* the FromStr implementation called
  input,    \* the syntax tree being parsed
  result    \* NotParsed, or what the parser returned

vars == <<parser, input, result>>

K == [k |-> "Key"]
T == [k |-> "Tree"]
L(v) == [k |-> "Lit", v |-> v]
S(e) == [k |-> "Script", e |-> e]
Call(name, args) == [name |-> name, args |-> args]

\* a parsed descriptor: its type (a StdDescr variant, or a variant of the
\* Sh, Wsh, ShWsh or Tr enum such as "Sh::WshMulti"), threshold and keys
D(variant, k, n) == [v |-> variant, k |-> k, n |-> n]
NoDescr == D("none", 0, 0)

Ok(d) == [r |-> "ok", d |-> d, e |-> "none"]
Err(e) == [r |-> "err", d |-> NoDescr, e |-> e]
Panic == [r |-> "panic", d |-> NoDescr, e |-> "none"]
NotParsed == [r |-> "none", d |-> NoDescr, e |-> "none"]

\* Result::map(Enum::Variant): an Ok descriptor is wrapped as that variant
Wrap(res, variant) == IF res.r = "ok" THEN Ok([res.d EXCEPT !.v = variant]) ELSE res

\* s.starts_with(kw) for the keywords of the grammar
StartsWith(name, kw) ==
  \/ name = kw
  \/ <<name, kw>> \in {<<"multi_a", "multi">>, <<"sortedmulti_a", "sortedmulti">>}

(***************************************************************************)
(* DescrExpr::check_expr                                                   *)
(***************************************************************************)
CheckExpr(form, arg) ==
  \/ form \in {"Lit", "VariadicLit"} /\ arg.k = "Lit"
  \/ form \in {"Key", "VariadicKey"} /\ arg.k = "Key"
  \/ form = "Script" /\ arg.k = "Script"
  \/ form = "Tree" /\ arg.k = "Tree"

(***************************************************************************)
(* check_forms: form and children are zipped (the zip takes one more form *)
(* element when the children run out first), a form element left over    *)
(* fails, and children left over must all be keys (literals) when the     *)
(* form ends with VariadicKey (VariadicLit) and must not exist otherwise. *)
(***************************************************************************)
CheckForms(e, ident, form) ==
  LET ch     == e.args
      zipped == IF Len(form) <= Len(ch) THEN Len(form) ELSE Len(ch)
      used   == IF Len(form) > Len(ch) THEN Len(ch) + 1 ELSE Len(form)
      rest   == SubSeq(ch, zipped + 1, Len(ch))
      lastF  == form[Len(form)]
  IN [ok |-> /\ e.name = ident
             /\ \A i \in 1..zipped : CheckExpr(form[i], ch[i])
             /\ used = Len(form)
             /\ CASE lastF = "VariadicKey" -> \A i \in DOMAIN rest : rest[i].k = "Key"
                  [] lastF = "VariadicLit" -> \A i \in DOMAIN rest : rest[i].k = "Lit"
                  [] OTHER -> rest = <<>>,
      ch |-> ch]

\* form.pop() returns an argument of the given kind (else unreachable!())
PopIs(ch, kind) == ch # <<>> /\ Last(ch).k = kind

(***************************************************************************)
(* Pkh/Wpkh/TrKey::from_str: one key argument.                            *)
(***************************************************************************)
SingleKeyForm(e, name, variant) ==
  LET f == CheckForms(e, name, <<"Key">>)
  IN IF ~f.ok THEN Err("InvalidArgs")
     ELSE IF PopIs(f.ch, "Key") THEN Ok(D(variant, 0, 1))
     ELSE Panic

PkhFromStr(e) == SingleKeyForm(e, "pkh", "Pkh")
WpkhFromStr(e) == SingleKeyForm(e, "wpkh", "Wpkh")
TrKeyFromStr(e) == SingleKeyForm(e, "tr", "TrKey")

(***************************************************************************)
(* The threshold-and-keys call shared by parse_multi_form and             *)
(* parse_tr_form: form [Lit, VariadicKey], form.remove(0) for the         *)
(* threshold, parsed as an integer of at most maxK, then the keys put in  *)
(* a ConfinedVec of 1..maxN elements.                                     *)
(***************************************************************************)
\* mutant: the threshold literal counted among the keys
ThresholdAndKeysCountsLit(s, inner, variant, maxK, maxN) ==
  LET f == CheckForms(s, inner, <<"Lit", "VariadicKey">>)
  IN IF ~f.ok THEN Err("InvalidArgs")
     ELSE IF f.ch = <<>> \/ f.ch[1].k # "Lit" THEN Panic
     ELSE IF f.ch[1].v > maxK THEN Err("InvalidThreshold")
     ELSE IF Len(f.ch) \notin 1..maxN THEN Err("Confinement")
     ELSE Ok(D(variant, f.ch[1].v, Len(f.ch)))

ThresholdAndKeys(s, inner, variant, maxK, maxN) ==
  LET f == CheckForms(s, inner, <<"Lit", "VariadicKey">>)
  IN IF ~f.ok THEN Err("InvalidArgs")
     ELSE IF f.ch = <<>> \/ f.ch[1].k # "Lit" THEN Panic
     ELSE IF f.ch[1].v > maxK THEN Err("InvalidThreshold")
     ELSE IF Len(f.ch) - 1 \notin 1..maxN THEN Err("Confinement")
     ELSE Ok(D(variant, f.ch[1].v, Len(f.ch) - 1))

(***************************************************************************)
(* parse_multi_form(s, outer, medium, inner): outer(medium(inner(...)))   *)
(* or outer(inner(...)); the threshold is a u4, at most 16 keys.          *)
(***************************************************************************)
\* mutant: the threshold range taken one too wide for a u4
MultiFormWideThreshold(e, outer, medium, inner, variant) ==
  LET f1 == CheckForms(e, outer, <<"Script">>)
      f2 == CheckForms(Last(f1.ch).e, medium, <<"Script">>)
  IN IF ~f1.ok THEN Err("InvalidArgs")
     ELSE IF ~PopIs(f1.ch, "Script") THEN Panic
     ELSE IF medium = "none" THEN ThresholdAndKeys(Last(f1.ch).e, inner, variant, 16, 16)
     ELSE IF ~f2.ok THEN Err("InvalidArgs")
     ELSE IF ~PopIs(f2.ch, "Script") THEN Panic
     ELSE ThresholdAndKeys(Last(f2.ch).e, inner, variant, 16, 16)

MultiForm(e, outer, medium, inner, variant) ==
  LET f1 == CheckForms(e, outer, <<"Script">>)
      f2 == CheckForms(Last(f1.ch).e, medium, <<"Script">>)
  IN IF ~f1.ok THEN Err("InvalidArgs")
     ELSE IF ~PopIs(f1.ch, "Script") THEN Panic
     ELSE IF medium = "none" THEN ThresholdAndKeys(Last(f1.ch).e, inner, variant, 15, 16)
     ELSE IF ~f2.ok THEN Err("InvalidArgs")
     ELSE IF ~PopIs(f2.ch, "Script") THEN Panic
     ELSE ThresholdAndKeys(Last(f2.ch).e, inner, variant, 15, 16)

(***************************************************************************)
(* ShWpkh::from_str: sh(SCRIPT) whose script is wpkh(KEY).                *)
(***************************************************************************)
ShWpkhFromStr(e) ==
  LET f1 == CheckForms(e, "sh", <<"Script">>)
      f2 == CheckForms(Last(f1.ch).e, "wpkh", <<"Key">>)
  IN IF ~f1.ok THEN Err("InvalidArgs")
     ELSE IF ~PopIs(f1.ch, "Script") THEN Panic
     ELSE IF ~f2.ok THEN Err("InvalidArgs")
     ELSE IF ~PopIs(f2.ch, "Key") THEN Panic
     ELSE Ok(D("ShWpkh", 0, 1))

ShMultiFromStr(e) == MultiForm(e, "sh", "none", "multi", "ShMulti")
ShSortedMultiFromStr(e) == MultiForm(e, "sh", "none", "sortedmulti", "ShSortedMulti")
WshMultiFromStr(e) == MultiForm(e, "wsh", "none", "multi", "WshMulti")
WshSortedMultiFromStr(e) == MultiForm(e, "wsh", "none", "sortedmulti", "WshSortedMulti")
ShWshMultiFromStr(e) == MultiForm(e, "sh", "wsh", "multi", "ShWshMulti")
ShWshSortedMultiFromStr(e) == MultiForm(e, "sh", "wsh", "sortedmulti", "ShWshSortedMulti")

\* ShScript/WshScript/ShWshScript::from_str
ScriptFromStr == Err("NotSupported")

(***************************************************************************)
(* parse_tr_form(s, inner): tr(KEY, inner(...)); the script is popped     *)
(* first, then the internal key; the threshold is a u16, at most 999 keys.*)
(***************************************************************************)
TrForm(e, inner, variant) ==
  LET f == CheckForms(e, "tr", <<"Key", "Script">>)
  IN IF ~f.ok THEN Err("InvalidArgs")
     ELSE IF ~PopIs(f.ch, "Script") THEN Panic
     ELSE IF ~PopIs(Front(f.ch), "Key") THEN Panic
     ELSE ThresholdAndKeys(Last(f.ch).e, inner, variant, 65535, 999)

TrMultiFromStr(e) == TrForm(e, "multi_a", "TrMulti")
TrSortedMultiFromStr(e) == TrForm(e, "sortedmulti_a", "TrSortedMulti")

(***************************************************************************)
(* TrScript::from_str: form [Key, Tree]; it pops a Key first and then a   *)
(* Tree, and ends with NotSupported.                                      *)
(***************************************************************************)
TrScriptFromStr(e) ==
  LET f == CheckForms(e, "tr", <<"Key", "Tree">>)
  IN IF ~f.ok THEN Err("InvalidArgs")
     ELSE IF ~PopIs(f.ch, "Key") THEN Panic
     ELSE IF ~PopIs(Front(f.ch), "Tree") THEN Panic
     ELSE Err("NotSupported")

(***************************************************************************)
(* trim_start_expr(s, kw) followed by rest.starts_with(kw2): the first    *)
(* argument of the call is a call whose name starts with kw2.             *)
(***************************************************************************)
FirstArgStartsWith(e, kw) ==
  e.args # <<>> /\ e.args[1].k = "Script" /\ StartsWith(e.args[1].e.name, kw)

(***************************************************************************)
(* ShWsh::from_str: sh( must be followed by wsh( (else NoRequiredScript). *)
(***************************************************************************)
ShWshFromStr(e) ==
  LET inner == e.args[1].e
  IN IF ~(e.args # <<>> /\ e.args[1].k = "Script" /\ inner.name = "wsh")
     THEN Err("NoRequiredScript")
     ELSE IF FirstArgStartsWith(inner, "multi") THEN Wrap(ShWshMultiFromStr(e), "ShWsh::Multi")
     ELSE IF FirstArgStartsWith(inner, "sortedmulti") THEN Wrap(ShWshSortedMultiFromStr(e), "ShWsh::SortedMulti")
     ELSE ScriptFromStr

\* From<ShWsh> for Sh (outside src/), applied by `ShWsh::from_str(s)?.into()`
ShFromShWsh ==
  ("ShWsh::Script" :> "Sh::WshScript") @@ ("ShWsh::Multi" :> "Sh::WshMulti")
  @@ ("ShWsh::SortedMulti" :> "Sh::WshSortedMulti")

\* `?` returns an error or panic as it is; `.into()` converts an Ok value
Into(res, conv) == IF res.r = "ok" THEN Ok([res.d EXCEPT !.v = conv[res.d.v]]) ELSE res

ShFromStr(e) ==
  IF FirstArgStartsWith(e, "wsh") THEN Into(ShWshFromStr(e), ShFromShWsh)
  ELSE IF FirstArgStartsWith(e, "sortedmulti") THEN Wrap(ShSortedMultiFromStr(e), "Sh::ShSortedMulti")
  ELSE IF FirstArgStartsWith(e, "multi") THEN Wrap(ShMultiFromStr(e), "Sh::ShMulti")
  ELSE ScriptFromStr

WshFromStr(e) ==
  IF FirstArgStartsWith(e, "multi") THEN Wrap(WshMultiFromStr(e), "Wsh::Multi")
  ELSE IF FirstArgStartsWith(e, "sortedmulti") THEN Wrap(WshSortedMultiFromStr(e), "Wsh::SortedMulti")
  ELSE ScriptFromStr

(***************************************************************************)
(* Tr::from_str tries TrKey, TrMulti and TrSortedMulti, discarding their  *)
(* errors (a panic propagates), and ends with TrScript.                   *)
(***************************************************************************)
TrFromStr(e) ==
  LET a == TrKeyFromStr(e)
      b == TrMultiFromStr(e)
      c == TrSortedMultiFromStr(e)
  IN IF a.r # "err" THEN Wrap(a, "Tr::KeyOnly")
     ELSE IF b.r # "err" THEN Wrap(b, "Tr::Multi")
     ELSE IF c.r # "err" THEN Wrap(c, "Tr::SortedMulti")
     ELSE Wrap(TrScriptFromStr(e), "Tr::Script")

(***************************************************************************)
(* The From impls of StdDescr for the Sh, Wsh, ShWsh and Tr enums.       *)
(***************************************************************************)
StdFromSh ==
  ("Sh::Wpkh" :> "ShWpkh") @@ ("Sh::ShScript" :> "ShScript")
  @@ ("Sh::ShMulti" :> "ShMulti") @@ ("Sh::ShSortedMulti" :> "ShSortedMulti")
  @@ ("Sh::WshScript" :> "ShWshScript") @@ ("Sh::WshMulti" :> "ShWshMulti")
  @@ ("Sh::WshSortedMulti" :> "ShWshSortedMulti")

StdFromWsh ==
  ("Wsh::Script" :> "WshScript") @@ ("Wsh::Multi" :> "WshMulti")
  @@ ("Wsh::SortedMulti" :> "WshSortedMulti")

StdFromShWsh ==
  ("ShWsh::Script" :> "ShWshScript") @@ ("ShWsh::Multi" :> "ShWshMulti")
  @@ ("ShWsh::SortedMulti" :> "ShWshSortedMulti")

StdFromTr ==
  ("Tr::KeyOnly" :> "TrKey") @@ ("Tr::Script" :> "TrTree")
  @@ ("Tr::Multi" :> "TrMulti") @@ ("Tr::SortedMulti" :> "TrSortedMulti")

StdDescrFromStr(e) ==
  CASE StartsWith(e.name, "pkh")  -> PkhFromStr(e)
    [] StartsWith(e.name, "wpkh") -> WpkhFromStr(e)
    [] StartsWith(e.name, "sh")   -> Into(ShFromStr(e), StdFromSh)
    [] StartsWith(e.name, "wsh")  -> Into(WshFromStr(e), StdFromWsh)
    [] StartsWith(e.name, "tr")   -> Into(TrFromStr(e), StdFromTr)
    [] OTHER                      -> Err("InvalidScriptExpr")

(***************************************************************************)
(* D::from_str for the parser D a caller (or the roundtrip unit test)     *)
(* picks: StdDescr itself or the from_str of one descriptor type.         *)
(***************************************************************************)
FromStr(p, e) ==
  CASE p = "StdDescr"         -> StdDescrFromStr(e)
    [] p = "Pkh"              -> PkhFromStr(e)
    [] p = "Wpkh"             -> WpkhFromStr(e)
    [] p = "ShWpkh"           -> ShWpkhFromStr(e)
    [] p = "ShMulti"          -> ShMultiFromStr(e)
    [] p = "ShSortedMulti"    -> ShSortedMultiFromStr(e)
    [] p = "WshMulti"         -> WshMultiFromStr(e)
    [] p = "WshSortedMulti"   -> WshSortedMultiFromStr(e)
    [] p = "ShWshMulti"       -> ShWshMultiFromStr(e)
    [] p = "ShWshSortedMulti" -> ShWshSortedMultiFromStr(e)
    [] p = "Sh"               -> ShFromStr(e)
    [] p = "Wsh"              -> WshFromStr(e)
    [] p = "ShWsh"            -> ShWshFromStr(e)
    [] p = "TrKey"            -> TrKeyFromStr(e)
    [] p = "TrMulti"          -> TrMultiFromStr(e)
    [] p = "TrSortedMulti"    -> TrSortedMultiFromStr(e)
    [] p = "TrScript"         -> TrScriptFromStr(e)
    [] p = "Tr"               -> TrFromStr(e)

\* d.into() of the roundtrip unit test: the From impl of StdDescr for the
\* parser's type (a single-variant type becomes the variant of its name)
IntoStdDescr(p, res) ==
  CASE p = "Sh"    -> Into(res, StdFromSh)
    [] p = "Wsh"   -> Into(res, StdFromWsh)
    [] p = "ShWsh" -> Into(res, StdFromShWsh)
    [] p = "Tr"    -> Into(res, StdFromTr)
    [] OTHER       -> res

\* the keyword every text a variant parser accepts starts with
ParserKeyword ==
  [Pkh |-> "pkh", Wpkh |-> "wpkh", ShWpkh |-> "sh", ShMulti |-> "sh",
   ShSortedMulti |-> "sh", WshMulti |-> "wsh", WshSortedMulti |-> "wsh",
   ShWshMulti |-> "sh", ShWshSortedMulti |-> "sh", Sh |-> "sh", Wsh |-> "wsh",
   ShWsh |-> "sh", TrKey |-> "tr", TrMulti |-> "tr", TrSortedMulti |-> "tr",
   TrScript |-> "tr", Tr |-> "tr"]

Parsers == {"StdDescr"} \cup DOMAIN ParserKeyword

-----------------------------------------------------------------------------
(***************************************************************************)
(* Display of a parsed descriptor, as the syntax tree it prints.          *)
(***************************************************************************)
Keys(n) == [i \in 1..n |-> K]
ThreshCall(name, d) == Call(name, <<L(d.k)>> \o Keys(d.n))

Render(d) ==
  CASE d.v = "Pkh"              -> Call("pkh", <<K>>)
    [] d.v = "Wpkh"             -> Call("wpkh", <<K>>)
    [] d.v = "ShWpkh"           -> Call("sh", <<S(Call("wpkh", <<K>>))>>)
    [] d.v = "ShMulti"          -> Call("sh", <<S(ThreshCall("multi", d))>>)
    [] d.v = "ShSortedMulti"    -> Call("sh", <<S(ThreshCall("sortedmulti", d))>>)
    [] d.v = "WshMulti"         -> Call("wsh", <<S(ThreshCall("multi", d))>>)
    [] d.v = "WshSortedMulti"   -> Call("wsh", <<S(ThreshCall("sortedmulti", d))>>)
    [] d.v = "ShWshMulti"       -> Call("sh", <<S(Call("wsh", <<S(ThreshCall("multi", d))>>))>>)
    [] d.v = "ShWshSortedMulti" -> Call("sh", <<S(Call("wsh", <<S(ThreshCall("sortedmulti", d))>>))>>)
    [] d.v = "TrKey"            -> Call("tr", <<K>>)
    [] d.v = "TrMulti"          -> Call("tr", <<K, S(ThreshCall("multi_a", d))>>)
    [] d.v = "TrSortedMulti"    -> Call("tr", <<K, S(ThreshCall("sortedmulti_a", d))>>)

-----------------------------------------------------------------------------
(***************************************************************************)
(* A variant parser is offered the texts of its own keyword: every other  *)
(* name fails its first check_forms (or, for Sh, Wsh and Tr, every        *)
(* alternative) with an error.                                            *)
(***************************************************************************)
Init ==
  /\ parser \in Parsers
  /\ input \in Inputs
  /\ parser # "StdDescr" => input.name = ParserKeyword[parser]
  /\ result = NotParsed

Parse ==
  /\ result = NotParsed
  /\ result' = IntoStdDescr(parser, FromStr(parser, input))
  /\ UNCHANGED <<parser, input>>

Next == Parse

Spec == Init /\ [][Next]_vars

-----------------------------------------------------------------------------
(***************************************************************************)
(* Reference definitions from spec 4.2, independent of the code.          *)
(***************************************************************************)
SingleKeyVariants == {"Pkh", "Wpkh", "ShWpkh", "TrKey"}
MultiVariants == {"ShMulti", "ShSortedMulti", "WshMulti", "WshSortedMulti",
                  "ShWshMulti", "ShWshSortedMulti", "TrMulti", "TrSortedMulti"}

\* the descriptors of the grammar with at most maxN keys
Grammar(maxN) ==
  {D(v, 0, 1) : v \in SingleKeyVariants}
  \cup {d \in [v : MultiVariants, k : 1..maxN, n : 1..maxN] : d.k <= d.n}

\* the variants a parser's Into<StdDescr> can produce
ParsedBy(p) ==
  CASE p = "StdDescr"         -> SingleKeyVariants \cup MultiVariants
    [] p = "Sh"               -> {"ShWpkh", "ShMulti", "ShSortedMulti", "ShWshMulti", "ShWshSortedMulti"}
    [] p = "Wsh"              -> {"WshMulti", "WshSortedMulti"}
    [] p = "ShWsh"            -> {"ShWshMulti", "ShWshSortedMulti"}
    [] p = "Tr"               -> {"TrKey", "TrMulti", "TrSortedMulti"}
    [] OTHER          -> {p}

-----------------------------------------------------------------------------
Variants == SingleKeyVariants \cup MultiVariants

TypeOK ==
  /\ parser \in Parsers
  /\ DOMAIN input = {"name", "args"}
  /\ result.r \in {"none", "ok", "err", "panic"}
  /\ result.d.v \in Variants \cup {"none"}
  \* u4 threshold and ConfinedVec<K, 1, 16> before taproot,
  \* u16 threshold and ConfinedVec<K, 1, 999> under tr
  /\ result.d.v \notin {"TrMulti", "TrSortedMulti"} => result.d.k \in 0..15 /\ result.d.n \in 0..16
  /\ result.d.k \in 0..65535
  /\ result.d.n \in 0..999

(***************************************************************************)
(* Round trip (spec 8, property 5, and the roundtrip unit tests): a       *)
(* descriptor that StdDescr::from_str accepts displays back as the text   *)
(* it was parsed from, through every level of nested dispatch (sh, wsh,   *)
(* sh(wsh), tr) and the threshold/key split.                              *)
(***************************************************************************)
ParseRoundTrip ==
  result.r = "ok" => Render(result.d) = input

(***************************************************************************)
(* Every parser (StdDescr::from_str, and the from_str of each descriptor *)
(* type that the roundtrip unit tests call) parses exactly its part of    *)
(* the grammar of spec 4.2 and reports everything else as an error (spec  *)
(* 7), never panicking: every syntax tree that renders a descriptor of    *)
(* the grammar the parser produces (tr(KEY, TREE) aside, which spec 9     *)
(* allows to be unsupported) is accepted, and an accepted multisig has    *)
(* 1 <= threshold <= number of keys (spec 8).  Breaking it takes a wrong  *)
(* turn in any of the nested dispatch, form checking and pop sequences.   *)
(***************************************************************************)
ParseMatchesGrammar ==
  /\ result.r # "panic"
  /\ (result.r = "ok" /\ result.d.v \in MultiVariants) => result.d.k \in 1..result.d.n
  /\ (result.r # "none" /\ \E d \in Grammar(3) : d.v \in ParsedBy(parser) /\ Render(d) = input)
       => result.r = "ok"

=============================================================================
