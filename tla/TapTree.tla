------------------------------ MODULE TapTree ------------------------------
(***************************************************************************)
(* The taproot script-tree builder of src/derive/src/taptree.rs:          *)
(* TapTreeBuilder (push_leaf, finish), the TapTree it produces, its       *)
(* Display rendering and the ControlBlockFactory iterator built from it.  *)
(*                                                                         *)
(* A caller drives one object at a time: a builder receives leaves until  *)
(* it is finished (which consumes it), the finished tree is handed to a   *)
(* ControlBlockFactory, which is iterated until exhausted, and the caller *)
(* starts over with a fresh builder.  A leaf is a record of its depth (a  *)
(* u7) and its script, abstracted to a model value.                       *)
(***************************************************************************)
EXTENDS Integers, Sequences, SequencesExt

CONSTANTS
  Scripts,     \* leaf scripts (model values)
  MaxDepth,    \* largest leaf depth offered by the caller (u7 allows 127)
  MaxLeaves,   \* largest number of leaves pushed into one builder
  MaxFromLeaves \* longest leaf list handed to TapTree::from_leaves

ASSUME MaxDepth \in 1..127
ASSUME MaxLeaves \in Nat \ {0}

Leaves == [depth : 0..MaxDepth, script : Scripts]

VARIABLES
  leaves,      \* TapTreeBuilder.leaves
  buoy,        \* TapTreeBuilder.buoy (MerkleBuoy), see BuoyPush
  finalized,   \* TapTreeBuilder.finalized
  tree,        \* the TapTree returned by finish
  remaining,   \* ControlBlockFactory.remaining_leaves
  emitted,     \* scripts returned by ControlBlockFactory::next, in order
  phase,       \* which object the caller holds
  err,         \* error returned by the caller's last call
  fromLeaves   \* the last TapTree::from_leaves call: its leaf list and error

vars == <<leaves, buoy, finalized, tree, remaining, emitted, phase, err, fromLeaves>>

Phases == {"idle", "build", "tree", "factory", "done"}
Errors == {"none", "FinalizedTree", "UnfinalizedTree", "panic", "MountainRange", "Unfinalized"}

(***************************************************************************)
(* MerkleBuoy (commit_verify, not part of this repository), as the spec   *)
(* describes it: leaves are pushed onto a stack and the two top items     *)
(* merge into one item one level up whenever they have the same depth.    *)
(* The buoy level is the depth of the deepest item not yet merged; it is  *)
(* 0 exactly when everything has merged into a single root.               *)
(***************************************************************************)
RECURSIVE Collapse(_)
Collapse(s) ==
  IF Len(s) >= 2 /\ s[Len(s)] = s[Len(s) - 1] /\ s[Len(s)] > 0
  THEN Collapse(Append(Front(Front(s)), s[Len(s)] - 1))
  ELSE s

BuoyPush(s, depth) == Collapse(Append(s, depth))

BuoyLevel(s) == IF s = <<>> THEN 0 ELSE Max(ToSet(s))

(***************************************************************************)
(* TapTreeBuilder::new, TapTree::from_leaves and TapTree::with_single_leaf *)
(* construct a new object whatever the caller held before: the caller    *)
(* first drops what it holds (phase "idle", everything cleared).          *)
(***************************************************************************)
\* the record of a call to from_leaves before any call was made
NoFromLeaves == [called |-> FALSE, given |-> <<>>, err |-> "none"]

\* the caller drops the object it holds (a tree or a finished factory)
Drop ==
  /\ phase \in {"tree", "done"}
  /\ leaves' = <<>>
  /\ buoy' = <<>>
  /\ finalized' = FALSE
  /\ tree' = <<>>
  /\ remaining' = <<>>
  /\ emitted' = <<>>
  /\ phase' = "idle"
  /\ err' = "none"
  /\ fromLeaves' = NoFromLeaves

New ==
  /\ phase = "idle"
  /\ phase' = "build"
  /\ UNCHANGED <<leaves, buoy, finalized, tree, remaining, emitted, err, fromLeaves>>

(***************************************************************************)
(* TapTreeBuilder::push_leaf on a builder [leaves, buoy, finalized]:      *)
(* Err(FinalizedTree) once finalized; otherwise the leaf is appended, its *)
(* depth pushed into the buoy, and the builder becomes finalized when the *)
(* buoy level reaches zero.                                               *)
(***************************************************************************)
EmptyBuilder == [leaves |-> <<>>, buoy |-> <<>>, finalized |-> FALSE]
Builder == [leaves |-> leaves, buoy |-> buoy, finalized |-> finalized]

\* mutant: the finalized check at the top of push_leaf dropped
PushLeafOnNoFinalizedCheck(b, leaf) ==
  LET bu == BuoyPush(b.buoy, leaf.depth)
  IN [ok |-> TRUE,
      b  |-> [leaves |-> Append(b.leaves, leaf), buoy |-> bu, finalized |-> BuoyLevel(bu) = 0]]

PushLeafOn(b, leaf) ==
  IF b.finalized THEN [ok |-> FALSE, b |-> b]
  ELSE LET bu == BuoyPush(b.buoy, leaf.depth)
       IN [ok |-> TRUE,
           b  |-> [leaves |-> Append(b.leaves, leaf), buoy |-> bu, finalized |-> BuoyLevel(bu) = 0]]

PushLeaf(leaf) ==
  LET r == PushLeafOn(Builder, leaf)
  IN /\ phase = "build"
     /\ Len(leaves) < MaxLeaves
     /\ \/ /\ r.ok
           /\ leaves' = r.b.leaves
           /\ buoy' = r.b.buoy
           /\ finalized' = r.b.finalized
           /\ err' = "none"
        \/ /\ ~r.ok
           /\ err' = "FinalizedTree"
           /\ UNCHANGED <<leaves, buoy, finalized>>
     /\ UNCHANGED <<tree, remaining, emitted, phase, fromLeaves>>

(***************************************************************************)
(* TapTreeBuilder::finish consumes the builder: Ok(TapTree(leaves)) when  *)
(* finalized, Err(UnfinalizedTree(level)) otherwise.                      *)
(***************************************************************************)
FinishOk ==
  /\ phase = "build"
  /\ finalized
  /\ tree' = leaves
  /\ phase' = "tree"
  /\ err' = "none"
  /\ UNCHANGED <<leaves, buoy, finalized, remaining, emitted, err, fromLeaves>>

FinishErr ==
  /\ phase = "build"
  /\ ~finalized
  /\ phase' = "done"
  /\ err' = "UnfinalizedTree"
  /\ UNCHANGED <<leaves, buoy, finalized, tree, remaining, emitted, fromLeaves>>

(***************************************************************************)
(* ControlBlockFactory::with computes TapTree::merkle_root, which is      *)
(* todo!() (a panic) for trees of more than one leaf, and then keeps the  *)
(* tree's leaves as remaining_leaves with an empty merkle path.           *)
(***************************************************************************)
FactoryWith ==
  /\ phase = "tree"
  /\ Len(tree) = 1
  /\ remaining' = tree
  /\ emitted' = <<>>
  /\ phase' = "factory"
  /\ err' = "none"
  /\ UNCHANGED <<leaves, buoy, finalized, tree, fromLeaves>>

FactoryWithPanics ==
  /\ phase = "tree"
  /\ Len(tree) > 1
  /\ phase' = "done"
  /\ err' = "panic"
  /\ UNCHANGED <<leaves, buoy, finalized, tree, remaining, emitted, fromLeaves>>

(***************************************************************************)
(* ControlBlockFactory::next pops the last remaining leaf; None when no   *)
(* leaf is left.                                                           *)
(***************************************************************************)
\* mutant: next yields the popped leaf itself rather than its script
FactoryNextYieldsLeaf ==
  /\ phase = "factory"
  /\ remaining # <<>>
  /\ emitted' = Append(emitted, Last(remaining))
  /\ remaining' = Front(remaining)
  /\ UNCHANGED <<leaves, buoy, finalized, tree, phase, err, fromLeaves>>

FactoryNext ==
  /\ phase = "factory"
  /\ remaining # <<>>
  /\ emitted' = Append(emitted, Last(remaining).script)
  /\ remaining' = Front(remaining)
  /\ UNCHANGED <<leaves, buoy, finalized, tree, phase, err, fromLeaves>>

FactoryExhausted ==
  /\ phase = "factory"
  /\ remaining = <<>>
  /\ phase' = "done"
  /\ UNCHANGED <<leaves, buoy, finalized, tree, remaining, emitted, err, fromLeaves>>

\* ControlBlockFactory::into_remaining_leaves consumes the factory
IntoRemainingLeaves ==
  /\ phase = "factory"
  /\ phase' = "done"
  /\ UNCHANGED <<leaves, buoy, finalized, tree, remaining, emitted, err, fromLeaves>>

(***************************************************************************)
(* TapTree::with_single_leaf: a tree of one leaf at depth 0.              *)
(***************************************************************************)
WithSingleLeaf(script) ==
  /\ phase = "idle"
  /\ tree' = <<[depth |-> 0, script |-> script]>>
  /\ phase' = "tree"
  /\ UNCHANGED <<leaves, buoy, finalized, remaining, emitted, err, fromLeaves>>

(***************************************************************************)
(* TapTree::from_leaves: push_leaf on a fresh builder for every leaf, the *)
(* first error returned through ? as InvalidTree::MountainRange (From     *)
(* FinalizedTree), then finish, whose error becomes InvalidTree::         *)
(* Unfinalized.                                                            *)
(***************************************************************************)
\* mutant: the result of push_leaf ignored (let _ = builder.push_leaf(leaf))
FromLeavesResultIgnoringPush(ls) ==
  LET step(acc, leaf) == IF PushLeafOn(acc.b, leaf).ok THEN PushLeafOn(acc.b, leaf) ELSE acc
      r == FoldLeft(step, [ok |-> TRUE, b |-> EmptyBuilder], ls)
  IN [b   |-> r.b,
      err |-> CASE ~r.ok          -> "MountainRange"
                [] ~r.b.finalized -> "Unfinalized"
                [] OTHER          -> "none"]

FromLeavesResult(ls) ==
  LET step(acc, leaf) == IF acc.ok THEN PushLeafOn(acc.b, leaf) ELSE acc
      r == FoldLeft(step, [ok |-> TRUE, b |-> EmptyBuilder], ls)
  IN [b   |-> r.b,
      err |-> CASE ~r.ok          -> "MountainRange"
                [] ~r.b.finalized -> "Unfinalized"
                [] OTHER          -> "none"]

FromLeaves(ls) ==
  LET r == FromLeavesResult(ls)
  IN /\ phase = "idle"
     /\ fromLeaves' = [called |-> TRUE, given |-> ls, err |-> r.err]
     /\ leaves' = r.b.leaves
     /\ buoy' = r.b.buoy
     /\ finalized' = r.b.finalized
     /\ \/ /\ r.err = "none"
           /\ tree' = r.b.leaves
           /\ phase' = "tree"
           /\ err' = "none"
        \/ /\ r.err # "none"
           /\ phase' = "done"
           /\ err' = r.err
           /\ UNCHANGED tree
     /\ UNCHANGED <<remaining, emitted>>

\* the leaf lists a caller hands to from_leaves
FromLeavesInputs == BoundedSeq(Leaves, MaxFromLeaves)

Init ==
  /\ leaves = <<>>
  /\ buoy = <<>>
  /\ finalized = FALSE
  /\ tree = <<>>
  /\ remaining = <<>>
  /\ emitted = <<>>
  /\ phase = "idle"
  /\ err = "none"
  /\ fromLeaves = NoFromLeaves

Next ==
  \/ Drop
  \/ New
  \/ \E leaf \in Leaves : PushLeaf(leaf)
  \/ \E ls \in FromLeavesInputs : FromLeaves(ls)
  \/ \E script \in Scripts : WithSingleLeaf(script)
  \/ IntoRemainingLeaves
  \/ FinishOk
  \/ FinishErr
  \/ FactoryWith
  \/ FactoryWithPanics
  \/ FactoryNext
  \/ FactoryExhausted

Spec == Init /\ [][Next]_vars

-----------------------------------------------------------------------------
(***************************************************************************)
(* <TapTree as Display>::fmt, step by step: opening braces up to the      *)
(* leaf depth, the leaf depth pushed into a fresh buoy, a comma when the  *)
(* depth did not change, closing braces from the new buoy level up to the *)
(* depth, and debug_assert_ne!(buoy.level(), 0) after every leaf; after   *)
(* the loop debug_assert_eq!(buoy.level(), 0).  The leaf script is never  *)
(* written.  "asserts" is FALSE when a debug assertion fails.             *)
(***************************************************************************)
DisplayStep(acc, leaf) ==
  LET b == BuoyPush(acc.buoy, leaf.depth)
  IN [out     |-> acc.out
                  \o [i \in 1..(leaf.depth - acc.depth) |-> "{"]
                  \o (IF acc.depth = leaf.depth THEN <<",">> ELSE <<>>)
                  \o [i \in 1..(leaf.depth - BuoyLevel(b)) |-> "}"],
      depth   |-> leaf.depth,
      buoy    |-> b,
      asserts |-> acc.asserts /\ BuoyLevel(b) # 0]

Display(t) ==
  LET r == FoldLeft(DisplayStep,
                    [out |-> <<>>, depth |-> 0, buoy |-> <<>>, asserts |-> TRUE], t)
  IN [out |-> r.out, asserts |-> r.asserts /\ BuoyLevel(r.buoy) = 0]

-----------------------------------------------------------------------------
(***************************************************************************)
(* Reference definitions (BIP-341 / BIP-386), independent of the code.    *)
(* Subtree(s, d) reads one complete subtree rooted at depth d from the    *)
(* front of the depth-first leaf list s and renders it in the BIP-386     *)
(* compact form {left,right}; ok is FALSE when s does not start with one. *)
(***************************************************************************)
RECURSIVE Subtree(_, _)
Subtree(s, d) ==
  IF s = <<>> \/ d > MaxDepth \/ Head(s).depth < d
  THEN [ok |-> FALSE, out |-> <<>>, rest |-> s]
  ELSE IF Head(s).depth = d
  THEN [ok |-> TRUE, out |-> <<Head(s).script>>, rest |-> Tail(s)]
  ELSE LET l == Subtree(s, d + 1)
           r == Subtree(l.rest, d + 1)
       IN [ok   |-> l.ok /\ r.ok,
           out  |-> <<"{">> \o l.out \o <<",">> \o r.out \o <<"}">>,
           rest |-> r.rest]

\* the leaf list is exactly one complete binary tree in depth-first order
IsTree(s) == LET r == Subtree(s, 0) IN r.ok /\ r.rest = <<>>

Bip386(s) == Subtree(s, 0).out

-----------------------------------------------------------------------------
TypeOK ==
  /\ leaves \in Seq(Leaves)
  /\ buoy \in Seq(0..MaxDepth)
  /\ finalized \in BOOLEAN
  /\ tree \in Seq(Leaves)
  /\ remaining \in Seq(Leaves)
  /\ emitted \in Seq(Scripts)
  /\ phase \in Phases
  /\ err \in Errors
  /\ fromLeaves.err \in Errors

(***************************************************************************)
(* push_leaf/finish accept exactly the leaf lists that are a complete     *)
(* tree: the builder is finalized (and finish succeeds) if and only if    *)
(* the leaves pushed so far, in order, form one binary tree whose root is *)
(* at depth 0.  Breaking it takes a run of pushes whose buoy merges go    *)
(* wrong (a leaf taken after finalization, a merge at the wrong level).   *)
(***************************************************************************)
FinalizedIffTree ==
  phase = "build" => (finalized <=> IsTree(leaves))

(***************************************************************************)
(* TapTree::from_leaves returns a tree exactly for the leaf lists that    *)
(* form one complete tree, reports MountainRange exactly when a proper    *)
(* prefix of the list already forms one (the leaves after it cannot be    *)
(* merged), and Unfinalized otherwise.  It relates the error mapping of   *)
(* from_leaves (the ? on push_leaf, finish) to the shape of the input.    *)
(***************************************************************************)
FromLeavesMatchesShape ==
  LET ls == fromLeaves.given
  IN fromLeaves.called =>
       CASE IsTree(ls) -> fromLeaves.err = "none"
         [] \E k \in 1..(Len(ls) - 1) : IsTree(SubSeq(ls, 1, k)) -> fromLeaves.err = "MountainRange"
         [] OTHER -> fromLeaves.err = "Unfinalized"

(***************************************************************************)
(* TapTree's Display renders the BIP-386 compact form of the tree         *)
(* (spec 4.3): every finished tree prints as {left,right} with its leaf   *)
(* scripts, and printing it never trips one of the debug assertions of    *)
(* <TapTree as Display>::fmt.                                             *)
(***************************************************************************)
DisplayIsBip386 ==
  phase = "tree" => Display(tree).asserts /\ Display(tree).out = Bip386(tree)
=============================================================================
