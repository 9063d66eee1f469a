-------------------------------- MODULE Taproot --------------------------------
(***************************************************************************)
(* What binds an envelope to the output its reveal spends: taproot.ts and  *)
(* verifyEnvelopeBinding of custody.ts.  Hashes and txids stand for what   *)
(* was hashed; a pair is hashed in the order of its bytes, so it is a set. *)
(* A tweak beyond the curve order and the point at infinity are left out.  *)
(***************************************************************************)
EXTENDS Integers, Sequences, FiniteSetsExt, SequencesExt

CONSTANTS
  Deepest,   \* the longest path a control block may have
  MaxLeaves  \* bound on the trees of a run

ASSUME TaprootAssumption == Deepest \in Nat

tapLeafHash(script, leafVersion) == <<"TapLeaf", leafVersion, script>>

tapBranch(a, b) == <<"TapBranch", {a, b}>>

tapMerkleRoot(leafHash, path) ==
  LET node[n \in 0 .. Len(path)] ==
        IF n = 0 THEN leafHash ELSE tapBranch(node[n - 1], path[n])
  IN  node[Len(path)]

\* The output key, a point, and the parity that its y has here.
tapTweak(internalKey, root) == [x |-> <<internalKey, root>>, parity |-> 1]

(* A control block: whole, if its length is that of a path; the path, ...   *)
parseControlBlock(block) == block.whole /\ Len(block.path) <= Deepest

isP2TR(output) == output.type = "p2tr"

verifyScriptPathCommitment(script, block, output) ==
  /\ isP2TR(output)
  /\ parseControlBlock(block)
  /\ block.internalKey # "off the curve"
  /\ LET leafHash == tapLeafHash(script, block.leafVersion)
     IN  output.key = tapTweak(block.internalKey, tapMerkleRoot(leafHash, block.path))
  /\ output.key.parity = block.outputKeyParity

NotBound == -1

\* A mutant: the transaction that is shown for the spent one is not hashed.
BindingToShownTx(inputs, k, prevTxs) ==
  LET shown == prevTxs[k]
      vout  == inputs[k].vout
      tapscript == inputs[k].tapscript
  IN  IF /\ shown # <<>> /\ vout \in DOMAIN shown[1]
         /\ tapscript # <<>>
         /\ verifyScriptPathCommitment(tapscript[1].script, tapscript[1].block, shown[1][vout])
      THEN Len(tapscript[1].block.path) ELSE NotBound

(* controlBlockDepth, 0 for singleLeafTree.  inputs: what each spends, and  *)
(* the script and control block of its witness, if it is a script path     *)
(* spend; prevTxs: the outputs of the transaction shown for each, if any.  *)
verifyEnvelopeBinding(inputs, k, prevTxs) ==
  LET shown == prevTxs[k]
      vout  == inputs[k].vout
      tapscript == inputs[k].tapscript
  IN  IF /\ shown # <<>> /\ shown[1] = inputs[k].prevTxid
         /\ vout \in DOMAIN shown[1]
         /\ tapscript # <<>>
         /\ verifyScriptPathCommitment(tapscript[1].script, tapscript[1].block, shown[1][vout])
      THEN Len(tapscript[1].block.path) ELSE NotBound

-----------------------------------------------------------------------------
(* A commit transaction whose author joins leaves into a tree; its second  *)
(* output is somebody else's, committing to one leaf, its third is no      *)
(* taproot output.  The reveal spends all three.                           *)

VARIABLE tree   \* its root, and the way to each leaf

Leaf(script, version) ==
  [root |-> tapLeafHash(script, version),
   leaves |-> {[script |-> script, leafVersion |-> version, path |-> <<>>]}]

Below(leaves, sibling) == {[l EXCEPT !.path = Append(@, sibling)] : l \in leaves}

Join(t, u) == [root |-> tapBranch(t.root, u.root),
               leaves |-> Below(t.leaves, u.root) \cup Below(u.leaves, t.root)]

Leaves == {Leaf(script, version) : script \in {"ord", "other"}, version \in {192, 194}}
Cherry == Join(Leaf("ord", 192), Leaf("refund", 192))
Theirs == Leaf("theirs", 192)

NoTree == [root |-> <<>>, leaves |-> {}]

TreeInit == tree \in Leaves

GrowTree ==
  \E grafted \in Leaves \cup {Cherry} :
    /\ Cardinality(tree.leaves) + Cardinality(grafted.leaves) <= MaxLeaves
    /\ tree' = Join(tree, grafted)

TreeSpec == TreeInit /\ [][GrowTree]_tree

Output(t) == [type |-> "p2tr", key |-> tapTweak("internal", t.root)]
Commit == <<Output(tree), Output(Theirs), [type |-> "p2wpkh"]>>
TreeOf(vout) == IF vout = 1 THEN tree ELSE Theirs

\* What is known to anyone: the nodes on the ways, and the leaves.
Known == {tree.root, Theirs.root}
           \cup UNION {ToSet(l.path) : l \in tree.leaves}
           \cup {tapLeafHash("forged", 192)}

Block(version, path) == [leafVersion |-> version, outputKeyParity |-> 1,
                         internalKey |-> "internal", path |-> path, whole |-> TRUE]

Blocks == {Block(192, path) : path \in BoundedSeq(Known, Deepest)}
               \cup {Block(l.leafVersion, l.path) : l \in tree.leaves}

\* Witnesses: any script under any path, or one that is not as it should be.
Spoilt(block) ==
  {[block EXCEPT !.outputKeyParity = 0], [block EXCEPT !.internalKey = "off the curve"],
   [block EXCEPT !.internalKey = "another"], [block EXCEPT !.whole = FALSE]}

Witnesses ==
  {<<>>} \cup
  {<<[script |-> script, block |-> block]>> :
     script \in {"ord", "other", "theirs", "forged"},
     block \in Blocks \cup UNION {Spoilt(Block(l.leafVersion, l.path)) : l \in tree.leaves}}

\* In place of the commit transaction: none, or one that commits to anything.
PrevTxs == {<<>>, <<Commit>>, <<<<Output(Leaf("forged", 192)), Output(tree)>>>>}

(***************************************************************************)
(* An envelope is taken only if the output that its input spends commits   *)
(* to the script, as the leaf and at the depth that is reported, so that   *)
(* depth 0 is a tree of nothing else; whatever witness, control block and  *)
(* previous transaction are shown.  Every leaf within the depth limit can  *)
(* be shown.                                                               *)
(***************************************************************************)
EnvelopeIsCommitted ==
  /\ tree # NoTree => \A k \in 1 .. 3, witness \in Witnesses, prevTx \in PrevTxs :
       LET inputs == [i \in 1 .. 3 |-> [prevTxid |-> Commit, vout |-> i, tapscript |-> witness]]
           depth  == verifyEnvelopeBinding(inputs, k, [i \in 1 .. 3 |-> prevTx])
       IN  depth # NotBound =>
             /\ k # 3
             /\ LET leaves == TreeOf(k).leaves
                IN  /\ \E l \in leaves : l.script = witness[1].script /\ Len(l.path) = depth
                                           /\ l.leafVersion = witness[1].block.leafVersion
                    /\ depth = 0 => Cardinality(leaves) = 1
  /\ \A l \in tree.leaves :
       LET witness == <<[script |-> l.script, block |-> Block(l.leafVersion, l.path)]>>
           inputs  == <<[prevTxid |-> Commit, vout |-> 1, tapscript |-> witness]>>
       IN  verifyEnvelopeBinding(inputs, 1, <<<<Commit>>>>)
             = IF Len(l.path) <= Deepest THEN Len(l.path) ELSE NotBound
=============================================================================
