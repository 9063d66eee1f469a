------------------------------ MODULE ProofFetch ------------------------------
(***************************************************************************)
(* Content proofs: what buildProofBundle (packages/fetch/src/              *)
(* proofbuilder.ts) gets from a backend, what verifyProofBundle            *)
(* (packages/core/src/proof.ts) lets through, and what a loop over the     *)
(* backends says when all have failed.                                     *)
(*                                                                         *)
(* Liars serve any bytes.  What they cannot do is fold a transaction into  *)
(* a block of the chain that does not hold it, have that block's coinbase  *)
(* commit to a witness the chain did not see, or have an output commit to  *)
(* a script its author did not put there.                                  *)
(***************************************************************************)
EXTENDS HeaderTrust

CONSTANTS
  Ids,       \* inscription ids
  Contents,  \* what an envelope may hold: a delegate or NoId, the size of the
             \* body, 0 without one, and whether it is in a coding that the
             \* decompressor gives up on
  Chain,     \* of each id: the height of its reveal, beyond MaxHeight if there
             \* is none, what was revealed, and what else its commit output
             \* commits to
  Backends   \* options.esplora, as a sequence of endpoints

NoId == "none"

Levels == {"L2", "L3"}

ASSUME ProofAssumption ==
  /\ Backends \in Seq(Endpoints) /\ Backends # << >>
  /\ \A c \in Contents : c.delegate \in Ids \cup {NoId} /\ c.size \in Nat /\ c.coded \in BOOLEAN
  /\ DOMAIN Chain = Ids
  /\ \A id \in Ids : /\ Chain[id].block \in 1..(MaxHeight + 1)
                     /\ Chain[id].revealed \in Contents
                     /\ Chain[id].committed \subseteq Contents

\* What the commit output of an inscription commits to.
Committed(id) == Chain[id].committed \cup {Chain[id].revealed}

\* A bundle; whole: its parts hash to each other and the branches have the
\* shape of the tree.
Bundles ==
  [id : Ids, level : Levels, block : Blocks, height : Heights, content : Contents,
   whole : BOOLEAN]

\* How an attempt fails: saysNotFound holds of its message or it does not.
Causes == {"absent", "other"}

TrueBundle(id, level) ==
  [id |-> id, level |-> level, block |-> Chain[id].block, height |-> Chain[id].block,
   content |-> Chain[id].revealed, whole |-> TRUE]

\* buildProofBundle over one backend: how it may fail ...  A backend that lacks
\* a path of the interface answers 404 on it; the raw block is one request and
\* needs no merkle-proof.
BuildFailures(server, id, level, world, top) ==
  CASE server \in world.liars -> Causes
    [] server \in world.down \ world.liars -> {"other"}
    [] OTHER -> IF Chain[id].block > top \/ (server \in world.partial /\ level = "L2")
                THEN {"absent"} ELSE {}

\* ... and what it may return.
Built(server, id, level, world, top) ==
  CASE server \in world.liars -> {b \in Bundles : b.id = id /\ b.level = level}
    [] OTHER -> IF BuildFailures(server, id, level, world, top) = {}
                THEN {TrueBundle(id, level)} ELSE {}

\* verifyProofBundle, without the caller's hook.  At L3 the witness is the
\* one the block commits to, and no block but the chain's need execute it.
Verified(b, top) ==
  /\ b.whole /\ b.block # Easy
  /\ b.block \in Heights => b.block = Chain[b.id].block /\ b.block <= top
  /\ CASE b.level = "L2" -> b.content \in Committed(b.id)
       [] b.level = "L3" -> b.block \in Heights => b.content = Chain[b.id].revealed

\* checkpointTrustHeader
CheckpointsAllow(b) == Checkpointed(b.height) => b.block = b.height

\* mutation: one backend that says so is enough
AbsentToOne(causes) == \E i \in DOMAIN causes : causes[i] = "absent"

\* statusForCauses: 404 or 502.
AbsentToAll(causes) == causes # << >> /\ \A i \in DOMAIN causes : causes[i] = "absent"
=============================================================================
