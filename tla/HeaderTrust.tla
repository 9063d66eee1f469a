----------------------------- MODULE HeaderTrust -----------------------------
(***************************************************************************)
(* makeHeaderTrust of packages/fetch/src/headertrust.ts: a header is       *)
(* anchored by a checkpoint, or by enough attesters that served no byte of *)
(* the bundle it came in and that name it at its height.                   *)
(*                                                                         *)
(* The chain has one block at each height up to its tip, which grows; the  *)
(* block at height n is written n.  A claim names a block and a height for *)
(* it.  Liars answer anything; servers that are down answer nothing; the   *)
(* others say what the chain says.                                         *)
(***************************************************************************)
EXTENDS Integers, Sequences, FiniteSets

CONSTANTS
  Servers,            \* servers, told apart by their normalized base URL
  Endpoints,          \* base URLs as they are spelled
  ServerOf,           \* normalizeBaseUrl
  Anchors,            \* options.esploras, as a sequence of endpoints
  MinAgreement,       \* options.minAgreement
  MinConfirmations,   \* options.minConfirmations
  CheckpointHeights,  \* the heights options.checkpoints covers
  MaxHeight           \* bound on the heights of a run

ASSUME TrustAssumption ==
  /\ IsFiniteSet(Servers)
  /\ ServerOf \in [Endpoints -> Servers]
  /\ Anchors \in Seq(Endpoints)
  /\ MinAgreement \in Nat \ {0}
  /\ MinConfirmations \in Nat
  /\ MaxHeight \in Nat \ {0}
  /\ CheckpointHeights \subseteq 1..MaxHeight

Heights == 1..MaxHeight

Forged == -1   \* a block with real proof of work that is not on the chain
Easy == -2     \* a header easier than the limit, or that misses its target

Blocks == Heights \cup {Forged, Easy}

ServersOf(endpoints) == {ServerOf[e] : e \in endpoints}

\* The places in Anchors of the attesters of a bundle these endpoints served.
Attesters(served) ==
  {i \in DOMAIN Anchors :
     /\ ServerOf[Anchors[i]] \notin ServersOf(served)
     /\ \A j \in 1..(i - 1) : ServerOf[Anchors[j]] # ServerOf[Anchors[i]]}

-----------------------------------------------------------------------------
(* What the attesters answer.                                              *)

HashAnswer == {"agrees", "other", "malformed", "unreachable"}

\* getBlockHashAtHeight, compared with the header's hash.
HashAnswers(server, block, height, world, top) ==
  CASE server \in world.liars -> HashAnswer
    [] server \in world.down \ world.liars -> {"unreachable"}
    [] OTHER -> IF height > top THEN {"unreachable"}
                ELSE IF block = height THEN {"agrees"} ELSE {"other"}

NoTip == 0

\* getTipHeight; what is no height is dropped like no answer.
TipAnswers(server, world, top) ==
  CASE server \in world.liars -> Heights \cup {NoTip}
    [] server \in world.down \ world.liars -> {NoTip}
    [] OTHER -> {top}

Votes(attesters, block, height, world, top) ==
  {v \in [attesters -> HashAnswer] :
     \A i \in attesters :
       v[i] \in HashAnswers(ServerOf[Anchors[i]], block, height, world, top)}

Tips(attesters, world, top) ==
  {t \in [attesters -> Heights \cup {NoTip}] :
     \A i \in attesters : t[i] \in TipAnswers(ServerOf[Anchors[i]], world, top)}

-----------------------------------------------------------------------------
(* The verdict.                                                            *)

Saying(votes, answer) == {i \in DOMAIN votes : votes[i] = answer}

\* One competing hash is enough to refuse, and it is looked at first.
Agreed(votes) ==
  /\ Saying(votes, "other") = {}
  /\ Cardinality(Saying(votes, "agrees")) >= MinAgreement

\* mutation: the attester with the highest tip is believed
HighestTip(tips) ==
  CHOOSE h \in Heights : /\ \E i \in DOMAIN tips : tips[i] = h
                         /\ \A i \in DOMAIN tips : tips[i] <= h

\* The element at floor(n/2) of the n stated tips, in ascending order.
MedianTip(tips) ==
  LET stated == {i \in DOMAIN tips : tips[i] # NoTip}
      middle == Cardinality(stated) \div 2
  IN CHOOSE h \in Heights :
       /\ Cardinality({i \in stated : tips[i] < h}) <= middle
       /\ Cardinality({i \in stated : tips[i] <= h}) > middle

\* A depth that was asked for is enforced or refused, never skipped.
DeepEnough(tips, height) ==
  /\ \E i \in DOMAIN tips : tips[i] # NoTip
  /\ MedianTip(tips) - height + 1 >= MinConfirmations

Checkpointed(height) == height \in CheckpointHeights

\* checkHeader may come back with a report ...
MayAnchor(block, height, served, world, top) ==
  /\ block # Easy
  /\ IF Checkpointed(height) THEN block = height
     ELSE LET attesters == Attesters(served)
          IN /\ \E v \in Votes(attesters, block, height, world, top) : Agreed(v)
             /\ \/ MinConfirmations = 0
                \/ \E t \in Tips(attesters, world, top) : DeepEnough(t, height)

\* ... or throw.
MayRefuse(block, height, served, world, top) ==
  \/ block = Easy
  \/ /\ Checkpointed(height) /\ block # height
  \/ /\ ~Checkpointed(height)
     /\ LET attesters == Attesters(served)
        IN \/ \E v \in Votes(attesters, block, height, world, top) : ~Agreed(v)
           \/ /\ MinConfirmations > 0
              /\ \E t \in Tips(attesters, world, top) : ~DeepEnough(t, height)

\* The lying servers among the attesters: whoever served is not among them.
LyingAttesters(served, world) ==
  {s \in world.liars : /\ s \notin ServersOf(served)
                       /\ \E i \in DOMAIN Anchors : ServerOf[Anchors[i]] = s}

\* The honest attesters that answer.
TruthfulAttesters(served, world) ==
  {s \in Servers \ (world.liars \cup world.down) :
     /\ s \notin ServersOf(served)
     /\ \E i \in DOMAIN Anchors : ServerOf[Anchors[i]] = s}
=============================================================================
