----------------------------- MODULE CustodyFetch -----------------------------
(***************************************************************************)
(* fetchCustody of packages/fetch/src/custodybuilder.ts: walk the path of  *)
(* an inscription's sat with one backend after another, verify the bundle  *)
(* the walk returns, anchor each of its headers with outsiders, and ask    *)
(* every backend whether the last satpoint is unspent.                     *)
(*                                                                         *)
(* The chain holds the path of the sat, hop 1 its reveal, and grows while  *)
(* the fetch waits.  Liars serve anything that hashes to what it must;     *)
(* what they cannot do is fold a transaction into a block of the chain     *)
(* that does not hold it at that position.                                 *)
(***************************************************************************)
EXTENDS HeaderTrust, Refusals

CONSTANTS
  Backends,     \* options.esplora, as a sequence of endpoints
  Paths,        \* the paths a run may find on the chain: sequences of hops
  MaxHops,      \* options.maxHops
  MaxLiars,     \* bound on the servers that lie in a run ...
  MaxDown,      \* ... and on those that are down
  AlwaysSection \* options.witnessSection = 'always'

ASSUME FetchAssumption ==
  /\ Backends \in Seq(Endpoints) /\ Backends # <<>>
  /\ MaxHops \in Nat /\ MaxLiars \in Nat /\ MaxDown \in Nat
  /\ AlwaysSection \in BOOLEAN

\* What a hop's transaction is.  "true": the next transaction of the path;
\* at the reveal, with the witness that was executed.  "other": a confirmed
\* transaction that is not on the path; at the reveal, another witness its
\* commit output also commits to.  "forged": never on the chain; at the
\* reveal, a witness its commit output does not commit to.
TxKinds == {"true", "other", "forged"}

Positions == 0..1

\* One hop as a backend's answers describe it.  agree: its status, proof,
\* header and block info name one block and one height; folds: the proof
\* folds to the header's root; burns: the sat goes to an output of fees.
Claims ==
  [tx : TxKinds, block : Blocks, height : Heights, pos : Positions,
   agree : BOOLEAN, folds : BOOLEAN, burns : BOOLEAN]

\* A path is in the order of the chain.
ASSUME PathAssumption ==
  \A path \in Paths :
    /\ path \in Seq([block : Heights, pos : Positions, burns : BOOLEAN]) /\ path # <<>>
    /\ \A h \in DOMAIN path \ {1} :
         \/ path[h].block > path[h - 1].block
         \/ path[h].block = path[h - 1].block /\ path[h].pos > path[h - 1].pos

VARIABLES
  world,     \* the path, the reveal's inputs, which servers lie or are down
  top,       \* the height of the chain
  phase,     \* where fetchCustody is
  ended,     \* how the attempts so far ended, in the order of Backends
  build,     \* the attempt under way, in the end the bundle
  asked,     \* the backends asked for the raw block in this attempt
  anchored,  \* the hops anchored
  tip,       \* the answers about the last satpoint
  outcome    \* what fetchCustody came to

vars == <<world, top, phase, ended, build, asked, anchored, tip, outcome>>

\* gave is a history: who really served bytes of the bundle.
NoBuild ==
  [hops |-> <<>>, served |-> {}, gave |-> {}, section |-> FALSE, pending |-> FALSE]

Running == [result |-> "running", unanimous |-> "unmarked"]

Worlds ==
  [path : Paths, inputs : 1..2, liars : SUBSET Servers, down : SUBSET Servers]

PossibleWorlds ==
  {w \in Worlds : /\ Cardinality(w.liars) <= MaxLiars /\ Cardinality(w.down) <= MaxDown
                  /\ w.liars \cap w.down = {}}

\* The reveal is confirmed when the fetch begins.
Init ==
  /\ world \in PossibleWorlds
  /\ top = world.path[1].block
  /\ phase = "lead"
  /\ ended = <<>>
  /\ build = NoBuild
  /\ asked = 0
  /\ anchored = 0
  /\ tip = [i \in DOMAIN Backends |-> "unasked"]
  /\ outcome = Running

Server(i) == ServerOf[Backends[i]]

Lead == Len(ended) + 1

Lies(s) == s \in world.liars

Truthful(s) == s \notin world.liars \cup world.down

Confirmed(h) == h \in DOMAIN world.path /\ world.path[h].block <= top

-----------------------------------------------------------------------------
(* What a server may serve.                                                *)

TrueClaim(h) ==
  [tx |-> "true", block |-> world.path[h].block, height |-> world.path[h].block,
   pos |-> world.path[h].pos, agree |-> TRUE, folds |-> TRUE,
   burns |-> world.path[h].burns]

\* What a transaction is and does, and where it folds, is fixed by its hash.
Possible(claim, h) ==
  /\ claim.tx = "true" => /\ h \in DOMAIN world.path
                          /\ claim.burns = world.path[h].burns
  /\ claim.block \in Heights /\ claim.folds =>
       /\ claim.block <= top
       /\ h = 1 \/ claim.tx = "true" =>
            claim.block = world.path[h].block /\ claim.pos = world.path[h].pos
       /\ h > 1 => claim.tx # "forged"

ServedClaims(s, h) ==
  IF Lies(s) THEN {claim \in Claims : Possible(claim, h)}
  ELSE IF Truthful(s) /\ Confirmed(h) THEN {TrueClaim(h)} ELSE {}

\* The raw block that holds the reveal as it was served: a block of the chain
\* commits to the witness that was executed.
ServesRaw(s, claim) ==
  /\ Lies(s) \/ Truthful(s)
  /\ \/ claim.block \in Heights /\ claim.tx = "true"
     \/ claim.block = Forged /\ Lies(s)

MayNotServeRaw(s, claim) == Lies(s) \/ ~ServesRaw(s, claim)

Outspends(s, hops) ==
  IF Lies(s) THEN {"unspent", "unconfirmed", "confirmed"}
  ELSE IF ~Truthful(s) THEN {}
  ELSE IF Confirmed(Len(hops) + 1) THEN {"confirmed"}
  ELSE IF Len(hops) < Len(world.path) THEN {"unspent", "unconfirmed"}
  ELSE {"unspent"}

-----------------------------------------------------------------------------
(* The checks of the build and of the verifier.                            *)

\* findIndex(...) # -1: the transaction spends the satpoint the last hop led to.
Spends(before, tx) ==
  CASE before = "true" -> tx \in {"true", "forged"}
    [] before = "other" -> tx \in {"other", "forged"}
    [] before = "forged" -> tx = "forged"

\* verifyAnchoredHop, without the caller's hook.
AnchoredHop(claim) == claim.block # Easy /\ claim.folds

\* checkHopAnswers: the same and what the bundle does not carry.
ConsistentHop(claim) == claim.agree /\ AnchoredHop(claim)

InOrder(before, claim) ==
  \/ claim.height > before.height
  \/ claim.height = before.height /\ claim.pos > before.pos

\* mutation: the walk does not compare a hop with the one before
TakesHopUnordered(hops, claim) ==
  Spends(hops[Len(hops)].tx, claim.tx) /\ ConsistentHop(claim)

\* The build appends the hop.
TakesHop(hops, claim) ==
  LET before == hops[Len(hops)]
  IN Spends(before.tx, claim.tx) /\ ConsistentHop(claim) /\ InOrder(before, claim)

\* assembleAnchoredHop and bindRevealEnvelope at the reveal.
TakesReveal(claim) == ConsistentHop(claim) /\ claim.tx # "forged"

NeedsSection == AlwaysSection \/ world.inputs > 1

\* What verifyCustodyBundle finds at one hop.
HopVerdict(h) ==
  LET hop == build.hops[h]
  IN CASE ~AnchoredHop(hop) -> "VERIFY_FAILED"
       [] AnchoredHop(hop) /\ h = 1 ->
            IF world.inputs > 1 /\ ~build.section THEN "EnvelopeIndexUnproven"
            ELSE IF hop.tx = "forged" THEN "VERIFY_FAILED"
            ELSE IF hop.burns THEN "CustodyUnsupported" ELSE "ok"
       [] AnchoredHop(hop) /\ h > 1 ->
            IF ~InOrder(build.hops[h - 1], hop) \/ ~Spends(build.hops[h - 1].tx, hop.tx)
            THEN "VERIFY_FAILED"
            ELSE IF hop.burns THEN "CustodyUnsupported" ELSE "ok"

\* The first hop with something wrong decides.
VerifyVerdict ==
  LET wrong == {h \in DOMAIN build.hops : HopVerdict(h) # "ok"}
  IN IF wrong = {} THEN "ok"
     ELSE HopVerdict(CHOOSE h \in wrong : \A g \in wrong : h <= g)

-----------------------------------------------------------------------------
(* The build loop.                                                         *)

Recordable == {"CustodyUnsupported", "CustodyHopLimit", "WitnessSectionUnavailable"}

\* mutation: attempts without an answer are not counted
SharedRefusalUncounted(ends) ==
  LET refusals == {i \in DOMAIN ends : ends[i] \in Recordable}
  IN IF refusals # {} /\ \A i, j \in refusals : ends[i] = ends[j]
     THEN [result |-> ends[CHOOSE i \in refusals : TRUE],
           unanimous |-> IF Len(Backends) >= 2 THEN "yes" ELSE "no"]
     ELSE [Running EXCEPT !.result = "BUILD_FAILED"]

\* sharedDomainRefusal; every backend led, so no group of neverLed.
SharedRefusal(ends) ==
  LET refusals == {i \in DOMAIN ends : ends[i] \in Recordable}
  IN IF refusals # {} /\ \A i, j \in refusals : ends[i] = ends[j]
     THEN [result |-> ends[CHOOSE i \in refusals : TRUE],
           unanimous |-> IF Len(Backends) >= 2 /\ refusals = DOMAIN ends
                         THEN "yes" ELSE "no"]
     ELSE [Running EXCEPT !.result = "BUILD_FAILED"]

\* mutation: a refusal is believed, whoever makes it
AttemptEndsTerminally(how) ==
  /\ ended' = Append(ended, how)
  /\ build' = NoBuild /\ asked' = 0
  /\ IF how \in Recordable \/ Len(ended') = Len(Backends)
     THEN phase' = "done" /\ outcome' = SharedRefusal(ended')
     ELSE phase' = "lead" /\ UNCHANGED outcome
  /\ UNCHANGED <<world, top, anchored, tip>>

\* The catch: the next backend leads, or none is left.
AttemptEnds(how) ==
  /\ ended' = Append(ended, how)
  /\ build' = NoBuild /\ asked' = 0
  /\ IF Len(ended') = Len(Backends)
     THEN phase' = "done" /\ outcome' = SharedRefusal(ended')
     ELSE phase' = "lead" /\ UNCHANGED outcome
  /\ UNCHANGED <<world, top, anchored, tip>>

\* A request throws, or is answered with bytes that are not what was asked.
LeadFails ==
  /\ phase \in {"lead", "walk", "hop"}
  /\ ~Truthful(Server(Lead))
  /\ AttemptEnds("noAnswer")

\* genesisSatpoint or transferSatpoint after a hop was taken.
FollowSat(bundle) ==
  IF bundle.hops[Len(bundle.hops)].burns THEN AttemptEnds("CustodyUnsupported")
  ELSE /\ build' = bundle
       /\ phase' = "walk"
       /\ UNCHANGED <<world, top, ended, asked, anchored, tip, outcome>>

Reveal ==
  /\ phase = "lead"
  /\ \E claim \in ServedClaims(Server(Lead), 1) :
       LET bundle == [NoBuild EXCEPT !.hops = <<claim>>, !.served = {Backends[Lead]},
                                     !.gave = {Backends[Lead]}]
       IN IF ~TakesReveal(claim) THEN AttemptEnds("noAnswer")
          ELSE IF NeedsSection
          THEN /\ build' = bundle
               /\ phase' = "section"
               /\ UNCHANGED <<world, top, ended, asked, anchored, tip, outcome>>
          ELSE FollowSat(bundle)

\* mutation: only the backend that walks is known to have served
WithSectionUncredited(bundle, endpoint) == [bundle EXCEPT !.section = TRUE]

WithSection(bundle, endpoint) ==
  [bundle EXCEPT !.section = TRUE, !.served = @ \cup {endpoint}]

\* One round of attachRevealWitnessSection.
AskRawBlock ==
  /\ phase = "section"
  /\ LET s == Server(asked + 1)
         claim == build.hops[1]
     IN \/ /\ ServesRaw(s, claim)
           /\ FollowSat([WithSection(build, Backends[asked + 1])
                           EXCEPT !.gave = @ \cup {Backends[asked + 1]}])
        \/ /\ MayNotServeRaw(s, claim)
           /\ IF asked + 1 < Len(Backends)
              THEN /\ asked' = asked + 1
                   /\ UNCHANGED <<world, top, phase, ended, build, anchored, tip, outcome>>
              ELSE AttemptEnds("WitnessSectionUnavailable")

\* The walk is over: verifyCustodyBundle.
WalkEnds(pending) ==
  /\ build' = [build EXCEPT !.pending = pending]
  /\ IF VerifyVerdict = "ok" THEN phase' = "anchor" /\ UNCHANGED outcome
     ELSE phase' = "done" /\ outcome' = [Running EXCEPT !.result = VerifyVerdict]
  /\ UNCHANGED <<world, top, ended, asked, anchored, tip>>

\* A further confirmed spend exists, and maxHops transfers were followed.
OverCap(hops) == Len(hops) > MaxHops

AskOutspend ==
  /\ phase = "walk"
  /\ \E spent \in Outspends(Server(Lead), build.hops) :
       CASE spent = "unspent" -> WalkEnds(FALSE)
         [] spent = "unconfirmed" -> WalkEnds(TRUE)
         [] spent = "confirmed" ->
              IF OverCap(build.hops) THEN AttemptEnds("CustodyHopLimit")
              ELSE /\ phase' = "hop"
                   /\ UNCHANGED <<world, top, ended, build, asked, anchored, tip, outcome>>

WalkHop ==
  /\ phase = "hop"
  /\ \E claim \in ServedClaims(Server(Lead), Len(build.hops) + 1) :
       IF TakesHop(build.hops, claim)
       THEN FollowSat([build EXCEPT !.hops = Append(@, claim)])
       ELSE AttemptEnds("noAnswer")

-----------------------------------------------------------------------------
(* After the build.  Nothing here goes back to another backend.            *)

AnchorHop ==
  /\ phase = "anchor"
  /\ LET hop == build.hops[anchored + 1]
     IN \/ /\ MayAnchor(hop.block, hop.height, build.served, world, top)
           /\ anchored' = anchored + 1
           /\ phase' = IF anchored' = Len(build.hops) THEN "tip" ELSE phase
           /\ UNCHANGED outcome
        \/ /\ MayRefuse(hop.block, hop.height, build.served, world, top)
           /\ phase' = "done"
           /\ outcome' = [Running EXCEPT !.result = "HEADER_TRUST"]
           /\ UNCHANGED anchored
  /\ UNCHANGED <<world, top, ended, build, asked, tip>>

TipAnswer(i) ==
  /\ phase = "tip" /\ tip[i] = "unasked"
  /\ \E answer \in {"unspent", "spent", "error"} :
       /\ Truthful(Server(i)) /\ build.hops[Len(build.hops)].tx = "true" =>
            \/ answer = "spent" /\ Len(build.hops) < Len(world.path)
            \/ answer = "unspent" /\ ~Confirmed(Len(build.hops) + 1)
       /\ ~Truthful(Server(i)) /\ ~Lies(Server(i)) => answer = "error"
       /\ tip' = [tip EXCEPT ![i] = answer]
  /\ IF \A k \in DOMAIN tip : tip'[k] # "unasked"
     THEN phase' = "done" /\ outcome' = [Running EXCEPT !.result = "custody"]
     ELSE UNCHANGED <<phase, outcome>>
  /\ UNCHANGED <<world, top, ended, build, asked, anchored>>

\* A block is found.
Grow ==
  /\ phase # "done"
  /\ top < MaxHeight
  /\ top' = top + 1
  /\ UNCHANGED <<world, phase, ended, build, asked, anchored, tip, outcome>>

Next ==
  \/ LeadFails \/ Reveal \/ AskRawBlock \/ AskOutspend \/ WalkHop \/ AnchorHop
  \/ \E i \in DOMAIN Backends : TipAnswer(i)
  \/ Grow

Spec == Init /\ [][Next]_vars

\* What the custody command exits with, when the fetch fails.
ExitCode == failFrom(outcome.result, "live", outcome.unanimous)

-----------------------------------------------------------------------------

TypeOK ==
  /\ world \in PossibleWorlds /\ top \in Heights
  /\ phase \in {"lead", "section", "walk", "hop", "anchor", "tip", "done"}
  /\ ended \in Seq(Recordable \cup {"noAnswer"}) /\ Len(ended) <= Len(Backends)
  /\ build \in [hops : Seq(Claims), served : SUBSET Endpoints, gave : SUBSET Endpoints,
                section : BOOLEAN, pending : BOOLEAN]
  /\ asked \in 0 .. Len(Backends) - 1
  /\ anchored \in 0 .. Len(build.hops)
  /\ tip \in [DOMAIN Backends -> {"unasked", "unspent", "spent", "error"}]
  /\ outcome \in [result : Recordable \cup {"running", "custody", "HEADER_TRUST", "BUILD_FAILED"},
                  unanimous : {"unmarked", "yes", "no"}]

(***************************************************************************)
(* fetchCustody returns custody only over blocks that are on the chain at  *)
(* the heights the bundle says, unless as many attesters lie as it takes   *)
(* to anchor a header.  A server that helped to build the bundle is no     *)
(* attester, under any spelling.  With a witness section, the reveal shows *)
(* the witness the chain executed and every hop is a hop of the path.      *)
(***************************************************************************)
CustodyIsTrue ==
  outcome.result = "custody"
    /\ Cardinality(LyingAttesters(build.gave, world)) < MinAgreement =>
       /\ \A h \in DOMAIN build.hops : build.hops[h].block = build.hops[h].height
       /\ build.section => \A h \in DOMAIN build.hops : build.hops[h].tx = "true"

(***************************************************************************)
(* A depth the caller asked for is the chain's, as long as fewer attesters *)
(* lie than tell the truth: the median tip is no liar's.                   *)
(***************************************************************************)
DepthIsReal ==
  outcome.result = "custody" /\ MinConfirmations > 0
    /\ Cardinality(LyingAttesters(build.gave, world))
         < Cardinality(TruthfulAttesters(build.gave, world)) =>
       \A h \in DOMAIN build.hops :
         ~Checkpointed(build.hops[h].height) =>
           top - build.hops[h].height + 1 >= MinConfirmations

(***************************************************************************)
(* "a hop that fails here would have failed there" (custodybuilder.ts:353) *)
(* and the reverse: what the build accepts the verifier never refuses, so  *)
(* no backend's answer costs the fetch after the loop that could have      *)
(* asked another.                                                          *)
(***************************************************************************)
BuildImpliesVerify ==
  outcome.result \notin {"VERIFY_FAILED", "EnvelopeIndexUnproven"}

\* The path on the chain ends in an output and is no longer than the cap.
Provable ==
  /\ Len(world.path) <= MaxHops + 1
  /\ \A h \in DOMAIN world.path : ~world.path[h].burns

(***************************************************************************)
(* One backend that answers and tells the truth is enough: whatever the    *)
(* others serve, and in whatever order they lead, the build of a provable  *)
(* path ends in no refusal and no failure.                                 *)
(***************************************************************************)
OneHonestBackendSuffices ==
  outcome.result \in Recordable \cup {"BUILD_FAILED"} /\ Provable =>
    \A i \in DOMAIN Backends : ~Truthful(Server(i))

(***************************************************************************)
(* A refusal that is called unanimous is the chain's own as soon as one    *)
(* configured backend is no liar, be it down: the path does leave the      *)
(* output space, or is longer than the cap.  The command line tells a      *)
(* script that a path is out of scope only when it is.                     *)
(***************************************************************************)
UnanimousRefusalIsTrue ==
  phase = "done" /\ (\E i \in DOMAIN Backends : ~Lies(Server(i))) =>
    /\ outcome.unanimous = "yes" =>
         CASE outcome.result = "CustodyUnsupported" ->
                \E h \in DOMAIN world.path : world.path[h].burns
           [] outcome.result = "CustodyHopLimit" -> Len(world.path) > MaxHops + 1
           [] OTHER -> FALSE
    /\ outcome.result # "custody" /\ ExitCode = CATEGORY_EXIT_CODES("OUT OF SCOPE") =>
         \E h \in DOMAIN world.path : world.path[h].burns
=============================================================================
