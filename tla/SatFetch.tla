------------------------------- MODULE SatFetch -------------------------------
(***************************************************************************)
(* fetchSatIdentity of packages/fetch/src/satbuilder.ts: walk the sat of   *)
(* an inscription back to the coinbase that minted it, led by one member   *)
(* after another, anchor the two endpoints, and verify the bundle.         *)
(*                                                                         *)
(* What decides a refusal is asked of the leading member alone: the        *)
(* reveal's bytes, status and merkle proof, and the coinbase's status.     *)
(* Everything else goes to the pool, whose members take turns (HttpPool).  *)
(* A txid fixes the funding transactions, so nobody can lie about them;    *)
(* it fixes neither the reveal's witness nor the blocks.                   *)
(*                                                                         *)
(* Answers that contradict one another end an attempt like a request that  *)
(* fails (checkHopAnswers, modelled in CustodyFetch), so a hop is taken as *)
(* consistent answers describe it.                                         *)
(***************************************************************************)
EXTENDS HeaderTrust, SatSpace, Refusals

CONSTANTS
  Members,       \* options.esplora, as a sequence of endpoints
  Ledgers,       \* what a run may find on the chain
  MaxSteps,      \* options.maxSteps
  Boundary,      \* BIP34_ENFORCED_FROM
  AlwaysSection, \* options.witnessSection = 'always'
  MaxLiars,      \* bound on the servers that lie in a run ...
  MaxDown        \* ... and on those that may fail any request

ASSUME SatFetchAssumption ==
  /\ Members \in Seq(Endpoints) /\ Members # <<>>
  /\ MaxSteps \in Nat /\ Boundary \in Nat
  /\ AlwaysSection \in BOOLEAN
  /\ MaxLiars \in Nat /\ MaxDown \in Nat

\* The chain's rules: what a reveal and the coinbase a walk from it ends at
\* have in a ledger; where BIP34 is enforced, a coinbase pushes its height.
ASSUME LedgerAssumption ==
  \A ledger \in Ledgers :
    /\ ledger.txs[ledger.reveal].height \in Heights
    /\ \A inscription \in {ledger.executed, ledger.other} :
         LET end == AncestryOf(ledger.txs, ledger.reveal, inscription)
             coinbase == ledger.txs[end.tx]
         IN  ~ (end.position < 0) =>
               /\ coinbase.height \in Heights
               /\ coinbase.height >= Boundary => coinbase.push = coinbase.height

(* A ledger: its transactions, each with its height and, a coinbase, the   *)
(* height its script pushes; the reveal; the inscription in the witness    *)
(* that was executed, and in another its commit output commits to as well. *)
VARIABLES
  world,    \* the ledger, the servers that lie or are down, the caller's hook
  phase,    \* where fetchSatIdentity is
  ended,    \* how the attempts so far ended, in the order of Members
  build,    \* the attempt under way, in the end the bundle
  outcome   \* what fetchSatIdentity came to

vars == <<world, phase, ended, build, outcome>>

\* A hop: the block, its height and the position as they were served.
Places == [block : Heights \cup {Forged}, height : Heights, pos : 0..1]

Nowhere == [block |-> Forged, height |-> MaxHeight, pos |-> 1]

\* used: the pool members that served bytes; witnessServer: who served the raw
\* block of the reveal's witness section, if it has one.
NoBuild == [witness |-> "executed", reveal |-> Nowhere, coinbase |-> Nowhere,
            used |-> {}, witnessServer |-> {}]

Running == [result |-> "running", unanimous |-> "unmarked", sat |-> -1]

Worlds == {w \in [ledger : Ledgers, liars : SUBSET Servers, down : SUBSET Servers,
                  hook : {"makeHeaderTrust", "rejectOnly"}] :
             /\ Cardinality(w.liars) <= MaxLiars /\ Cardinality(w.down) <= MaxDown
             /\ w.liars \cap w.down = {}}

\* The chain does not grow in a run, and ends at MaxHeight.
Init ==
  /\ world \in Worlds
  /\ phase = "lead" /\ ended = <<>> /\ build = NoBuild /\ outcome = Running

Lead == Members[Len(ended) + 1]
Lies(endpoint) == ServerOf[endpoint] \in world.liars
Truthful(endpoint) == ServerOf[endpoint] \notin world.liars \cup world.down

\* The members that served the pooled requests of a phase.
Pools == (SUBSET ToSet(Members)) \ {{}}

-----------------------------------------------------------------------------
(* What the ledger says.                                                   *)

Chain == world.ledger.txs
Reveal == Chain[world.ledger.reveal]

\* The walk from the inscription a witness shows; "forged" is one the commit
\* output does not commit to, and shows anything.
Origin(witness) ==
  AncestryOf(Chain, world.ledger.reveal,
             IF witness = "other" THEN world.ledger.other ELSE world.ledger.executed)

SatOf(witness) == SatAtEnd(Origin(witness), Chain[Origin(witness).tx].height)

Coinbase == Chain[Origin(build.witness).tx]

\* A lie needs a liar for each half of the answers: the lead's and the pool's.
\* What is folded into a block of the chain is there, and where it is.
Claims(height, pos, pool) ==
  IF Lies(Lead) /\ \E e \in pool : Lies(e)
  THEN {place \in Places : place.block \in {height, Forged}
                             /\ (place.block = height => place.pos = pos)}
  ELSE {[block |-> height, height |-> height, pos |-> pos]}

\* A block of the chain commits to the witness that was executed.
MayServeRaw(endpoint) ==
  IF build.reveal.block = Forged THEN Lies(endpoint) ELSE build.witness = "executed"

MayNotServeRaw(endpoint) == ~Truthful(endpoint) \/ ~MayServeRaw(endpoint)

-----------------------------------------------------------------------------
(* The build loop.                                                         *)

Recordable ==
  {"CustodyUnsupported", "CoinbaseHeightUnproven", "SatStepLimit", "WitnessSectionUnavailable"}

\* A mutant: attempts without an answer are not counted.
SharedRefusalUncounted(ends) ==
  LET refusals == {i \in DOMAIN ends : ends[i] \in Recordable}
  IN IF refusals # {} /\ \A i, j \in refusals : ends[i] = ends[j]
     THEN [Running EXCEPT !.result = ends[CHOOSE i \in refusals : TRUE],
                          !.unanimous = IF Len(Members) >= 2 THEN "yes" ELSE "no"]
     ELSE [Running EXCEPT !.result = "BUILD_FAILED"]

\* sharedDomainRefusal; the members beyond `ends` never led.
SharedRefusal(ends) ==
  LET refusals == {i \in DOMAIN ends : ends[i] \in Recordable}
  IN IF refusals # {} /\ \A i, j \in refusals : ends[i] = ends[j]
     THEN [Running EXCEPT !.result = ends[CHOOSE i \in refusals : TRUE],
                          !.unanimous = IF Len(Members) >= 2 /\ refusals = DOMAIN Members
                                        THEN "yes" ELSE "no"]
     ELSE [Running EXCEPT !.result = "BUILD_FAILED"]

LoopEnds(ends) ==
  phase' = "done" /\ ended' = ends /\ build' = NoBuild /\ outcome' = SharedRefusal(ends)
    /\ UNCHANGED world

\* The next member leads, if there is one.
AttemptEnds(how) ==
  LET ends == Append(ended, how)
  IN  IF Len(ends) = Len(Members) THEN LoopEnds(ends)
      ELSE /\ phase' = "lead" /\ ended' = ends /\ build' = NoBuild
           /\ UNCHANGED <<world, outcome>>

Continue(next, bundle) ==
  phase' = next /\ build' = bundle /\ UNCHANGED <<world, ended, outcome>>

Building == phase \in {"lead", "section", "walk", "coinbase"}

\* A request to the lead fails, or the bytes of a liar do.
NoAnswer ==
  /\ Building
  /\ ~Truthful(Lead) \/ \E i \in DOMAIN Members : Lies(Members[i])
  /\ AttemptEnds("noAnswer")

\* The reveal hop, and the envelope in the witness as it was served.
TakeReveal ==
  /\ phase = "lead"
  /\ \E pool \in Pools :
       \E place \in Claims(Reveal.height, 1, pool),
          witness \in IF Lies(Lead) THEN {"executed", "other", "forged"} ELSE {"executed"} :
         Continue("section", [build EXCEPT !.witness = witness, !.reveal = place,
                                           !.used = @ \cup pool])

NeedsSection == AlwaysSection \/ Len(Reveal.inputs) > 1

\* bindRevealEnvelope, and where the walk starts.
Start(bundle) ==
  CASE bundle.witness = "forged" -> AttemptEnds("noAnswer")
    [] bundle.witness # "forged" /\ Origin(bundle.witness).position < 0 ->
         AttemptEnds("CustodyUnsupported")
    [] OTHER -> Continue("walk", bundle)

\* The members as attachRevealWitnessSection asks them, the lead first.
Rotated(n) == Members[1 + ((Len(ended) + n - 1) % Len(Members))]

AttachSection ==
  /\ phase = "section"
  /\ \/ ~NeedsSection /\ Start(build)
     \/ /\ NeedsSection
        /\ \E n \in DOMAIN Members :
             /\ MayServeRaw(Rotated(n))
             /\ \A m \in 1 .. n - 1 : MayNotServeRaw(Rotated(m))
             /\ Start([build EXCEPT !.witnessServer = {Rotated(n)}])
     \/ /\ NeedsSection
        /\ \A n \in DOMAIN Members : MayNotServeRaw(Rotated(n))
        /\ AttemptEnds("WitnessSectionUnavailable")

\* The funding transactions, to the coinbase.
WalkFunding ==
  /\ phase = "walk"
  /\ IF Origin(build.witness).depth > MaxSteps THEN AttemptEnds("SatStepLimit")
     ELSE \E pool \in Pools : Continue("coinbase", [build EXCEPT !.used = @ \cup pool])

\* Every member has failed a request of the walk: the loop is left.
PoolExhausted ==
  /\ phase = "walk"
  /\ \A i \in DOMAIN Members : ~Truthful(Members[i])
  /\ LoopEnds(Append(ended, "noAnswer"))

\* A mutant: the push is read at every height.
StatesItsHeightAlways(coinbase, height) == coinbase.push = height

\* From the boundary on a coinbase says its height.
StatesItsHeight(coinbase, height) == height >= Boundary => coinbase.push = height

\* A mutant: a coinbase may be anywhere in its block.
TakesCoinbaseAnywhere(place) == StatesItsHeight(Coinbase, place.height)

TakesCoinbase(place) == place.pos = 0 /\ StatesItsHeight(Coinbase, place.height)

\* coinbaseSatAt at the build: what refuses it may be a height nobody vouched for.
TakeCoinbase ==
  /\ phase = "coinbase"
  /\ \E pool \in Pools :
       \E place \in Claims(Coinbase.height, 0, pool) :
         CASE ~TakesCoinbase(place) -> AttemptEnds("noAnswer")
           [] TakesCoinbase(place) /\ SatAtEnd(Origin(build.witness), place.height) < 0 ->
                AttemptEnds(IF place.height < Boundary THEN "CoinbaseHeightUnproven"
                                                       ELSE "CustodyUnsupported")
           [] OTHER -> Continue("anchorReveal", [build EXCEPT !.coinbase = place,
                                                              !.used = @ \cup pool])

-----------------------------------------------------------------------------
(* After the loop: nothing here goes back to another member.               *)

\* A mutant: the lead is in the pool, so it is on record already.
ProofSourcesOfPool(bundle) == bundle.used \cup bundle.witnessServer

ProofSources(bundle) == bundle.used \cup {Lead} \cup bundle.witnessServer

\* The other hook is one that knows the chain's headers, and says nothing of heights.
MayAccept(place) ==
  IF world.hook = "rejectOnly" THEN place.block # Forged
  ELSE MayAnchor(place.block, place.height, ProofSources(build), world, MaxHeight)

MayReject(place) ==
  IF world.hook = "rejectOnly" THEN place.block = Forged
  ELSE MayRefuse(place.block, place.height, ProofSources(build), world, MaxHeight)

Ends(result, sat) ==
  /\ phase' = "done" /\ outcome' = [Running EXCEPT !.result = result, !.sat = sat]
  /\ UNCHANGED <<world, ended, build>>

Anchor(from, place, next) ==
  /\ phase = from
  /\ \/ MayAccept(place) /\ Continue(next, build)
     \/ MayReject(place) /\ Ends("HEADER_TRUST", -1)

AnchorReveal == Anchor("anchorReveal", build.reveal, "anchorCoinbase")
AnchorCoinbase == Anchor("anchorCoinbase", build.coinbase, "verify")

\* Below the boundary only the hook's attestation binds the height.
HeightIsBound == build.coinbase.height >= Boundary \/ world.hook = "makeHeaderTrust"

\* verifySatGenealogy, in its order.
Verdict ==
  LET end == Origin(build.witness)
      sat == SatAtEnd(end, build.coinbase.height)
  IN  IF end.depth > MaxSteps THEN "SatStepLimit"
      ELSE IF Len(Reveal.inputs) > 1 /\ build.witnessServer = {} THEN "EnvelopeIndexUnproven"
      ELSE IF build.witness = "forged" THEN "VERIFY_FAILED"
      ELSE IF end.position < 0 THEN "CustodyUnsupported"
      ELSE IF build.coinbase.pos # 0 \/ ~StatesItsHeight(Coinbase, build.coinbase.height)
           THEN "VERIFY_FAILED"
      ELSE IF ~HeightIsBound THEN "CoinbaseHeightUnproven"
      ELSE IF sat < 0 THEN "CustodyUnsupported" ELSE "identity"

Verify ==
  /\ phase = "verify"
  /\ Ends(Verdict, IF Verdict = "identity"
                   THEN SatAtEnd(Origin(build.witness), build.coinbase.height) ELSE -1)

Next ==
  \/ NoAnswer \/ TakeReveal \/ AttachSection \/ WalkFunding \/ PoolExhausted \/ TakeCoinbase
  \/ AnchorReveal \/ AnchorCoinbase \/ Verify

Spec == Init /\ [][Next]_vars

\* What the sat command exits with, when the fetch fails.
ExitCode == failFrom(outcome.result, "live", outcome.unanimous)

-----------------------------------------------------------------------------

\* Whoever gave bytes of the bundle, the answers to the lead's requests included.
Gave == build.used \cup build.witnessServer \cup {Lead}

(***************************************************************************)
(* The sat that is returned is the one the ledger has under the witness    *)
(* that was shown, and with a witness section that is the executed one.    *)
(* makeHeaderTrust owes this unless as many attesters lie as it takes to   *)
(* anchor a header, whoever served deciding answers being no attester.  A  *)
(* hook that only rejects headers owes it too, for the coinbase's own push *)
(* is the height's only witness then: unless a coinbase from before the    *)
(* boundary pushes a height that was not its own.                          *)
(***************************************************************************)
SatIsTrue ==
  /\ outcome.result = "identity"
  /\ IF world.hook = "makeHeaderTrust"
     THEN Cardinality(LyingAttesters(Gave, world)) < MinAgreement
     ELSE Coinbase.push \in {-1, Coinbase.height}
  => /\ outcome.sat = SatOf(build.witness)
     /\ build.witnessServer # {} => build.witness = "executed"

(***************************************************************************)
(* What the walk builds the verifier accepts: after the loop, when no      *)
(* other member can be asked any more, the fetch fails only for a header   *)
(* that is not anchored, or a height that the caller's hook does not bind. *)
(***************************************************************************)
BuildImpliesVerify ==
  phase = "done" /\ build # NoBuild =>
    outcome.result \in {"identity", "HEADER_TRUST"}
      \cup (IF world.hook = "rejectOnly" THEN {"CoinbaseHeightUnproven"} ELSE {})

\* The executed inscription is on a sat that v1 can trace within the cap.
Provable == ~ (SatOf("executed") < 0) /\ ~ (Origin("executed").depth > MaxSteps)

(***************************************************************************)
(* As long as no member lies, one that answers is enough to build a bundle *)
(* for a provable sat, whoever leads first and whatever the others leave   *)
(* unanswered; a lie costs the attempts it is told in.                     *)
(***************************************************************************)
OneLiveMemberSuffices ==
  /\ phase = "done" /\ Provable
  /\ \A i \in DOMAIN Members : ~Lies(Members[i])
  /\ \E i \in DOMAIN Members : Truthful(Members[i])
  => build # NoBuild

(***************************************************************************)
(* The loop is left early only when that costs nothing: the members that   *)
(* never led had all failed a request that a txid fixes.                   *)
(***************************************************************************)
GivenUpIsHopeless ==
  phase = "done" /\ build = NoBuild /\ Len(ended) < Len(Members) =>
    \A i \in DOMAIN Members : ~Truthful(Members[i])

(***************************************************************************)
(* A refusal that is called unanimous is the chain's own as soon as one    *)
(* member is no liar, be it down half the time: the sat was a fee, or has  *)
(* no number the bundle could prove, or lies beyond the cap.  That no      *)
(* section was to be had says that no member is dependable.  The command   *)
(* line says out of scope only of a sat that is.                           *)
(***************************************************************************)
UnanimousRefusalIsTrue ==
  LET end == Origin("executed")
  IN  phase = "done" /\ (\E i \in DOMAIN Members : ~Lies(Members[i])) =>
        /\ outcome.unanimous = "yes" =>
             CASE outcome.result = "CustodyUnsupported" -> SatOf("executed") < 0
               [] outcome.result = "CoinbaseHeightUnproven" ->
                    SatOf("executed") < 0 /\ Chain[end.tx].height < Boundary
               [] outcome.result = "SatStepLimit" -> end.depth > MaxSteps
               [] outcome.result = "WitnessSectionUnavailable" ->
                    \A i \in DOMAIN Members : ~Truthful(Members[i])
        /\ outcome.result # "identity" /\ ExitCode = CATEGORY_EXIT_CODES("OUT OF SCOPE") =>
             SatOf("executed") < 0
=============================================================================
