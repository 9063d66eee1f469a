------------------------------ MODULE SatProofs -------------------------------
(***************************************************************************)
(* Of a fetch (SatFetch): the properties of fetchSatIdentity, for any      *)
(* members, attesters, ledgers and caps, and any number of liars.  What    *)
(* the walk itself computes (AncestryOf, SatAtEnd) is taken as it is, and  *)
(* LedgerAssumption is all that is used of it.  Inv says of the attempt    *)
(* under way what was checked of each of its parts and whom they come      *)
(* from, of the attempts that are over what they tell of the ledger, and   *)
(* of a fetch that is over in which ways it can be.                        *)
(*                                                                         *)
(* Of the sats (SatSpace, SatLedger), for every chain: the walks follow    *)
(* them and the closed forms number them.  LedgerInv says that each output *)
(* holds what the values say: a spend's, first in, first out, the sats of  *)
(* its inputs; a coinbase's, the sats numbered next and then the fees.     *)
(* The values on both sides of a hop are one stream, cut in two ways, and  *)
(* a sat is at one place in each; that is the argument.  The arithmetic is *)
(* apart: an epoch at a time, and names by their quotients.                *)
(***************************************************************************)
EXTENDS SatFetch, SatLedger, HeaderTrustProofs, SequenceTheorems

Witnesses == {"executed", "other", "forged"}

Results == Recordable \cup {"noAnswer"}

BuildType ==
  [witness : Witnesses, reveal : Places, coinbase : Places,
   used : SUBSET Endpoints, witnessServer : SUBSET Endpoints]

Anchoring == {"anchorReveal", "anchorCoinbase", "verify"}
Walked == {"coinbase"} \cup Anchoring
Opened == {"walk"} \cup Walked
Revealed == {"section"} \cup Opened

Typed ==
  /\ world \in Worlds
  /\ ended \in Seq(Results) /\ Len(ended) <= Len(Members)
  /\ build \in BuildType

Control ==
  /\ phase \in {"lead", "done"} \cup Revealed
  /\ phase = "lead" => build = NoBuild
  /\ phase \in Revealed => build.used # {}
  /\ phase # "done" => outcome = Running /\ Len(ended) < Len(Members)

\* What was checked of the parts of a bundle, in the order of the walk.
RevealSound(b) ==
  /\ b.reveal.block \in {Reveal.height, Forged}
  /\ ~Lies(Lead) => b.witness = "executed" /\ b.reveal.block # Forged
  /\ b.witnessServer # {} /\ b.reveal.block # Forged => b.witness = "executed"

OpeningSound(b) ==
  /\ b.witness # "forged" /\ ~ (Origin(b.witness).position < 0)
  /\ NeedsSection => b.witnessServer # {}

DepthSound(b) == ~ (Origin(b.witness).depth > MaxSteps)

CoinbaseSound(b) ==
  LET coinbase == Chain[Origin(b.witness).tx]
  IN  /\ b.coinbase.block \in {coinbase.height, Forged} /\ b.coinbase.pos = 0
      /\ StatesItsHeight(coinbase, b.coinbase.height)
      /\ ~ (SatAtEnd(Origin(b.witness), b.coinbase.height) < 0)

\* A bundle is in a phase, or was returned from the last one.
Has(phases) == phase \in phases \/ (phase = "done" /\ build.used # {})

BuildIsSound ==
  /\ Has(Revealed) => RevealSound(build)
  /\ Has(Opened) => OpeningSound(build)
  /\ Has(Walked) => DepthSound(build)
  /\ Has(Anchoring) => CoinbaseSound(build)

AnchoredTruly(place) ==
  IF world.hook = "rejectOnly" THEN place.block # Forged
  ELSE Cardinality(LyingAttesters(Gave, world)) < MinAgreement => place.block = place.height

AnchorsAreTrue ==
  /\ phase \in {"anchorCoinbase", "verify"} => AnchoredTruly(build.reveal)
  /\ phase = "verify" => AnchoredTruly(build.coinbase)

\* What an attempt says of the ledger and of the members.
EndIsTrue(i, how) ==
  /\ how = "noAnswer" => ~Truthful(Members[i]) \/ \E k \in DOMAIN Members : Lies(Members[k])
  /\ ~Lies(Members[i]) =>
       /\ how = "CustodyUnsupported" => SatOf("executed") < 0
       /\ how = "CoinbaseHeightUnproven" =>
            SatOf("executed") < 0 /\ Chain[Origin("executed").tx].height < Boundary
       /\ how = "SatStepLimit" => Origin("executed").depth > MaxSteps
       /\ how = "WitnessSectionUnavailable" => \A k \in DOMAIN Members : ~Truthful(Members[k])

EndsAreTrue == \A i \in DOMAIN ended : EndIsTrue(i, ended[i])

Hopeless == \A i \in DOMAIN Members : ~Truthful(Members[i])

\* The ways a fetch ends.
GaveUp(r) == build = NoBuild /\ r = SharedRefusal(ended) /\ (Len(ended) = Len(Members) \/ Hopeless)
Unanchored(r) == build.used # {} /\ r.unanimous = "unmarked" /\ r.result = "HEADER_TRUST"
HeightUnbound(r) ==
  /\ build.used # {} /\ r.unanimous = "unmarked"
  /\ r.result = "CoinbaseHeightUnproven" /\ world.hook = "rejectOnly"
Identified(r) ==
  /\ build.used # {} /\ r.unanimous = "unmarked" /\ r.result = "identity"
  /\ r.sat = SatAtEnd(Origin(build.witness), build.coinbase.height) /\ HeightIsBound
  /\ AnchoredTruly(build.reveal) /\ AnchoredTruly(build.coinbase)

OutcomeIsTrue ==
  phase = "done" =>
    GaveUp(outcome) \/ Unanchored(outcome) \/ HeightUnbound(outcome) \/ Identified(outcome)

Inv ==
  /\ Typed /\ Control /\ BuildIsSound /\ AnchorsAreTrue /\ EndsAreTrue /\ OutcomeIsTrue
-----------------------------------------------------------------------------

\* The world stays as it is, and so does all that is said of it.
LEMMA WorldStays ==
  ASSUME world' = world
  PROVE  /\ \A w : Origin(w)' = Origin(w) /\ SatOf(w)' = SatOf(w)
         /\ \A e : (Lies(e)' <=> Lies(e)) /\ (Truthful(e)' <=> Truthful(e))
         /\ Chain' = Chain /\ Reveal' = Reveal /\ (NeedsSection' <=> NeedsSection)
         /\ Hopeless' <=> Hopeless
         /\ \A i, how : EndIsTrue(i, how)' <=> EndIsTrue(i, how)
<1>1. Chain' = Chain /\ Reveal' = Reveal
  BY DEF Chain, Reveal
<1>2. \A w : Origin(w)' = Origin(w)
  BY <1>1 DEF Origin
<1>3. \A w : SatOf(w)' = SatOf(w)
  BY <1>1, <1>2 DEF SatOf
<1>4. \A e : (Lies(e)' <=> Lies(e)) /\ (Truthful(e)' <=> Truthful(e))
  BY DEF Lies, Truthful
<1>5. (Hopeless' <=> Hopeless) /\ (NeedsSection' <=> NeedsSection)
  BY <1>1, <1>4 DEF Hopeless, NeedsSection
<1>6. \A i, how : EndIsTrue(i, how)' <=> EndIsTrue(i, how)
  BY <1>1, <1>2, <1>3, <1>4 DEF EndIsTrue
<1> QED BY <1>1, <1>2, <1>3, <1>4, <1>5, <1>6

\* What the ledger assumption says where the walk stands.
LEMMA LedgerFacts ==
  ASSUME Typed
  PROVE  /\ Reveal.height \in Heights
         /\ \A w \in {"executed", "other"} :
              ~ (Origin(w).position < 0) =>
                /\ Chain[Origin(w).tx].height \in Heights
                /\ StatesItsHeight(Chain[Origin(w).tx], Chain[Origin(w).tx].height)
         /\ world.liars \subseteq Servers
         /\ Forged \notin Heights /\ Heights \subseteq Nat \ {0}
<1>1. world.ledger \in Ledgers /\ world.liars \subseteq Servers
  BY DEF Typed, Worlds
<1>2. Reveal.height \in Heights
  BY <1>1, LedgerAssumption DEF LedgerAssumption, Reveal, Chain
<1>3. ASSUME NEW w \in {"executed", "other"}, ~ (Origin(w).position < 0)
      PROVE  /\ Chain[Origin(w).tx].height \in Heights
             /\ StatesItsHeight(Chain[Origin(w).tx], Chain[Origin(w).tx].height)
  <2> DEFINE inscription == IF w = "other" THEN world.ledger.other ELSE world.ledger.executed
  <2>1. inscription \in {world.ledger.executed, world.ledger.other}
    OBVIOUS
  <2>2. Origin(w) = AncestryOf(world.ledger.txs, world.ledger.reveal, inscription)
    BY DEF Origin, Chain
  <2> QED BY <1>1, <1>3, <2>1, <2>2, LedgerAssumption DEF LedgerAssumption, Chain, StatesItsHeight
<1>4. Forged \notin Heights /\ Heights \subseteq Nat \ {0}
  BY TrustAssumption DEF TrustAssumption, Heights, Forged
<1> QED BY <1>1, <1>2, <1>3, <1>4

\* An answer that is taken as true of a place names its block, or one that is
\* forged; without a liar in the lead it names the place.
LEMMA ClaimedPlace ==
  ASSUME NEW h \in Heights, NEW pos \in 0 .. 1, NEW pool, NEW place \in Claims(h, pos, pool)
  PROVE  /\ place \in Places
         /\ place.block \in {h, Forged}
         /\ ~Lies(Lead) => place.block = h /\ place.height = h /\ place.pos = pos
BY DEF Claims, Places

LEMMA NoBuildType == NoBuild \in BuildType /\ NoBuild.used = {}
<1>1. Nowhere \in Places
  BY TrustAssumption DEF TrustAssumption, Nowhere, Places, Heights
<1>2. NoBuild \in BuildType
  BY <1>1 DEF NoBuild, BuildType, Witnesses
<1>3. NoBuild.used = {}
  BY DEF NoBuild
<1> QED BY <1>2, <1>3

-----------------------------------------------------------------------------
(* How an attempt ends.                                                    *)

\* What an attempt that is over leaves of the invariant.
LEMMA EndedKeeps ==
  ASSUME Inv, Building, NEW how \in Results, EndIsTrue(Len(ended) + 1, how),
         ended' = Append(ended, how), build' = NoBuild, world' = world
  PROVE  Typed' /\ EndsAreTrue' /\ Len(ended') = Len(ended) + 1 /\ Len(ended') <= Len(Members)
<1>1. /\ ended \in Seq(Results) /\ Len(ended) < Len(Members) /\ Len(Members) \in Nat
  BY SatFetchAssumption DEF SatFetchAssumption, Inv, Typed, Control, Building
<1>2. ended' \in Seq(Results) /\ Len(ended') = Len(ended) + 1 /\ Len(ended') <= Len(Members)
  BY <1>1
<1>3. Typed'
  BY <1>2, NoBuildType DEF Inv, Typed, BuildType, Worlds
<1>4. \A i \in DOMAIN ended' : EndIsTrue(i, ended'[i])
  <2> SUFFICES ASSUME NEW i \in DOMAIN ended' PROVE EndIsTrue(i, ended'[i])
    OBVIOUS
  <2>1. i \in DOMAIN ended \/ i = Len(ended) + 1
    BY <1>1
  <2>2. CASE i \in DOMAIN ended
    <3>1. ended'[i] = ended[i]
      BY <1>1, <2>2
    <3> QED BY <2>2, <3>1 DEF Inv, EndsAreTrue
  <2>3. CASE i = Len(ended) + 1
    <3>1. ended'[i] = how
      BY <1>1, <2>3
    <3> QED BY <2>3, <3>1
  <2> QED BY <2>1, <2>2, <2>3
<1>5. EndsAreTrue'
  BY <1>4, WorldStays DEF EndsAreTrue
<1> QED BY <1>2, <1>3, <1>5

\* The loop is over: every member has led, or no member is truthful.
LEMMA LoopEndsKeeps ==
  ASSUME Inv, Building, NEW how \in Results, EndIsTrue(Len(ended) + 1, how),
         Len(ended) + 1 = Len(Members) \/ Hopeless,
         LoopEnds(Append(ended, how))
  PROVE  Inv'
<1>1. /\ phase' = "done" /\ ended' = Append(ended, how) /\ build' = NoBuild
      /\ outcome' = SharedRefusal(ended') /\ world' = world
  BY DEF LoopEnds
<1>2. Typed' /\ EndsAreTrue' /\ Len(ended') = Len(ended) + 1
  BY <1>1, EndedKeeps
<1>3. Control'
  BY <1>1 DEF Control, Revealed, Opened, Walked, Anchoring
<1>4. build'.used = {}
  BY <1>1, NoBuildType
<1>5. BuildIsSound' /\ AnchorsAreTrue'
  BY <1>1, <1>4 DEF BuildIsSound, AnchorsAreTrue, Has, Revealed, Opened, Walked, Anchoring
<1>6. OutcomeIsTrue'
  <2>1. Len(ended') = Len(Members) \/ Hopeless'
    BY <1>1, <1>2, WorldStays
  <2> QED BY <1>1, <2>1 DEF OutcomeIsTrue, GaveUp, NoBuild, SharedRefusal
<1> QED BY <1>2, <1>3, <1>5, <1>6 DEF Inv

\* The next member leads, or none is left.
LEMMA AttemptEndsKeeps ==
  ASSUME Inv, Building, NEW how \in Results, EndIsTrue(Len(ended) + 1, how), AttemptEnds(how)
  PROVE  Inv'
<1>1. Len(ended) < Len(Members) /\ outcome = Running /\ ended \in Seq(Results)
  BY DEF Inv, Typed, Control, Building
<1>2. Len(Append(ended, how)) = Len(ended) + 1
  BY <1>1
<1>3. CASE Len(Append(ended, how)) = Len(Members)
  BY <1>2, <1>3, LoopEndsKeeps DEF AttemptEnds
<1>4. CASE Len(Append(ended, how)) # Len(Members)
  <2>1. /\ phase' = "lead" /\ ended' = Append(ended, how) /\ build' = NoBuild
        /\ world' = world /\ outcome' = Running
    BY <1>1, <1>4 DEF AttemptEnds
  <2>2. Typed' /\ EndsAreTrue' /\ Len(ended') < Len(Members)
    <3>1. Len(Members) \in Nat /\ Len(ended') \in Nat
      BY <1>1, <1>2, <2>1, SatFetchAssumption DEF SatFetchAssumption
    <3> QED BY <1>4, <2>1, <3>1, EndedKeeps
  <2>3. Control'
    BY <2>1, <2>2 DEF Control, Revealed, Opened, Walked, Anchoring, NoBuild
  <2>4. BuildIsSound' /\ AnchorsAreTrue' /\ OutcomeIsTrue'
    BY <2>1 DEF BuildIsSound, AnchorsAreTrue, OutcomeIsTrue, Has, Revealed, Opened, Walked, Anchoring
  <2> QED BY <2>2, <2>3, <2>4 DEF Inv
<1> QED BY <1>3, <1>4
-----------------------------------------------------------------------------
(* How an attempt goes on, and how a fetch ends that has a bundle.         *)

LEMMA ContinueKeeps ==
  ASSUME Inv, phase # "done", NEW next \in Revealed, NEW bundle \in BuildType,
         bundle.used # {}, RevealSound(bundle),
         next \in Opened => OpeningSound(bundle),
         next \in Walked => DepthSound(bundle),
         next \in Anchoring => CoinbaseSound(bundle),
         next \in {"anchorCoinbase", "verify"} => bundle = build /\ AnchoredTruly(build.reveal),
         next = "verify" => AnchoredTruly(build.coinbase),
         Continue(next, bundle)
  PROVE  Inv'
<1> USE DEF Inv
<1>1. /\ phase' = next /\ build' = bundle
      /\ world' = world /\ ended' = ended /\ outcome' = outcome
  BY DEF Continue
<1>2. next # "done" /\ next # "lead"
  BY DEF Revealed, Opened, Walked, Anchoring
<1>3. Typed'
  BY <1>1 DEF Typed, Worlds, BuildType
<1>4. Control'
  BY <1>1, <1>2 DEF Control
<1>5. BuildIsSound'
  <2>1. RevealSound(build)'
    BY <1>1, WorldStays DEF RevealSound, Lead
  <2>2. next \in Opened => OpeningSound(build)'
    BY <1>1, WorldStays DEF OpeningSound
  <2>3. next \in Walked => DepthSound(build)'
    BY <1>1, WorldStays DEF DepthSound
  <2>4. next \in Anchoring => CoinbaseSound(build)'
    BY <1>1, WorldStays DEF CoinbaseSound, StatesItsHeight
  <2> QED BY <1>1, <1>2, <2>1, <2>2, <2>3, <2>4 DEF BuildIsSound, Has
<1>6. AnchorsAreTrue'
  BY <1>1 DEF AnchorsAreTrue, AnchoredTruly, Gave, Lead
<1>7. EndsAreTrue' /\ OutcomeIsTrue'
  BY <1>1, <1>2, WorldStays DEF EndsAreTrue, OutcomeIsTrue
<1> QED BY <1>3, <1>4, <1>5, <1>6, <1>7

LEMMA EndsKeeps ==
  ASSUME Inv, phase \in Anchoring, NEW result, NEW sat, Ends(result, sat),
         \/ result = "HEADER_TRUST"
         \/ result = "CoinbaseHeightUnproven" /\ world.hook = "rejectOnly"
         \/ /\ result = "identity" /\ sat = SatAtEnd(Origin(build.witness), build.coinbase.height)
            /\ HeightIsBound /\ AnchoredTruly(build.reveal) /\ AnchoredTruly(build.coinbase)
  PROVE  Inv'
<1> USE DEF Inv
<1>1. /\ phase' = "done" /\ outcome' = [Running EXCEPT !.result = result, !.sat = sat]
      /\ world' = world /\ ended' = ended /\ build' = build
  BY DEF Ends
<1>2. outcome'.result = result /\ outcome'.sat = sat /\ outcome'.unanimous = "unmarked"
  BY <1>1 DEF Running
<1>3. phase \in Revealed /\ phase \in Opened /\ phase \in Walked /\ build.used # {}
  BY DEF Control, Revealed, Opened, Walked
<1>4. Typed' /\ Control'
  BY <1>1 DEF Typed, Control, Revealed, Opened, Walked, Anchoring, Worlds, BuildType
<1>5. BuildIsSound'
  <2>1. RevealSound(build)'
    BY <1>1, <1>3, WorldStays DEF RevealSound, Lead, BuildIsSound, Has
  <2>2. OpeningSound(build)' /\ DepthSound(build)'
    BY <1>1, <1>3, WorldStays DEF OpeningSound, DepthSound, BuildIsSound, Has
  <2>3. CoinbaseSound(build)'
    BY <1>1, <1>3, WorldStays DEF CoinbaseSound, StatesItsHeight, BuildIsSound, Has
  <2> QED BY <2>1, <2>2, <2>3 DEF BuildIsSound
<1>6. AnchorsAreTrue' /\ EndsAreTrue'
  BY <1>1, WorldStays DEF AnchorsAreTrue, EndsAreTrue
<1>7. OutcomeIsTrue'
  <2>1. build'.used # {}
    BY <1>1, <1>3
  <2>2. CASE result = "HEADER_TRUST"
    BY <1>2, <2>1, <2>2 DEF OutcomeIsTrue, Unanchored
  <2>3. CASE result = "CoinbaseHeightUnproven" /\ world.hook = "rejectOnly"
    BY <1>1, <1>2, <2>1, <2>3 DEF OutcomeIsTrue, HeightUnbound
  <2>4. CASE /\ result = "identity"
             /\ sat = SatAtEnd(Origin(build.witness), build.coinbase.height)
             /\ HeightIsBound /\ AnchoredTruly(build.reveal) /\ AnchoredTruly(build.coinbase)
    <3>1. HeightIsBound' /\ AnchoredTruly(build.reveal)' /\ AnchoredTruly(build.coinbase)'
      BY <1>1, <2>4 DEF HeightIsBound, AnchoredTruly, Gave, Lead
    <3>2. (outcome.sat = SatAtEnd(Origin(build.witness), build.coinbase.height))'
      BY <1>1, <1>2, <2>4, WorldStays
    <3>3. Identified(outcome)'
      BY <1>1, <1>2, <2>1, <2>4, <3>1, <3>2 DEF Identified
    <3> QED BY <3>3 DEF OutcomeIsTrue
  <2> QED BY <2>2, <2>3, <2>4
<1> QED BY <1>4, <1>5, <1>6, <1>7
-----------------------------------------------------------------------------
(* One lemma for each action.                                              *)

\* The lead is one of the members, and pools have some of them.
LEMMA LeadIsMember ==
  ASSUME Inv, phase # "done"
  PROVE  /\ Len(ended) + 1 \in DOMAIN Members /\ Lead = Members[Len(ended) + 1]
         /\ Lead \in Endpoints
         /\ \A pool \in Pools : pool \in SUBSET Endpoints /\ pool # {}
         /\ \A i \in DOMAIN Members : Members[i] \in Endpoints
<1>1. Len(ended) + 1 \in DOMAIN Members
  BY SatFetchAssumption DEF SatFetchAssumption, Inv, Typed, Control
<1>2. \A i \in DOMAIN Members : Members[i] \in Endpoints
  BY SatFetchAssumption DEF SatFetchAssumption
<1>3. ToSet(Members) \subseteq Endpoints
  BY <1>2 DEF ToSet
<1>4. \A pool \in Pools : pool \in SUBSET Endpoints /\ pool # {}
  BY <1>3 DEF Pools
<1>5. Lead = Members[Len(ended) + 1]
  BY DEF Lead
<1> QED BY <1>1, <1>2, <1>4, <1>5

\* A truthful lead fails a request only where a member of its pool lies.
LEMMA NoAnswerKeeps ==
  ASSUME Inv, NoAnswer
  PROVE  Inv'
<1>1. Building /\ AttemptEnds("noAnswer")
  BY DEF NoAnswer
<1>2. EndIsTrue(Len(ended) + 1, "noAnswer")
  BY DEF NoAnswer, EndIsTrue, Lead
<1> QED BY <1>1, <1>2, AttemptEndsKeeps DEF Results

LEMMA TakeRevealKeeps ==
  ASSUME Inv, TakeReveal
  PROVE  Inv'
<1> DEFINE shown == IF Lies(Lead) THEN {"executed", "other", "forged"} ELSE {"executed"}
<1>0. PICK pool \in Pools :
        \E place \in Claims(Reveal.height, 1, pool), witness \in shown :
          Continue("section", [build EXCEPT !.witness = witness, !.reveal = place,
                                            !.used = @ \cup pool])
  BY DEF TakeReveal
<1>1. PICK place \in Claims(Reveal.height, 1, pool), witness \in shown :
        Continue("section", [build EXCEPT !.witness = witness, !.reveal = place,
                                          !.used = @ \cup pool])
  BY <1>0
<1> DEFINE bundle == [build EXCEPT !.witness = witness, !.reveal = place, !.used = @ \cup pool]
<1>2. phase = "lead" /\ build = NoBuild /\ Typed
  BY DEF TakeReveal, Inv, Control
<1>3. /\ place \in Places /\ place.block \in {Reveal.height, Forged}
      /\ ~Lies(Lead) => place.block # Forged
  BY <1>1, <1>2, ClaimedPlace, LedgerFacts
<1>4. witness \in Witnesses /\ (~Lies(Lead) => witness = "executed")
  BY <1>1 DEF Witnesses
<1>5. pool \in SUBSET Endpoints /\ pool # {}
  BY <1>2, LeadIsMember
<1>6. /\ bundle \in BuildType /\ bundle.witness = witness /\ bundle.reveal = place
      /\ bundle.used # {} /\ bundle.witnessServer = {}
  <2>1. build \in BuildType /\ build.used = {} /\ build.witnessServer = {}
    BY <1>2, NoBuildType DEF NoBuild
  <2> DEFINE used == build.used \cup pool
  <2>2. used \in SUBSET Endpoints /\ used # {}
    BY <1>5, <2>1
  <2>3. bundle = [build EXCEPT !.witness = witness, !.reveal = place, !.used = used]
    OBVIOUS
  <2> HIDE DEF bundle, used
  <2> QED BY <1>3, <1>4, <2>1, <2>2, <2>3 DEF BuildType
<1>7. Continue("section", bundle)
  BY <1>1
<1> HIDE DEF bundle
<1>8. RevealSound(bundle)
  BY <1>3, <1>4, <1>6 DEF RevealSound
<1>9. "section" \in Revealed \ Opened /\ "section" \notin Walked /\ "section" \notin Anchoring
  BY DEF Revealed, Opened, Walked, Anchoring
<1> QED BY <1>2, <1>6, <1>7, <1>8, <1>9, ContinueKeeps

\* Where a walk starts: a reveal that is not refused.
LEMMA StartKeeps ==
  ASSUME Inv, phase = "section", NEW bundle \in BuildType,
         bundle.used # {}, RevealSound(bundle), NeedsSection => bundle.witnessServer # {},
         Start(bundle)
  PROVE  Inv'
<1>1. bundle.witness \in Witnesses /\ Building
  BY DEF BuildType, Building
<1>2. CASE bundle.witness = "forged"
  <2>1. AttemptEnds("noAnswer")
    BY <1>2 DEF Start
  <2>2. EndIsTrue(Len(ended) + 1, "noAnswer")
    BY <1>2 DEF RevealSound, EndIsTrue, Lies, Truthful, Lead
  <2> QED BY <1>1, <2>1, <2>2, AttemptEndsKeeps DEF Results
<1>3. CASE bundle.witness # "forged" /\ Origin(bundle.witness).position < 0
  <2>1. AttemptEnds("CustodyUnsupported")
    BY <1>3 DEF Start
  <2>2. SatOf(bundle.witness) < 0
    BY <1>3 DEF SatOf, SatAtEnd
  <2>3. EndIsTrue(Len(ended) + 1, "CustodyUnsupported")
    BY <2>2 DEF RevealSound, EndIsTrue, Lead
  <2> QED BY <1>1, <2>1, <2>3, AttemptEndsKeeps DEF Results, Recordable
<1>4. CASE bundle.witness # "forged" /\ ~ (Origin(bundle.witness).position < 0)
  <2>1. Continue("walk", bundle)
    BY <1>4 DEF Start
  <2>2. OpeningSound(bundle)
    BY <1>4 DEF OpeningSound
  <2>3. "walk" \in Revealed /\ "walk" \notin Walked /\ "walk" \notin Anchoring
    BY DEF Revealed, Opened, Walked, Anchoring
  <2> QED BY <2>1, <2>2, <2>3, ContinueKeeps
<1> QED BY <1>2, <1>3, <1>4

\* Every member is asked for the section, wherever the round begins.
LEMMA RotatedIsAll ==
  ASSUME Inv, phase # "done"
  PROVE  /\ \A n \in DOMAIN Members : Rotated(n) \in Endpoints
         /\ \A i \in DOMAIN Members : \E n \in DOMAIN Members : Rotated(n) = Members[i]
<1> DEFINE L == Len(Members)
           first == Len(ended)
<1>1. L \in Nat \ {0} /\ first \in Nat /\ first < L /\ DOMAIN Members = 1 .. L
  BY SatFetchAssumption DEF SatFetchAssumption, Inv, Typed, Control
<1> HIDE DEF L, first
<1>2. \A n \in 1 .. L : 1 + ((first + n - 1) % L) \in 1 .. L
  BY <1>1, Z3
<1>3. ASSUME NEW i \in 1 .. L
      PROVE  \E n \in 1 .. L : 1 + ((first + n - 1) % L) = i
  <2>1. CASE i > first
    <3>1. i - first \in 1 .. L /\ first + (i - first) - 1 = i - 1 /\ (i - 1) % L = i - 1
      BY <1>1, <2>1, Z3
    <3> QED BY <3>1
  <2>2. CASE i <= first
    <3>1. i - first + L \in 1 .. L /\ first + (i - first + L) - 1 = i - 1 + L
      BY <1>1, <2>2
    <3>2. (i - 1 + L) % L = i - 1
      BY <1>1, Z3
    <3> QED BY <3>1, <3>2
  <2> QED BY <1>1, <2>1, <2>2
<1> QED BY <1>1, <1>2, <1>3, LeadIsMember DEF Rotated, L, first

\* That nobody serves the block of a reveal says that nobody is dependable: of
\* a block of the chain whoever answers shows the witness it executed.
LEMMA AttachSectionKeeps ==
  ASSUME Inv, AttachSection
  PROVE  Inv'
<1>1. /\ phase = "section" /\ build \in BuildType /\ build.used # {} /\ RevealSound(build)
      /\ Building
  <2>1. phase \in Revealed
    BY DEF AttachSection, Revealed
  <2> QED BY <2>1 DEF AttachSection, Inv, Typed, Control, BuildIsSound, Has, Building
<1>2. CASE ~NeedsSection /\ Start(build)
  BY <1>1, <1>2, StartKeeps
<1>3. ASSUME NEW n \in DOMAIN Members, MayServeRaw(Rotated(n)),
             Start([build EXCEPT !.witnessServer = {Rotated(n)}])
      PROVE  Inv'
  <2> DEFINE server == {Rotated(n)}
             bundle == [build EXCEPT !.witnessServer = server]
  <2>1. server \in SUBSET Endpoints /\ server # {}
    BY <1>1, RotatedIsAll
  <2>2. Start(bundle)
    BY <1>3
  <2> HIDE DEF server
  <2>3. /\ bundle \in BuildType /\ bundle.used = build.used /\ bundle.witness = build.witness
        /\ bundle.reveal = build.reveal /\ bundle.witnessServer = server
    BY <1>1, <2>1 DEF BuildType
  <2> HIDE DEF bundle
  <2>4. RevealSound(bundle)
    BY <1>1, <1>3, <2>3 DEF RevealSound, MayServeRaw
  <2> QED BY <1>1, <2>1, <2>2, <2>3, <2>4, StartKeeps
<1>4. CASE /\ \A n \in DOMAIN Members : MayNotServeRaw(Rotated(n))
           /\ AttemptEnds("WitnessSectionUnavailable")
  <2>1. ~Lies(Lead) => \A k \in DOMAIN Members : ~Truthful(Members[k])
    <3> SUFFICES ASSUME ~Lies(Lead), NEW k \in DOMAIN Members PROVE ~Truthful(Members[k])
      OBVIOUS
    <3>1. PICK n \in DOMAIN Members : Rotated(n) = Members[k]
      BY <1>1, RotatedIsAll
    <3>2. MayServeRaw(Rotated(n))
      BY <1>1 DEF RevealSound, MayServeRaw
    <3> QED BY <1>4, <3>1, <3>2 DEF MayNotServeRaw
  <2>2. EndIsTrue(Len(ended) + 1, "WitnessSectionUnavailable")
    BY <2>1 DEF EndIsTrue, Lead
  <2> QED BY <1>1, <1>4, <2>2, AttemptEndsKeeps DEF Results, Recordable
<1> QED BY <1>2, <1>3, <1>4 DEF AttachSection
-----------------------------------------------------------------------------

\* The walk: its cap refuses what the executed inscription says, when the lead
\* shows no other.
LEMMA WalkFundingKeeps ==
  ASSUME Inv, WalkFunding
  PROVE  Inv'
<1>1. /\ phase = "walk" /\ phase # "done" /\ Building /\ Typed /\ build \in BuildType
      /\ build.used # {} /\ RevealSound(build) /\ OpeningSound(build)
  <2>1. phase \in Revealed /\ phase \in Opened
    BY DEF WalkFunding, Revealed, Opened
  <2> QED BY <2>1 DEF WalkFunding, Inv, Typed, Control, BuildIsSound, Has, Building
<1>2. CASE Origin(build.witness).depth > MaxSteps
  <2>1. AttemptEnds("SatStepLimit")
    BY <1>2 DEF WalkFunding
  <2>2. EndIsTrue(Len(ended) + 1, "SatStepLimit")
    BY <1>1, <1>2 DEF EndIsTrue, RevealSound, Lead
  <2> QED BY <1>1, <2>1, <2>2, AttemptEndsKeeps DEF Results, Recordable
<1>3. CASE ~ (Origin(build.witness).depth > MaxSteps)
  <2>1. PICK pool \in Pools : Continue("coinbase", [build EXCEPT !.used = @ \cup pool])
    BY <1>3 DEF WalkFunding
  <2> DEFINE used == build.used \cup pool
             bundle == [build EXCEPT !.used = used]
  <2>2. used \in SUBSET Endpoints /\ used # {}
    BY <1>1, LeadIsMember DEF BuildType
  <2>3. Continue("coinbase", bundle)
    BY <2>1
  <2> HIDE DEF used
  <2>4. /\ bundle \in BuildType /\ bundle.used = used /\ bundle.witness = build.witness
        /\ bundle.reveal = build.reveal /\ bundle.witnessServer = build.witnessServer
    BY <1>1, <2>2 DEF BuildType
  <2> HIDE DEF bundle
  <2>5. RevealSound(bundle) /\ OpeningSound(bundle) /\ DepthSound(bundle)
    BY <1>1, <1>3, <2>4 DEF RevealSound, OpeningSound, DepthSound
  <2>6. "coinbase" \in Revealed /\ "coinbase" \notin Anchoring
    BY DEF Revealed, Opened, Walked, Anchoring
  <2> QED BY <1>1, <2>2, <2>3, <2>4, <2>5, <2>6, ContinueKeeps
<1> QED BY <1>2, <1>3

LEMMA PoolExhaustedKeeps ==
  ASSUME Inv, PoolExhausted
  PROVE  Inv'
<1>1. Building /\ Hopeless /\ LoopEnds(Append(ended, "noAnswer")) /\ phase # "done"
  BY DEF PoolExhausted, Building, Hopeless
<1>2. EndIsTrue(Len(ended) + 1, "noAnswer")
  BY <1>1, LeadIsMember DEF EndIsTrue, Hopeless
<1> QED BY <1>1, <1>2, LoopEndsKeeps DEF Results

\* Of a lead that does not lie the coinbase is where it was mined, and there
\* it is in order; what refuses it then is its height, or the sat's own end.
LEMMA TakeCoinbaseKeeps ==
  ASSUME Inv, TakeCoinbase
  PROVE  Inv'
<1>1. /\ phase = "coinbase" /\ phase # "done" /\ Building /\ Typed /\ build \in BuildType
      /\ build.used # {} /\ RevealSound(build) /\ OpeningSound(build) /\ DepthSound(build)
  <2>1. phase \in Revealed /\ phase \in Opened /\ phase \in Walked
    BY DEF TakeCoinbase, Revealed, Opened, Walked
  <2> QED BY <2>1 DEF TakeCoinbase, Inv, Typed, Control, BuildIsSound, Has, Building
<1>2. build.witness \in {"executed", "other"} /\ ~ (Origin(build.witness).position < 0)
  BY <1>1 DEF BuildType, Witnesses, OpeningSound
<1>3. /\ Coinbase.height \in Heights /\ StatesItsHeight(Coinbase, Coinbase.height)
      /\ Coinbase = Chain[Origin(build.witness).tx]
  BY <1>1, <1>2, LedgerFacts DEF Coinbase
<1>4. PICK pool \in Pools :
        \E place \in Claims(Coinbase.height, 0, pool) :
          CASE ~TakesCoinbase(place) -> AttemptEnds("noAnswer")
            [] TakesCoinbase(place) /\ SatAtEnd(Origin(build.witness), place.height) < 0 ->
                 AttemptEnds(IF place.height < Boundary THEN "CoinbaseHeightUnproven"
                                                        ELSE "CustodyUnsupported")
            [] OTHER -> Continue("anchorReveal", [build EXCEPT !.coinbase = place,
                                                               !.used = @ \cup pool])
  BY DEF TakeCoinbase
<1>5. PICK place \in Claims(Coinbase.height, 0, pool) :
        CASE ~TakesCoinbase(place) -> AttemptEnds("noAnswer")
          [] TakesCoinbase(place) /\ SatAtEnd(Origin(build.witness), place.height) < 0 ->
               AttemptEnds(IF place.height < Boundary THEN "CoinbaseHeightUnproven"
                                                      ELSE "CustodyUnsupported")
          [] OTHER -> Continue("anchorReveal", [build EXCEPT !.coinbase = place,
                                                             !.used = @ \cup pool])
  BY <1>4
<1>6. /\ place \in Places /\ place.block \in {Coinbase.height, Forged}
      /\ ~Lies(Lead) => place.height = Coinbase.height /\ place.pos = 0
  BY <1>3, ClaimedPlace
<1> DEFINE Unnumbered == SatAtEnd(Origin(build.witness), place.height) < 0
<1>7. CASE ~TakesCoinbase(place)
  <2>1. AttemptEnds("noAnswer")
    BY <1>5, <1>7
  <2>2. Lies(Lead)
    BY <1>3, <1>6, <1>7 DEF TakesCoinbase
  <2>3. EndIsTrue(Len(ended) + 1, "noAnswer")
    BY <1>1, <2>2, LeadIsMember DEF EndIsTrue, Lies, Truthful
  <2> QED BY <1>1, <2>1, <2>3, AttemptEndsKeeps DEF Results
<1>8. CASE TakesCoinbase(place) /\ Unnumbered
  <2> DEFINE how == IF place.height < Boundary THEN "CoinbaseHeightUnproven"
                                                ELSE "CustodyUnsupported"
  <2>1. AttemptEnds(how)
    BY <1>5, <1>8
  <2>2. ~Lies(Lead) =>
           SatOf("executed") < 0 /\ place.height = Chain[Origin("executed").tx].height
    BY <1>1, <1>3, <1>6, <1>8 DEF RevealSound, SatOf
  <2>3. EndIsTrue(Len(ended) + 1, how)
    BY <2>2 DEF EndIsTrue, Lead
  <2>4. how \in Results
    BY DEF Results, Recordable
  <2> HIDE DEF how
  <2> QED BY <1>1, <2>1, <2>3, <2>4, AttemptEndsKeeps
<1>9. CASE TakesCoinbase(place) /\ ~Unnumbered
  <2> DEFINE used == build.used \cup pool
             bundle == [build EXCEPT !.coinbase = place, !.used = used]
  <2>1. Continue("anchorReveal", bundle)
    BY <1>5, <1>9
  <2>2. used \in SUBSET Endpoints /\ used # {}
    BY <1>1, LeadIsMember DEF BuildType
  <2> HIDE DEF used
  <2>3. /\ bundle \in BuildType /\ bundle.used = used /\ bundle.witness = build.witness
        /\ bundle.reveal = build.reveal /\ bundle.coinbase = place
        /\ bundle.witnessServer = build.witnessServer
    BY <1>1, <1>6, <2>2 DEF BuildType
  <2> HIDE DEF bundle
  <2>4. RevealSound(bundle) /\ OpeningSound(bundle) /\ DepthSound(bundle)
    BY <1>1, <2>3 DEF RevealSound, OpeningSound, DepthSound
  <2>5. CoinbaseSound(bundle)
    BY <1>3, <1>6, <1>9, <2>3 DEF CoinbaseSound, TakesCoinbase
  <2>6. "anchorReveal" \in Revealed
    BY DEF Revealed, Opened, Walked, Anchoring
  <2> QED BY <1>1, <2>1, <2>2, <2>3, <2>4, <2>5, <2>6, ContinueKeeps
<1> QED BY <1>7, <1>8, <1>9
\* What the caller's hook vouches for when it accepts a hop.
LEMMA AcceptedIsAnchored ==
  ASSUME Inv, phase # "done", NEW place \in Places,
         place.block \in Heights \cup {Forged}, MayAccept(place)
  PROVE  AnchoredTruly(place)
<1>1. CASE world.hook = "rejectOnly"
  BY <1>1 DEF MayAccept, AnchoredTruly
<1>2. CASE world.hook # "rejectOnly"
  <2>1. ProofSources(build) = Gave
    BY DEF ProofSources, Gave
  <2>2. MayAnchor(place.block, place.height, Gave, world, MaxHeight)
    BY <1>2, <2>1 DEF MayAccept
  <2>3. place.block \in Blocks /\ place.height \in Heights /\ world.liars \subseteq Servers
    BY LedgerFacts DEF Inv, Places, Blocks
  <2>4. Cardinality(LyingAttesters(Gave, world)) < MinAgreement => place.block = place.height
    BY <2>2, <2>3, QuorumNamesTheBlock
  <2> QED BY <1>2, <2>4 DEF AnchoredTruly
<1> QED BY <1>1, <1>2

\* A bundle that is anchored has been checked in all its parts.
LEMMA BundleIsWhole ==
  ASSUME Inv, phase \in Anchoring
  PROVE  /\ phase # "done" /\ build \in BuildType /\ build.used # {}
         /\ build.reveal \in Places /\ build.coinbase \in Places
         /\ RevealSound(build) /\ OpeningSound(build) /\ DepthSound(build) /\ CoinbaseSound(build)
<1>1. phase \in Revealed /\ phase \in Opened /\ phase \in Walked /\ phase # "done"
  BY DEF Revealed, Opened, Walked, Anchoring
<1>2. build \in BuildType /\ build.used # {}
  BY <1>1 DEF Inv, Typed, Control
<1>3. build.reveal \in Places /\ build.coinbase \in Places
  BY <1>2 DEF BuildType
<1> QED BY <1>1, <1>2, <1>3 DEF Inv, BuildIsSound, Has

LEMMA AnchorRevealKeeps ==
  ASSUME Inv, AnchorReveal
  PROVE  Inv'
<1>1. phase = "anchorReveal" /\ phase \in Anchoring
  BY DEF AnchorReveal, Anchor, Anchoring
<1>2. CASE MayAccept(build.reveal) /\ Continue("anchorCoinbase", build)
  <2>1. build.reveal.block \in Heights \cup {Forged}
    BY <1>1, BundleIsWhole DEF Places
  <2>2. AnchoredTruly(build.reveal)
    BY <1>1, <1>2, <2>1, BundleIsWhole, AcceptedIsAnchored
  <2>3. "anchorCoinbase" \in Revealed /\ "anchorCoinbase" # "verify"
    BY DEF Revealed, Opened, Walked, Anchoring
  <2> QED BY <1>1, <1>2, <2>2, <2>3, BundleIsWhole, ContinueKeeps
<1>3. CASE Ends("HEADER_TRUST", -1)
  BY <1>1, <1>3, EndsKeeps
<1> QED BY <1>2, <1>3 DEF AnchorReveal, Anchor

LEMMA AnchorCoinbaseKeeps ==
  ASSUME Inv, AnchorCoinbase
  PROVE  Inv'
<1>1. phase = "anchorCoinbase" /\ phase \in Anchoring
  BY DEF AnchorCoinbase, Anchor, Anchoring
<1>2. CASE MayAccept(build.coinbase) /\ Continue("verify", build)
  <2>1. build.coinbase.block \in Heights \cup {Forged}
    BY <1>1, BundleIsWhole DEF Places
  <2>2. AnchoredTruly(build.coinbase)
    BY <1>1, <1>2, <2>1, BundleIsWhole, AcceptedIsAnchored
  <2>3. AnchoredTruly(build.reveal)
    BY <1>1 DEF Inv, AnchorsAreTrue
  <2>4. "verify" \in Revealed
    BY DEF Revealed, Opened, Walked, Anchoring
  <2> QED BY <1>1, <1>2, <2>2, <2>3, <2>4, BundleIsWhole, ContinueKeeps
<1>3. CASE Ends("HEADER_TRUST", -1)
  BY <1>1, <1>3, EndsKeeps
<1> QED BY <1>2, <1>3 DEF AnchorCoinbase, Anchor

\* Of what the build has checked the verifier refuses only an unbound height.
LEMMA VerifyKeeps ==
  ASSUME Inv, Verify
  PROVE  Inv'
<1> DEFINE end == Origin(build.witness)
           sat == SatAtEnd(end, build.coinbase.height)
           said == IF Verdict = "identity" THEN sat ELSE -1
<1>1. phase = "verify" /\ phase \in Anchoring
  BY DEF Verify, Anchoring
<1>2. Ends(Verdict, said)
  BY DEF Verify
<1>3. /\ ~ (end.depth > MaxSteps)
      /\ ~ (Len(Reveal.inputs) > 1 /\ build.witnessServer = {})
      /\ build.witness # "forged" /\ ~ (end.position < 0)
      /\ build.coinbase.pos = 0 /\ StatesItsHeight(Coinbase, build.coinbase.height)
      /\ ~ (sat < 0)
  BY <1>1, BundleIsWhole DEF OpeningSound, DepthSound, CoinbaseSound, Coinbase, NeedsSection
<1>4. Verdict = IF ~HeightIsBound THEN "CoinbaseHeightUnproven" ELSE "identity"
  BY <1>3 DEF Verdict
<1>5. CASE ~HeightIsBound
  <2>1. world.hook = "rejectOnly"
    BY <1>5 DEF HeightIsBound, Inv, Typed, Worlds
  <2>2. Verdict = "CoinbaseHeightUnproven"
    BY <1>4, <1>5
  <2> HIDE DEF said
  <2> QED BY <1>1, <1>2, <2>1, <2>2, EndsKeeps
<1>6. CASE HeightIsBound
  <2>1. Verdict = "identity"
    BY <1>4, <1>6
  <2>2. said = SatAtEnd(Origin(build.witness), build.coinbase.height)
    BY <2>1
  <2>3. AnchoredTruly(build.reveal) /\ AnchoredTruly(build.coinbase)
    BY <1>1 DEF Inv, AnchorsAreTrue
  <2> HIDE DEF said
  <2> QED BY <1>1, <1>2, <1>6, <2>1, <2>2, <2>3, EndsKeeps
<1> QED BY <1>5, <1>6
-----------------------------------------------------------------------------

LEMMA InitEstablishesInv ==
  ASSUME Init
  PROVE  Inv
<1>1. /\ world \in Worlds /\ phase = "lead" /\ ended = <<>> /\ build = NoBuild
      /\ outcome = Running
  BY DEF Init
<1>2. Len(Members) \in Nat \ {0}
  BY SatFetchAssumption DEF SatFetchAssumption
<1>3. Typed /\ Control
  BY <1>1, <1>2, NoBuildType DEF Typed, Control, Revealed, Opened, Walked, Anchoring
<1>4. BuildIsSound /\ AnchorsAreTrue /\ EndsAreTrue /\ OutcomeIsTrue
  BY <1>1 DEF BuildIsSound, AnchorsAreTrue, EndsAreTrue, OutcomeIsTrue, Has,
              Revealed, Opened, Walked, Anchoring
<1> QED BY <1>3, <1>4 DEF Inv

LEMMA StepKeepsInv ==
  ASSUME Inv, [Next]_vars
  PROVE  Inv'
<1>1. CASE UNCHANGED vars
  <2>1. world' = world /\ phase' = phase /\ ended' = ended /\ build' = build /\ outcome' = outcome
    BY <1>1 DEF vars
  <2> USE <2>1 DEF Inv
  <2>2. Typed' /\ Control'
    BY DEF Typed, Control, Worlds, BuildType
  <2>3. BuildIsSound'
    BY WorldStays DEF BuildIsSound, Has, RevealSound, OpeningSound, DepthSound, CoinbaseSound,
                      StatesItsHeight, Lead
  <2>4. AnchorsAreTrue' /\ EndsAreTrue'
    BY WorldStays DEF AnchorsAreTrue, AnchoredTruly, Gave, Lead, EndsAreTrue
  <2>5. OutcomeIsTrue'
    BY WorldStays DEF OutcomeIsTrue, GaveUp, Unanchored, HeightUnbound, Identified,
                      AnchoredTruly, Gave, Lead, HeightIsBound, SharedRefusal
  <2> QED BY <2>2, <2>3, <2>4, <2>5
<1>2. CASE Next
  BY <1>2, NoAnswerKeeps, TakeRevealKeeps, AttachSectionKeeps, WalkFundingKeeps,
     PoolExhaustedKeeps, TakeCoinbaseKeeps, AnchorRevealKeeps, AnchorCoinbaseKeeps, VerifyKeeps
     DEF Next
<1> QED BY <1>1, <1>2

\* What a fetch of a sat's identity knows at each of its steps: of the bundle
\* under way what was checked, of the attempts that are over what they tell of
\* the chain, and of a fetch that is over how it came to its end.
THEOREM AlwaysInv == Spec => []Inv
<1>1. Init => Inv
  BY InitEstablishesInv
<1>2. Inv /\ [Next]_vars => Inv'
  BY StepKeepsInv
<1> QED BY <1>1, <1>2, PTL DEF Spec
-----------------------------------------------------------------------------
(* The properties.                                                         *)

\* What the error of a loop without a bundle says of its attempts.
LEMMA SharedRefusalSays ==
  ASSUME NEW ends \in Seq(Results)
  PROVE  /\ SharedRefusal(ends).result \in Recordable \cup {"BUILD_FAILED"}
         /\ SharedRefusal(ends).result \in Recordable =>
              SharedRefusal(ends).unanimous \in {"yes", "no"}
         /\ SharedRefusal(ends).unanimous = "yes" =>
              /\ SharedRefusal(ends).result \in Recordable
              /\ \A i \in DOMAIN Members :
                   i \in DOMAIN ends /\ ends[i] = SharedRefusal(ends).result
<1> DEFINE refusals == {i \in DOMAIN ends : ends[i] \in Recordable}
           shared == refusals # {} /\ \A i, j \in refusals : ends[i] = ends[j]
           r == SharedRefusal(ends)
<1>1. CASE shared
  <2> DEFINE one == CHOOSE i \in refusals : TRUE
             how == ends[one]
             said == IF Len(Members) >= 2 /\ refusals = DOMAIN Members THEN "yes" ELSE "no"
  <2>1. one \in refusals
    BY <1>1
  <2>2. r = [Running EXCEPT !.result = how, !.unanimous = said]
    BY <1>1 DEF SharedRefusal
  <2>3. said \in {"yes", "no"} /\ (said = "yes" => refusals = DOMAIN Members)
    OBVIOUS
  <2>4. how \in Recordable
    BY <2>1
  <2>5. said = "yes" => \A i \in DOMAIN Members : i \in DOMAIN ends /\ ends[i] = how
    BY <1>1, <2>1, <2>3
  <2> HIDE DEF how, said, refusals, r
  <2>6. r.result = how /\ r.unanimous = said
    BY <2>2 DEF Running
  <2> QED BY <2>3, <2>4, <2>5, <2>6 DEF r
<1>2. CASE ~shared
  <2>1. r = [Running EXCEPT !.result = "BUILD_FAILED"]
    BY <1>2 DEF SharedRefusal
  <2>2. r.result = "BUILD_FAILED" /\ r.unanimous = "unmarked"
    BY <2>1 DEF Running
  <2>3. r.result \notin Recordable
    BY <2>2 DEF Recordable
  <2> HIDE DEF r
  <2> QED BY <2>2, <2>3 DEF r
<1> QED BY <1>1, <1>2

\* Every variable of a fetch keeps its type, whatever is served.
THEOREM SatFetchTypeCorrect == Spec => []Typed
<1>1. Inv => Typed
  BY DEF Inv
<1> QED BY <1>1, AlwaysInv, PTL

\* The sat that is returned is the ledger's, under the executed witness if the
\* bundle has a section, unless as many attesters lie as it takes to anchor a
\* header, or a coinbase from before the boundary pushes a false height.
THEOREM SatAlwaysTrue == Spec => []SatIsTrue
<1>1. ASSUME Inv PROVE SatIsTrue
  <2> SUFFICES ASSUME outcome.result = "identity",
                      IF world.hook = "makeHeaderTrust"
                      THEN Cardinality(LyingAttesters(Gave, world)) < MinAgreement
                      ELSE Coinbase.push \in {-1, Coinbase.height}
               PROVE  /\ outcome.sat = SatOf(build.witness)
                      /\ build.witnessServer # {} => build.witness = "executed"
    BY DEF SatIsTrue
  <2> USE <1>1 DEF Inv
  <2>1. phase = "done"
    BY DEF Control, Running
  <2>2. Identified(outcome)
    <3>1. ~GaveUp(outcome)
      BY SharedRefusalSays DEF GaveUp, Typed, Recordable
    <3> QED BY <2>1, <3>1 DEF OutcomeIsTrue, Unanchored, HeightUnbound
  <2>3. /\ build \in BuildType /\ build.used # {} /\ HeightIsBound
        /\ AnchoredTruly(build.reveal) /\ AnchoredTruly(build.coinbase)
        /\ outcome.sat = SatAtEnd(Origin(build.witness), build.coinbase.height)
    BY <2>2 DEF Identified, Typed
  <2>4. RevealSound(build) /\ OpeningSound(build) /\ CoinbaseSound(build)
    BY <2>1, <2>3 DEF BuildIsSound, Has
  <2>5. build.reveal \in Places /\ build.coinbase \in Places
    BY <2>3 DEF BuildType
  <2>6. /\ Forged \notin Heights /\ Heights \subseteq Nat \ {0}
        /\ build.reveal.height \in Heights /\ build.coinbase.height \in Heights
    BY <2>5, LedgerFacts DEF Places
  <2>7. build.reveal.block # Forged /\ build.coinbase.height = Coinbase.height
    <3>1. CASE world.hook = "makeHeaderTrust"
      <4>1. build.reveal.block = build.reveal.height /\ build.coinbase.block = build.coinbase.height
        BY <2>3, <3>1 DEF AnchoredTruly
      <4> QED BY <2>4, <2>6, <4>1 DEF CoinbaseSound, Coinbase
    <3>2. CASE world.hook # "makeHeaderTrust"
      <4>1. world.hook = "rejectOnly"
        BY <3>2 DEF Typed, Worlds
      <4>2. build.reveal.block # Forged
        BY <2>3, <4>1 DEF AnchoredTruly
      <4>3. Coinbase.push = build.coinbase.height
        BY <2>3, <2>4, <3>2 DEF HeightIsBound, CoinbaseSound, StatesItsHeight, Coinbase
      <4>4. Coinbase.push # -1
        BY <2>6, <4>3
      <4> QED BY <3>2, <4>2, <4>3, <4>4
    <3> QED BY <3>1, <3>2
  <2>8. outcome.sat = SatOf(build.witness)
    BY <2>3, <2>7 DEF SatOf, Coinbase
  <2> QED BY <2>4, <2>7, <2>8 DEF RevealSound
<1> QED BY <1>1, AlwaysInv, PTL

\* After the loop a fetch fails only for a header, or for a height that the
\* caller's hook does not bind.
THEOREM BuildAlwaysVerifies == Spec => []BuildImpliesVerify
<1>1. ASSUME Inv PROVE BuildImpliesVerify
  BY <1>1 DEF Inv, OutcomeIsTrue, BuildImpliesVerify, GaveUp, Unanchored, HeightUnbound, Identified
<1> QED BY <1>1, AlwaysInv, PTL

\* How a loop ends without a bundle.
LEMMA NoBundleSays ==
  ASSUME Inv, phase = "done", build = NoBuild
  PROVE  outcome = SharedRefusal(ended) /\ (Len(ended) = Len(Members) \/ Hopeless)
BY NoBuildType DEF Inv, OutcomeIsTrue, GaveUp, Unanchored, HeightUnbound, Identified

\* A loop that ends without a bundle has no use for the members that never led.
THEOREM GivenUpAlwaysHopeless == Spec => []GivenUpIsHopeless
<1>1. ASSUME Inv PROVE GivenUpIsHopeless
  <2> SUFFICES ASSUME phase = "done", build = NoBuild, Len(ended) < Len(Members)
               PROVE  \A i \in DOMAIN Members : ~Truthful(Members[i])
    BY DEF GivenUpIsHopeless
  <2>1. Len(Members) \in Nat /\ Len(ended) \in Nat
    BY <1>1, SatFetchAssumption DEF SatFetchAssumption, Inv, Typed
  <2> QED BY <1>1, <2>1, NoBundleSays DEF Hopeless
<1> QED BY <1>1, AlwaysInv, PTL

\* Without a liar one member that answers is enough to build a bundle for a sat
\* that can be proved.
THEOREM OneLiveMemberAlwaysSuffices == Spec => []OneLiveMemberSuffices
<1>1. ASSUME Inv PROVE OneLiveMemberSuffices
  <2> SUFFICES ASSUME phase = "done", Provable, build = NoBuild,
                      \A k \in DOMAIN Members : ~Lies(Members[k]),
                      NEW i \in DOMAIN Members, Truthful(Members[i])
               PROVE  FALSE
    BY DEF OneLiveMemberSuffices
  <2>1. Len(ended) = Len(Members)
    BY <1>1, NoBundleSays DEF Hopeless
  <2>2. ended \in Seq(Results) /\ i \in DOMAIN ended
    BY <1>1, <2>1, SatFetchAssumption DEF SatFetchAssumption, Inv, Typed
  <2>3. EndIsTrue(i, ended[i]) /\ ended[i] \in Results
    BY <1>1, <2>2 DEF Inv, EndsAreTrue
  <2> QED BY <2>3 DEF EndIsTrue, Provable, Results, Recordable
<1> QED BY <1>1, AlwaysInv, PTL

\* A refusal that is called unanimous, and the exit code that says "out of
\* scope", are the ledger's own as soon as one member is no liar.
THEOREM UnanimousRefusalAlwaysTrue == Spec => []UnanimousRefusalIsTrue
<1>1. ASSUME Inv, phase = "done", NEW i \in DOMAIN Members, ~Lies(Members[i]),
             outcome.unanimous = "yes"
      PROVE  outcome.result \in Recordable /\ EndIsTrue(i, outcome.result)
  <2>1. ended \in Seq(Results) /\ outcome = SharedRefusal(ended)
    BY <1>1 DEF Inv, Typed, OutcomeIsTrue, GaveUp, Unanchored, HeightUnbound, Identified
  <2>2. outcome.result \in Recordable /\ i \in DOMAIN ended /\ ended[i] = outcome.result
    BY <1>1, <2>1, SharedRefusalSays
  <2>3. EndIsTrue(i, ended[i])
    BY <1>1, <2>2 DEF Inv, EndsAreTrue
  <2> QED BY <2>2, <2>3
<1>2. ASSUME Inv, phase = "done", outcome.result # "identity",
             ExitCode = CATEGORY_EXIT_CODES("OUT OF SCOPE")
      PROVE  outcome.result = "CustodyUnsupported" /\ outcome.unanimous = "yes"
  <2> DEFINE category == refusalReport(outcome.result, "live", outcome.unanimous)
  <2>1. /\ category = "OUT OF SCOPE" =>
             outcome.result = "CustodyUnsupported" /\ outcome.unanimous # "no"
        /\ category \in {"UNPROVEN", "OUT OF SCOPE", "INCOMPLETE", "INVALID"}
    BY LiveReports
  <2>2. CATEGORY_EXIT_CODES(category) = CATEGORY_EXIT_CODES("OUT OF SCOPE")
    BY <1>2 DEF ExitCode, failFrom
  <2> HIDE DEF category
  <2>3. category = "OUT OF SCOPE"
    BY <2>1, <2>2, ExitCodeIsOutOfScope, Zenon
  <2>4. outcome.result = "CustodyUnsupported" /\ outcome.unanimous # "no"
    BY <2>1, <2>3
  <2>5. ended \in Seq(Results) /\ outcome = SharedRefusal(ended)
    BY <1>2, <2>4 DEF Inv, Typed, OutcomeIsTrue, GaveUp, Unanchored, HeightUnbound, Identified
  <2>6. outcome.unanimous \in {"yes", "no"}
    BY <2>4, <2>5, SharedRefusalSays DEF Recordable
  <2> QED BY <2>4, <2>6
<1>3. ASSUME Inv PROVE UnanimousRefusalIsTrue
  <2> SUFFICES ASSUME phase = "done", NEW i \in DOMAIN Members, ~Lies(Members[i])
               PROVE  /\ outcome.unanimous = "yes" =>
                           CASE outcome.result = "CustodyUnsupported" -> SatOf("executed") < 0
                             [] outcome.result = "CoinbaseHeightUnproven" ->
                                  /\ SatOf("executed") < 0
                                  /\ Chain[Origin("executed").tx].height < Boundary
                             [] outcome.result = "SatStepLimit" ->
                                  Origin("executed").depth > MaxSteps
                             [] outcome.result = "WitnessSectionUnavailable" ->
                                  \A k \in DOMAIN Members : ~Truthful(Members[k])
                      /\ outcome.result # "identity"
                           /\ ExitCode = CATEGORY_EXIT_CODES("OUT OF SCOPE") =>
                           SatOf("executed") < 0
    BY DEF UnanimousRefusalIsTrue
  <2>1. outcome.unanimous = "yes" =>
          outcome.result \in Recordable /\ EndIsTrue(i, outcome.result)
    BY <1>1, <1>3
  <2>2. outcome.result # "identity" /\ ExitCode = CATEGORY_EXIT_CODES("OUT OF SCOPE") =>
          outcome.result = "CustodyUnsupported" /\ outcome.unanimous = "yes"
    BY <1>2, <1>3
  <2> QED BY <2>1, <2>2 DEF EndIsTrue, Recordable
<1> QED BY <1>3, AlwaysInv, PTL

-----------------------------------------------------------------------------

(* ------------------------------- induction ----------------------------- *)

\* Induction up to N, of a set instead of a predicate.
LEMMA InductionUpTo ==
  ASSUME NEW N \in Nat, NEW S, 0 \in S, \A n \in 0 .. N : n < N /\ n \in S => n + 1 \in S
  PROVE  0 .. N \subseteq S
<1> DEFINE T == (0 .. N) \ S
<1> SUFFICES ASSUME T # {} PROVE FALSE
  OBVIOUS
<1>0. T \in SUBSET Nat
  OBVIOUS
<1> HIDE DEF T
<1>1. PICK x \in T : \A y \in T : x <= y
  BY <1>0, LeastNatural
<1> USE DEF T
<1>2. x - 1 \in 0 .. N /\ x - 1 < N /\ x - 1 + 1 = x
  OBVIOUS
<1>3. x - 1 \in S
  BY <1>1, <1>2
<1> QED BY <1>2, <1>3

\* A loop of N rounds over the values of V has a value after each of them.
StaysIn(step, N, V) == \A n \in 1 .. N : \A x \in V : step[n][x] \in V

LoopOf(f, N, a, step) == f[0] = a /\ \A n \in 1 .. N : f[n] = step[n][f[n - 1]]

\* For each number of rounds there is a run of that many; then for N.
LEMMA LoopRuns ==
  ASSUME NEW N \in Nat, NEW V, NEW a \in V, NEW step, StaysIn(step, N, V)
  PROVE  \E f \in [0 .. N -> V] : LoopOf(f, N, a, step)
<1> DEFINE Runs(f, k) == /\ f \in [0 .. N -> V] /\ f[0] = a
                         /\ \A n \in 1 .. k : f[n] = step[n][f[n - 1]]
           S == {k \in 0 .. N : \E f : Runs(f, k)}
<1>1. 0 \in S
  <2>1. Runs([n \in 0 .. N |-> a], 0)
    OBVIOUS
  <2>2. 0 \in 0 .. N
    OBVIOUS
  <2> QED BY <2>1, <2>2
<1>2. ASSUME NEW k \in 0 .. N, k < N, k \in S PROVE k + 1 \in S
  <2>1. PICK g : Runs(g, k)
    BY <1>2
  <2> DEFINE f == [g EXCEPT ![k + 1] = step[k + 1][g[k]]]
  <2>2. step[k + 1][g[k]] \in V
    BY <1>2, <2>1 DEF StaysIn
  <2>3. f \in [0 .. N -> V] /\ f[0] = a /\ f[k + 1] = step[k + 1][g[k]] /\ f[k] = g[k]
    BY <1>2, <2>1, <2>2
  <2>4. \A n \in 1 .. k : f[n] = g[n] /\ f[n - 1] = g[n - 1] /\ g[n] = step[n][g[n - 1]]
    BY <1>2, <2>1
  <2> HIDE DEF f
  <2>5. ASSUME NEW n \in 1 .. k + 1 PROVE f[n] = step[n][f[n - 1]]
    <3>1. CASE n = k + 1
      BY <2>3, <3>1
    <3>2. CASE n \in 1 .. k
      BY <2>4, <3>2
    <3> QED BY <3>1, <3>2
  <2>6. Runs(f, k + 1)
    BY <2>3, <2>5
  <2> QED BY <1>2, <2>6
<1> HIDE DEF S
<1>3. 0 .. N \subseteq S /\ N \in 0 .. N
  BY <1>1, <1>2, InductionUpTo
<1> USE DEF S
<1> QED BY <1>3 DEF LoopOf

(* -------------------------------- streams ------------------------------ *)

\* What SumBefore says of a list of values, loop by loop.
LEMMA SumRuns ==
  ASSUME NEW values \in Seq(Nat)
  PROVE  /\ SumBefore(values, 1) = 0
         /\ \A i \in 1 .. Len(values) : SumBefore(values, i + 1) = SumBefore(values, i) + values[i]
         /\ \A i \in 1 .. Len(values) + 1 : SumBefore(values, i) \in Nat
<1> DEFINE N == Len(values)
           step == [n \in 1 .. N |-> [x \in Nat |-> x + values[n]]]
           Eqn(f) == f = [n \in 0 .. Len(values) |-> IF n = 0 THEN 0 ELSE f[n - 1] + values[n]]
           sum == CHOOSE f : Eqn(f)
<1>1. N \in Nat /\ \A n \in 1 .. N : values[n] \in Nat
  OBVIOUS
<1>2. \A n \in 1 .. N : \A x \in Nat : step[n][x] \in Nat /\ step[n][x] = x + values[n]
  BY <1>1
<1> HIDE DEF step
<1>3. PICK f \in [0 .. N -> Nat] : LoopOf(f, N, 0, step)
  <2>1. StaysIn(step, N, Nat)
    BY <1>2 DEF StaysIn
  <2>2. 0 \in Nat
    OBVIOUS
  <2> HIDE DEF N
  <2> QED BY <1>1, <2>1, <2>2, LoopRuns
<1>4. \A n \in 0 .. N : f[n] = IF n = 0 THEN 0 ELSE f[n - 1] + values[n]
  <2>1. ASSUME NEW n \in 1 .. N PROVE f[n] = f[n - 1] + values[n]
    <3>1. n - 1 \in 0 .. N
      BY <1>1
    <3>2. f[n - 1] \in Nat
      BY <1>3, <3>1
    <3>3. f[n] = step[n][f[n - 1]]
      BY <1>3 DEF LoopOf
    <3> QED BY <1>2, <3>2, <3>3
  <2>2. f[0] = 0
    BY <1>3 DEF LoopOf
  <2> QED BY <1>1, <2>1, <2>2
<1>5. Eqn(f)
  BY <1>3, <1>4
<1>6. Eqn(sum)
  BY <1>5
<1>7. \A i : SumBefore(values, i) = sum[i - 1]
  BY DEF SumBefore
<1> HIDE DEF sum
<1>8. sum[0] = 0 /\ \A n \in 1 .. N : sum[n] = sum[n - 1] + values[n]
  BY <1>1, <1>6
<1> DEFINE S == {n \in 0 .. N : sum[n] \in Nat}
<1>9. 0 .. N \subseteq S
  <2>1. 0 \in S
    BY <1>1, <1>8
  <2>2. ASSUME NEW n \in 0 .. N, n < N, n \in S PROVE n + 1 \in S
    <3>1. n + 1 \in 1 .. N /\ n + 1 - 1 = n /\ sum[n] \in Nat
      BY <1>1, <2>2
    <3>2. sum[n + 1] = sum[n] + values[n + 1] /\ values[n + 1] \in Nat
      BY <1>1, <1>8, <3>1
    <3> QED BY <1>1, <3>1, <3>2
  <2> HIDE DEF S, N
  <2> QED BY <1>1, <2>1, <2>2, InductionUpTo
<1>10. \A n \in 0 .. N : sum[n] \in Nat
  BY <1>9
<1>11. SumBefore(values, 1) = 0
  BY <1>7, <1>8
<1>12. ASSUME NEW i \in 1 .. Len(values)
       PROVE  SumBefore(values, i + 1) = SumBefore(values, i) + values[i]
  <2>1. i + 1 - 1 = i /\ i \in 1 .. N
    OBVIOUS
  <2>2. sum[i] = sum[i - 1] + values[i]
    BY <1>8, <2>1
  <2>3. SumBefore(values, i + 1) = sum[i] /\ SumBefore(values, i) = sum[i - 1]
    BY <1>7, <2>1
  <2> QED BY <2>2, <2>3
<1>13. ASSUME NEW i \in 1 .. Len(values) + 1 PROVE SumBefore(values, i) \in Nat
  <2>1. i - 1 \in 0 .. N
    BY <1>1
  <2> QED BY <1>7, <1>10, <2>1
<1> QED BY <1>11, <1>12, <1>13

\* Is the sat at a position of the stream at this offset of its i-th piece?
IsAt(values, i, offset, position) ==
  i \in 1 .. Len(values) /\ offset \in 0 .. values[i] - 1 /\ SumBefore(values, i) + offset = position

\* What comes before a later piece is no less.
LEMMA SumGrows ==
  ASSUME NEW values \in Seq(Nat), NEW i \in 1 .. Len(values) + 1
  PROVE  \A j \in 1 .. Len(values) + 1 : i <= j => SumBefore(values, i) <= SumBefore(values, j)
<1> DEFINE N == Len(values) + 1 - i
           S == {n \in 0 .. N : SumBefore(values, i) <= SumBefore(values, i + n)}
<1>1. N \in Nat /\ \A j \in 1 .. Len(values) : values[j] \in Nat
  OBVIOUS
<1>2. 0 \in S
  BY <1>1, SumRuns
<1>3. ASSUME NEW n \in 0 .. N, n < N, n \in S PROVE n + 1 \in S
  <2>1. i + n \in 1 .. Len(values) /\ i + (n + 1) = (i + n) + 1 /\ n + 1 \in 0 .. N
    BY <1>3
  <2>2. /\ SumBefore(values, (i + n) + 1) = SumBefore(values, i + n) + values[i + n]
        /\ SumBefore(values, i + n) \in Nat /\ SumBefore(values, i) \in Nat
    BY <2>1, SumRuns
  <2>3. SumBefore(values, i) <= SumBefore(values, (i + n) + 1)
    BY <1>1, <1>3, <2>1, <2>2
  <2> QED BY <2>1, <2>3
<1> HIDE DEF S, N
<1>4. 0 .. N \subseteq S
  BY <1>1, <1>2, <1>3, InductionUpTo
<1> USE DEF S, N
<1> TAKE j \in 1 .. Len(values) + 1
<1> HAVE i <= j
<1>5. j - i \in 0 .. N /\ i + (j - i) = j
  OBVIOUS
<1>6. j - i \in S
  BY <1>4, <1>5
<1> QED BY <1>5, <1>6

\* A total of naturals is one.
LEMMA SumIsNatural ==
  ASSUME NEW values \in Seq(Nat)
  PROVE  Sum(values) \in Nat
<1>1. Len(values) + 1 \in 1 .. Len(values) + 1
  OBVIOUS
<1> QED BY <1>1, SumRuns DEF Sum

\* A piece ends where the next one begins, and no later piece begins before.
LEMMA PieceEnds ==
  ASSUME NEW values \in Seq(Nat), NEW i \in 1 .. Len(values)
  PROVE  /\ i \in Nat /\ values[i] \in Nat /\ SumBefore(values, i) \in Nat
         /\ SumBefore(values, i + 1) = SumBefore(values, i) + values[i]
         /\ \A j \in 1 .. Len(values) : i < j => SumBefore(values, i + 1) <= SumBefore(values, j)
<1>1. i \in 1 .. Len(values) + 1 /\ i + 1 \in 1 .. Len(values) + 1
  OBVIOUS
<1>2. \A j \in 1 .. Len(values) : j \in 1 .. Len(values) + 1 /\ (i < j => i + 1 <= j)
  OBVIOUS
<1>3. \A j \in 1 .. Len(values) : i < j => SumBefore(values, i + 1) <= SumBefore(values, j)
  BY <1>1, <1>2, SumGrows
<1>4. SumBefore(values, i) \in Nat /\ SumBefore(values, i + 1) = SumBefore(values, i) + values[i]
  BY <1>1, SumRuns
<1>5. values[i] \in Nat
  OBVIOUS
<1> QED BY <1>3, <1>4, <1>5

\* A position is at one place of a stream,
LEMMA PlaceIsUnique ==
  ASSUME NEW values \in Seq(Nat), NEW i, NEW j, NEW d, NEW e, NEW p,
         IsAt(values, i, d, p), IsAt(values, j, e, p)
  PROVE  i = j /\ d = e
<1>1. /\ i \in 1 .. Len(values) /\ j \in 1 .. Len(values)
      /\ d \in 0 .. values[i] - 1 /\ e \in 0 .. values[j] - 1
      /\ SumBefore(values, i) + d = p /\ SumBefore(values, j) + e = p
  BY DEF IsAt
<1>2. /\ i \in Nat /\ values[i] \in Nat /\ SumBefore(values, i) \in Nat
      /\ i < j => SumBefore(values, i) + values[i] <= SumBefore(values, j)
  BY <1>1, PieceEnds
<1>3. /\ j \in Nat /\ values[j] \in Nat /\ SumBefore(values, j) \in Nat
      /\ j < i => SumBefore(values, j) + values[j] <= SumBefore(values, i)
  BY <1>1, PieceEnds
<1>4. ~ (i < j)
  <2> SUFFICES ASSUME i < j PROVE FALSE
    OBVIOUS
  <2>1. SumBefore(values, i) + values[i] <= SumBefore(values, j)
    BY <1>2
  <2>2. d \in Nat /\ e \in Nat /\ d < values[i]
    BY <1>1, <1>2, <1>3
  <2>3. SumBefore(values, i) + d = SumBefore(values, j) + e
    BY <1>1
  <2> QED BY <1>2, <1>3, <2>1, <2>2, <2>3
<1>5. ~ (j < i)
  <2> SUFFICES ASSUME j < i PROVE FALSE
    OBVIOUS
  <2>1. SumBefore(values, j) + values[j] <= SumBefore(values, i)
    BY <1>3
  <2>2. d \in Nat /\ e \in Nat /\ e < values[j]
    BY <1>1, <1>2, <1>3
  <2>3. SumBefore(values, i) + d = SumBefore(values, j) + e
    BY <1>1
  <2> QED BY <1>2, <1>3, <2>1, <2>2, <2>3
<1>6. i = j
  BY <1>2, <1>3, <1>4, <1>5
<1> QED BY <1>1, <1>2, <1>6

\* and PieceAt finds it; beyond the end it refuses.
LEMMA PieceIsFound ==
  ASSUME NEW values \in Seq(Nat), NEW p \in Nat, NEW error
  PROVE  /\ Sum(values) \in Nat
         /\ p < Sum(values) => LET piece == PieceAt(values, p, error)
                               IN  /\ piece = [at |-> piece.at, offset |-> piece.offset]
                                   /\ IsAt(values, piece.at, piece.offset, p)
         /\ p >= Sum(values) => PieceAt(values, p, error) = Refused(error)
<1> DEFINE reaching == {i \in 1 .. Len(values) : p < SumBefore(values, i + 1)}
           N == Len(values)
<1>1. Sum(values) = SumBefore(values, N + 1) /\ N \in Nat
  BY DEF Sum
<1>2. Sum(values) \in Nat
  BY <1>1, SumRuns
<1>3. ASSUME p >= Sum(values) PROVE reaching = {}
  <2>1. \A i \in 1 .. N : SumBefore(values, i + 1) <= SumBefore(values, N + 1)
    <3> TAKE i \in 1 .. N
    <3>1. i + 1 \in 1 .. N + 1 /\ N + 1 \in 1 .. N + 1 /\ i + 1 <= N + 1
      OBVIOUS
    <3> QED BY <3>1, SumGrows
  <2>2. \A i \in 1 .. N : SumBefore(values, i + 1) \in Nat
    BY SumRuns
  <2> QED BY <1>1, <1>2, <1>3, <2>1, <2>2
<1>4. p >= Sum(values) => PieceAt(values, p, error) = Refused(error)
  BY <1>3 DEF PieceAt
<1>5. ASSUME p < Sum(values)
      PROVE  LET piece == PieceAt(values, p, error)
             IN  /\ piece = [at |-> piece.at, offset |-> piece.offset]
                 /\ IsAt(values, piece.at, piece.offset, p)
  <2>1. N # 0
    <3> SUFFICES ASSUME N = 0 PROVE FALSE
      OBVIOUS
    <3>1. SumBefore(values, 1) = 0
      BY SumRuns
    <3> QED BY <1>1, <1>5, <3>1
  <2>2. N \in reaching
    BY <1>1, <1>5, <2>1
  <2>3. PICK m \in reaching : \A i \in reaching : m <= i
    <3>1. reaching \in SUBSET Nat
      OBVIOUS
    <3> HIDE DEF reaching
    <3> QED BY <2>2, <3>1, LeastNatural
  <2>4. Min(reaching) = m
    <3>1. \A x \in reaching : (\A y \in reaching : x <= y) => x = m
      BY <2>3
    <3> QED BY <2>3, <3>1 DEF Min
  <2>5. PieceAt(values, p, error) = [at |-> m, offset |-> p - SumBefore(values, m)]
    BY <2>2, <2>4 DEF PieceAt
  <2>6. /\ m \in 1 .. N /\ p < SumBefore(values, m + 1)
        /\ SumBefore(values, m + 1) = SumBefore(values, m) + values[m]
        /\ SumBefore(values, m) \in Nat /\ values[m] \in Nat
    BY <2>3, SumRuns
  <2>7. SumBefore(values, m) <= p
    <3>1. CASE m = 1
      <4>1. SumBefore(values, 1) = 0
        BY SumRuns
      <4> QED BY <3>1, <4>1
    <3>2. CASE m # 1
      <4>1. m - 1 \in 1 .. N /\ (m - 1) + 1 = m
        BY <2>6, <3>2
      <4>2. m - 1 \notin reaching
        <5>1. ~ (m <= m - 1)
          BY <2>6
        <5> HIDE DEF reaching
        <5> QED BY <2>3, <5>1
      <4>3. SumBefore(values, (m - 1) + 1) = SumBefore(values, m)
        BY <4>1
      <4> QED BY <2>6, <4>1, <4>2, <4>3
    <3> QED BY <3>1, <3>2
  <2>8. IsAt(values, m, p - SumBefore(values, m), p)
    BY <2>6, <2>7 DEF IsAt
  <2> HIDE DEF reaching
  <2> QED BY <2>5, <2>8
<1> QED BY <1>2, <1>4, <1>5

\* A place of the stream is inside it.
LEMMA PlaceIsInside ==
  ASSUME NEW values \in Seq(Nat), NEW i, NEW d, NEW p, IsAt(values, i, d, p)
  PROVE  p \in Nat /\ p < Sum(values)
<1>1. i \in 1 .. Len(values) /\ d \in 0 .. values[i] - 1 /\ p = SumBefore(values, i) + d
  BY DEF IsAt
<1>2. /\ values[i] \in Nat /\ SumBefore(values, i) \in Nat
      /\ SumBefore(values, i + 1) = SumBefore(values, i) + values[i]
  BY <1>1, PieceEnds
<1>3. SumBefore(values, i + 1) <= SumBefore(values, Len(values) + 1)
  <2>1. i + 1 \in 1 .. Len(values) + 1 /\ Len(values) + 1 \in 1 .. Len(values) + 1
        /\ i + 1 <= Len(values) + 1
    BY <1>1
  <2> QED BY <2>1, SumGrows
<1>4. Sum(values) = SumBefore(values, Len(values) + 1) /\ Sum(values) \in Nat
  BY PieceIsFound DEF Sum
<1> HIDE DEF IsAt
<1> QED BY <1>1, <1>2, <1>3, <1>4

\* outputSpacePosition inverts PieceAt on the outputs of a transaction.
LEMMA OutputPosition ==
  ASSUME NEW tx, tx.outputs \in Seq(Nat), NEW v, NEW offset, NEW p \in Nat, IsAt(tx.outputs, v, offset, p)
  PROVE  outputSpacePosition(tx, v, offset) = p
<1>1. DOMAIN tx.outputs = 1 .. Len(tx.outputs)
  OBVIOUS
<1> QED BY <1>1 DEF outputSpacePosition, IsAt

(* ---------------------------- the invariant ---------------------------- *)

Sats == [sat : Nat, fee : BOOLEAN]

Transactions ==
  [inputs : Seq([tx : Nat, vout : Nat]), outputs : Seq(Nat), coinbase : BOOLEAN, height : Int]

\* Is it an output of one of the first n transactions?
IsOutput(n, outpoint) ==
  outpoint.tx \in 1 .. n /\ outpoint.vout \in 1 .. Len(txs[outpoint.tx].outputs)

\* Every output holds as many sats as it is worth.
Filled(t) ==
  /\ Len(holds[t]) = Len(txs[t].outputs)
  /\ \A v \in 1 .. Len(holds[t]) : Len(holds[t][v]) = txs[t].outputs[v]

\* First in, first out.
Fifo(t) ==
  LET tx     == txs[t]
      values == ValuesOf(txs, tx)
  IN  /\ IsInjective(tx.inputs) /\ Sum(tx.outputs) <= Sum(values)
      /\ \A i \in 1 .. Len(tx.inputs), v \in 1 .. Len(tx.outputs) :
           \A d \in 0 .. values[i] - 1, o \in 0 .. tx.outputs[v] - 1 :
             SumBefore(values, i) + d = SumBefore(tx.outputs, v) + o
               => holds[t][v][o + 1] = Held(tx.inputs[i])[d + 1]

\* The subsidy's sats first, by their numbers, and the block's fees after them.
Minted(t) ==
  LET tx == txs[t]
  IN  \A v \in 1 .. Len(tx.outputs) : \A o \in 0 .. tx.outputs[v] - 1 :
        Number(holds[t][v][o + 1]) = coinbaseSatAt(SumBefore(tx.outputs, v) + o, tx.height)

TxOK(t) ==
  /\ Filled(t)
  /\ \A i \in 1 .. Len(txs[t].inputs) : IsOutput(t - 1, txs[t].inputs[i])
  /\ IF txs[t].coinbase THEN txs[t].height \in Nat /\ Minted(t) ELSE Fifo(t)

TxsOK ==
  /\ txs \in Seq(Transactions) /\ holds \in Seq(Seq(Seq(Sats))) /\ Len(holds) = Len(txs)
  /\ \A t \in 1 .. Len(txs) : TxOK(t)

MintedAt(sat) ==
  LET at == minted[sat + 1]
  IN  at.offset < subsidySats(at.height) /\ firstSatOfBlock(at.height) + at.offset = sat

LedgerInv ==
  /\ height \in Nat /\ reward = subsidySats(height)
  /\ minted \in Seq([height : Nat, offset : Nat]) /\ Len(minted) = firstSatOfBlock(height)
  /\ \A sat \in 0 .. Len(minted) - 1 : MintedAt(sat)
  /\ fees \in Seq(Sats) /\ \A i \in 1 .. Len(fees) : fees[i].fee
  /\ unspent \subseteq [tx : Nat, vout : Nat]
  /\ \A outpoint \in unspent : IsOutput(Len(txs), outpoint)
  /\ TxsOK

(* ------------------------------- one hop ------------------------------- *)

\* The sat at an offset of an output.
TheSat(t, v, o) == holds[t][v][o + 1]
SpentSat(from, d) == TheSat(from.tx, from.vout, d)

\* What the invariant says of one transaction, with its types.
LEMMA TxFacts ==
  ASSUME TxsOK, NEW t \in 1 .. Len(txs)
  PROVE  /\ TxOK(t)
         /\ txs[t] = [inputs |-> txs[t].inputs, outputs |-> txs[t].outputs,
                      coinbase |-> txs[t].coinbase, height |-> txs[t].height]
         /\ txs[t].inputs \in Seq([tx : Nat, vout : Nat]) /\ txs[t].outputs \in Seq(Nat)
         /\ txs[t].coinbase \in BOOLEAN /\ txs[t].height \in Int
         /\ holds[t] \in Seq(Seq(Sats))
<1>1. txs \in Seq(Transactions) /\ holds \in Seq(Seq(Seq(Sats))) /\ Len(holds) = Len(txs) /\ TxOK(t)
  BY DEF TxsOK
<1>2. txs[t] \in Transactions /\ holds[t] \in Seq(Seq(Sats))
  BY <1>1
<1> QED BY <1>1, <1>2 DEF Transactions

\* The values of a transaction's inputs are those of the outputs they spend.
LEMMA InputValue ==
  ASSUME TxsOK, NEW t \in 1 .. Len(txs), NEW i \in 1 .. Len(txs[t].inputs)
  PROVE  /\ txs[t].inputs[i] \in [tx : Nat, vout : Nat]
         /\ IsOutput(t - 1, txs[t].inputs[i]) /\ IsOutput(Len(txs), txs[t].inputs[i])
         /\ txs[t].inputs[i].tx < t
         /\ txs[txs[t].inputs[i].tx].outputs[txs[t].inputs[i].vout] \in Nat
         /\ ValuesOf(txs, txs[t])[i] = txs[txs[t].inputs[i].tx].outputs[txs[t].inputs[i].vout]
<1> DEFINE inputs == txs[t].inputs
           from == inputs[i]
           outputs == txs[from.tx].outputs
<1>1. inputs \in Seq([tx : Nat, vout : Nat]) /\ TxOK(t)
  BY TxFacts
<1>2. Len(txs) \in Nat
  BY DEF TxsOK
<1>3. IsOutput(t - 1, from)
  BY <1>1 DEF TxOK
<1>4. from \in [tx : Nat, vout : Nat]
  BY <1>1, ElementOfSeq
<1>5. DOMAIN inputs = 1 .. Len(inputs)
  BY <1>1
<1>6. ValuesOf(txs, txs[t])[i] = outputs[from.vout]
  BY <1>5 DEF ValuesOf
<1> HIDE DEF from
<1>7. from.tx \in 1 .. Len(txs) /\ from.tx < t /\ from.vout \in 1 .. Len(outputs)
  BY <1>2, <1>3 DEF IsOutput
<1>8. outputs \in Seq(Nat)
  BY <1>7, TxFacts
<1>9. outputs[from.vout] \in Nat
  BY <1>7, <1>8
<1> QED BY <1>3, <1>4, <1>6, <1>7, <1>9 DEF IsOutput, from

\* There is a value for each input, and it is a natural.
LEMMA InputValues ==
  ASSUME TxsOK, NEW t \in 1 .. Len(txs)
  PROVE  ValuesOf(txs, txs[t]) \in Seq(Nat) /\ Len(ValuesOf(txs, txs[t])) = Len(txs[t].inputs)
<1> DEFINE inputs == txs[t].inputs
           value(i) == txs[inputs[i].tx].outputs[inputs[i].vout]
<1>1. inputs \in Seq([tx : Nat, vout : Nat])
  BY TxFacts
<1>2. DOMAIN inputs = 1 .. Len(inputs) /\ Len(inputs) \in Nat
  BY <1>1
<1>3. ValuesOf(txs, txs[t]) = [i \in 1 .. Len(inputs) |-> value(i)]
  BY <1>2 DEF ValuesOf
<1>4. \A i \in 1 .. Len(inputs) : value(i) \in Nat
  BY InputValue
<1> HIDE DEF inputs, value
<1> QED BY <1>2, <1>3, <1>4 DEF inputs

\* What is at a position of the outputs was at that position of the inputs.
LEMMA FifoAt ==
  ASSUME TxsOK, NEW t \in 1 .. Len(txs), ~txs[t].coinbase,
         NEW i \in Nat, NEW d \in Nat, NEW v \in Nat, NEW o \in Nat, NEW p \in Nat,
         IsAt(ValuesOf(txs, txs[t]), i, d, p), IsAt(txs[t].outputs, v, o, p)
  PROVE  TheSat(t, v, o) = SpentSat(txs[t].inputs[i], d)
<1>1. Fifo(t) /\ Len(ValuesOf(txs, txs[t])) = Len(txs[t].inputs)
  BY TxFacts, InputValues DEF TxOK
<1> QED BY <1>1 DEF Fifo, IsAt, TheSat, SpentSat, Held

\* Every position of the outputs has come from an input.
CameFrom(t, v, o, p, i, d) ==
  LET from == txs[t].inputs[i]
  IN  /\ containingInput(txs[t], ValuesOf(txs, txs[t]), p) = [at |-> i, offset |-> d]
      /\ i \in 1 .. Len(txs[t].inputs)
      /\ from.tx < t /\ IsOutput(Len(txs), from)
      /\ d \in 0 .. txs[from.tx].outputs[from.vout] - 1
      /\ IsAt(ValuesOf(txs, txs[t]), i, d, p)
      /\ TheSat(t, v, o) = SpentSat(from, d)

\* No sat of an output comes from nowhere: the inputs are worth no less.
LEMMA CameFromInput ==
  ASSUME TxsOK, NEW t \in 1 .. Len(txs), ~txs[t].coinbase,
         NEW v \in Nat, NEW o \in Nat, NEW p \in Nat, IsAt(txs[t].outputs, v, o, p)
  PROVE  \E i, d \in Nat : CameFrom(t, v, o, p, i, d)
<1> DEFINE values == ValuesOf(txs, txs[t])
           piece == containingInput(txs[t], values, p)
<1>1. values \in Seq(Nat) /\ txs[t].outputs \in Seq(Nat) /\ Len(values) = Len(txs[t].inputs)
  BY TxFacts, InputValues
<1>2. Sum(txs[t].outputs) <= Sum(values)
  BY TxFacts DEF TxOK, Fifo
<1>3. p < Sum(txs[t].outputs)
  BY <1>1, PlaceIsInside
<1>4. p < Sum(values)
  <2>1. Sum(values) \in Nat /\ Sum(txs[t].outputs) \in Nat
    BY <1>1, PieceIsFound
  <2> QED BY <1>2, <1>3, <2>1
<1>5. IsAt(values, piece.at, piece.offset, p) /\ piece = [at |-> piece.at, offset |-> piece.offset]
  BY <1>1, <1>4, PieceIsFound DEF containingInput
<1> HIDE DEF values, piece
<1>6. PICK i, d \in Nat : piece = [at |-> i, offset |-> d] /\ IsAt(values, i, d, p)
  <2>1. piece.at \in Nat /\ piece.offset \in Nat
    BY <1>5 DEF IsAt
  <2> QED BY <1>5, <2>1
<1>7. i \in 1 .. Len(txs[t].inputs) /\ d \in 0 .. values[i] - 1
  BY <1>1, <1>6 DEF IsAt
<1>8. /\ txs[t].inputs[i].tx < t /\ IsOutput(Len(txs), txs[t].inputs[i])
      /\ values[i] = txs[txs[t].inputs[i].tx].outputs[txs[t].inputs[i].vout]
  BY <1>7, InputValue DEF values
<1>9. TheSat(t, v, o) = SpentSat(txs[t].inputs[i], d)
  BY <1>6, FifoAt DEF values
<1> QED BY <1>6, <1>7, <1>8, <1>9 DEF values, piece, CameFrom

(* ------------------------------ the walk back -------------------------- *)

Stands == [tx : Nat, position : Nat, depth : Nat]

\* Is this sat at the place the walk has come to?
Leads(at, held) ==
  /\ at.tx \in 1 .. Len(txs) /\ at.position \in Nat
  /\ \E v, o \in Nat : IsAt(txs[at.tx].outputs, v, o, at.position) /\ TheSat(at.tx, v, o) = held

\* The walk starts at the output of the sat it looks for.
LEMMA OutputLeads ==
  ASSUME TxsOK, NEW from, IsOutput(Len(txs), from), NEW offset, NEW depth,
         offset \in 0 .. txs[from.tx].outputs[from.vout] - 1
  PROVE  /\ from.tx \in Nat /\ outputSpacePosition(txs[from.tx], from.vout, offset) \in Nat
         /\ Leads(End(from.tx, outputSpacePosition(txs[from.tx], from.vout, offset), depth),
                  SpentSat(from, offset))
<1> DEFINE outputs == txs[from.tx].outputs
           p == SumBefore(outputs, from.vout) + offset
<1>1. from.tx \in 1 .. Len(txs) /\ from.vout \in 1 .. Len(outputs)
  BY DEF IsOutput
<1>2. outputs \in Seq(Nat)
  BY <1>1, TxFacts
<1>3. SumBefore(outputs, from.vout) \in Nat /\ outputs[from.vout] \in Nat
  BY <1>1, <1>2, PieceEnds
<1>4. offset \in Nat /\ p \in Nat /\ from.vout \in Nat
  BY <1>1, <1>3
<1>5. IsAt(outputs, from.vout, offset, p)
  BY <1>1 DEF IsAt
<1> HIDE DEF p
<1>6. outputSpacePosition(txs[from.tx], from.vout, offset) = p
  BY <1>2, <1>4, <1>5, OutputPosition
<1> QED BY <1>1, <1>4, <1>5, <1>6 DEF Leads, End, SpentSat

\* A step of the walk stays with the sat, and goes to an earlier transaction.
LEMMA BackFollows ==
  ASSUME TxsOK, NEW at \in Stands, NEW held, Leads(at, held)
  PROVE  /\ Back(txs, at) \in Stands /\ Leads(Back(txs, at), held)
         /\ txs[at.tx].coinbase => Back(txs, at) = at
         /\ ~txs[at.tx].coinbase => Back(txs, at).tx < at.tx
<1>1. at.tx \in 1 .. Len(txs) /\ at.position \in Nat /\ ~ (at.position < 0)
  BY DEF Leads
<1>2. txs[at.tx].coinbase \in BOOLEAN
  BY <1>1, TxFacts
<1>3. ASSUME txs[at.tx].coinbase PROVE Back(txs, at) = at
  BY <1>1, <1>3 DEF Back
<1>4. ASSUME ~txs[at.tx].coinbase
      PROVE  Back(txs, at) \in Stands /\ Leads(Back(txs, at), held) /\ Back(txs, at).tx < at.tx
  <2> DEFINE t == at.tx
             p == at.position
  <2>1. PICK v, o \in Nat : IsAt(txs[t].outputs, v, o, p) /\ TheSat(t, v, o) = held
    BY DEF Leads
  <2>2. t \in 1 .. Len(txs) /\ p \in Nat /\ ~txs[t].coinbase
    BY <1>1, <1>4
  <2> HIDE DEF t, p
  <2>3. PICK i, d \in Nat : CameFrom(t, v, o, p, i, d)
    BY <2>1, <2>2, CameFromInput
  <2> DEFINE from == txs[t].inputs[i]
             next == End(from.tx, outputSpacePosition(txs[from.tx], from.vout, d), at.depth + 1)
  <2>4. /\ containingInput(txs[t], ValuesOf(txs, txs[t]), p) = [at |-> i, offset |-> d]
        /\ from.tx < t /\ IsOutput(Len(txs), from)
        /\ d \in 0 .. txs[from.tx].outputs[from.vout] - 1
        /\ TheSat(t, v, o) = SpentSat(from, d)
    BY <2>3 DEF CameFrom
  <2>8. held = SpentSat(from, d) /\ ~ (i < 0)
    BY <2>1, <2>4
  <2>5. Back(txs, at) = next
    <3>1. /\ containingInput(txs[at.tx], ValuesOf(txs, txs[at.tx]), at.position)
               = [at |-> i, offset |-> d]
          /\ ~txs[at.tx].coinbase
      BY <2>2, <2>4 DEF t, p
    <3>2. [at |-> i, offset |-> d].at = i /\ [at |-> i, offset |-> d].offset = d
      OBVIOUS
    <3>3. from = txs[at.tx].inputs[i]
      BY DEF t
    <3> HIDE DEF from
    <3> QED BY <1>1, <2>8, <3>1, <3>2, <3>3 DEF Back
  <2> HIDE DEF from
  <2>6. /\ Leads(next, held) /\ from.tx \in Nat
        /\ outputSpacePosition(txs[from.tx], from.vout, d) \in Nat
    BY <2>4, <2>8, OutputLeads
  <2>7. next.tx = from.tx /\ next \in Stands
    BY <2>6 DEF End, Stands
  <2> QED BY <2>4, <2>5, <2>6, <2>7 DEF t
<1> QED BY <1>2, <1>3, <1>4

\* The walk leads from every sat of every output to the coinbase it was paid out in.
LEMMA WalkEnds ==
  ASSUME TxsOK, NEW from, IsOutput(Len(txs), from), NEW offset,
         offset \in 0 .. txs[from.tx].outputs[from.vout] - 1
  PROVE  LET end == Ancestry(txs, from, offset)
         IN  Leads(end, SpentSat(from, offset)) /\ txs[end.tx].coinbase
<1> DEFINE N == Len(txs)
           held == SpentSat(from, offset)
           start == End(from.tx, outputSpacePosition(txs[from.tx], from.vout, offset), 0)
           V == {at \in Stands : Leads(at, held)}
           step == [n \in 1 .. N |-> [at \in V |-> Back(txs, at)]]
           Eqn(f) == f = [n \in 0 .. N |-> IF n = 0 THEN start ELSE Back(txs, f[n - 1])]
           walk == CHOOSE f : Eqn(f)
<1>1. N \in Nat /\ N \in 0 .. N /\ 0 \in 0 .. N
  BY DEF TxsOK
<1>2. start \in V
  <2>1. /\ Leads(start, held) /\ from.tx \in Nat
        /\ outputSpacePosition(txs[from.tx], from.vout, offset) \in Nat
    BY OutputLeads
  <2> QED BY <2>1 DEF End, Stands
<1>3. ASSUME NEW at \in V
      PROVE  /\ Back(txs, at) \in V
             /\ ~txs[at.tx].coinbase => Back(txs, at).tx < at.tx
             /\ txs[at.tx].coinbase => Back(txs, at) = at
  BY BackFollows
<1>4. \A at \in V : at.tx \in 1 .. N /\ txs[at.tx].coinbase \in BOOLEAN /\ Leads(at, held)
  BY TxFacts DEF Leads
<1>5. Ancestry(txs, from, offset) = walk[N]
  BY DEF Ancestry
<1> HIDE DEF V, start, held
<1>6. /\ StaysIn(step, N, V)
      /\ \A n \in 1 .. N : \A at \in V : step[n][at] = Back(txs, at)
  BY <1>3 DEF StaysIn
<1> HIDE DEF N, step
<1>7. PICK f \in [0 .. N -> V] : LoopOf(f, N, start, step)
  BY <1>1, <1>2, <1>6, LoopRuns
<1>8. \A n \in 0 .. N : f[n] = IF n = 0 THEN start ELSE Back(txs, f[n - 1])
  <2>1. ASSUME NEW n \in 1 .. N PROVE f[n] = Back(txs, f[n - 1])
    <3>1. n - 1 \in 0 .. N
      BY <1>1
    <3>2. f[n - 1] \in V
      BY <1>7, <3>1
    <3>3. f[n] = step[n][f[n - 1]]
      BY <1>7 DEF LoopOf
    <3> QED BY <1>6, <3>2, <3>3
  <2>2. f[0] = start
    BY <1>7 DEF LoopOf
  <2> QED BY <1>1, <2>1, <2>2
<1>9. Eqn(f)
  BY <1>7, <1>8
<1>10. Eqn(walk)
  BY <1>9
<1> HIDE DEF walk
<1>11. walk[0] = start /\ \A n \in 0 .. N : n < N => walk[n + 1] = Back(txs, walk[n])
  <2>1. walk[0] = start
    BY <1>1, <1>10
  <2>2. ASSUME NEW n \in 0 .. N, n < N PROVE walk[n + 1] = Back(txs, walk[n])
    <3>1. n + 1 \in 0 .. N /\ n + 1 # 0 /\ n + 1 - 1 = n
      BY <1>1, <2>2
    <3> QED BY <1>10, <3>1
  <2> QED BY <2>1, <2>2
<1> DEFINE Ended(at) == txs[at.tx].coinbase
           S == {n \in 0 .. N : walk[n] \in V /\ (Ended(walk[n]) \/ walk[n].tx <= N - n)}
<1>12. 0 \in S
  BY <1>1, <1>2, <1>4, <1>11
<1>13. ASSUME NEW n \in 0 .. N, n < N, n \in S PROVE n + 1 \in S
  <2> DEFINE at == walk[n]
  <2>1. at \in V /\ walk[n + 1] = Back(txs, at) /\ n + 1 \in 0 .. N
    BY <1>1, <1>11, <1>13
  <2>2. CASE Ended(at)
    BY <1>3, <2>1, <2>2
  <2>3. CASE ~Ended(at)
    <3>1. at.tx <= N - n
      BY <1>13, <2>3
    <3>2. Back(txs, at) \in V /\ Back(txs, at).tx < at.tx
      BY <1>3, <2>1, <2>3
    <3>3. Back(txs, at).tx \in 1 .. N /\ at.tx \in 1 .. N
      BY <1>4, <2>1, <3>2
    <3> HIDE DEF at
    <3>4. Back(txs, at).tx <= N - (n + 1)
      BY <1>1, <3>1, <3>2, <3>3
    <3> QED BY <2>1, <3>2, <3>4
  <2> QED BY <2>2, <2>3
<1> HIDE DEF S
<1>14. N \in S
  BY <1>1, <1>12, <1>13, InductionUpTo
<1> USE DEF S
<1>15. walk[N] \in V /\ Ended(walk[N])
  <2>1. walk[N] \in V /\ (Ended(walk[N]) \/ walk[N].tx <= N - N)
    BY <1>14
  <2>2. walk[N].tx \in 1 .. N
    BY <1>4, <2>1
  <2> QED BY <1>1, <2>1, <2>2
<1> QED BY <1>4, <1>5, <1>15 DEF held

\* The number that the walk comes to is that of the sat, or a refusal of a fee's.
LEMMA AncestryNumbers ==
  ASSUME TxsOK, NEW from, IsOutput(Len(txs), from), NEW offset,
         offset \in 0 .. txs[from.tx].outputs[from.vout] - 1
  PROVE  LET end == Ancestry(txs, from, offset)
         IN  SatAtEnd(end, txs[end.tx].height) = Number(SpentSat(from, offset))
<1> DEFINE end == Ancestry(txs, from, offset)
           held == SpentSat(from, offset)
<1>1. Leads(end, held) /\ txs[end.tx].coinbase
  BY WalkEnds
<1> HIDE DEF end, held
<1>2. end.tx \in 1 .. Len(txs) /\ end.position \in Nat
  BY <1>1 DEF Leads
<1>3. PICK v, o \in Nat : IsAt(txs[end.tx].outputs, v, o, end.position) /\ TheSat(end.tx, v, o) = held
  BY <1>1 DEF Leads
<1>4. Minted(end.tx)
  BY <1>1, <1>2, TxFacts DEF TxOK
<1>5. Number(held) = coinbaseSatAt(end.position, txs[end.tx].height)
  BY <1>3, <1>4 DEF Minted, IsAt, TheSat
<1> QED BY <1>2, <1>5 DEF SatAtEnd, end, held

(* ----------------------- the two walks and the sats -------------------- *)

\* The transactions are numbered from 1.
LEMMA TxsInOrder ==
  ASSUME TxsOK
  PROVE  Len(txs) \in Nat /\ DOMAIN txs = 1 .. Len(txs)
<1>1. txs \in Seq(Transactions)
  BY DEF TxsOK
<1> QED BY <1>1

\* So are the inputs of one.
LEMMA InputsInOrder ==
  ASSUME TxsOK, NEW t \in 1 .. Len(txs)
  PROVE  DOMAIN txs[t].inputs = 1 .. Len(txs[t].inputs)
<1>1. txs[t].inputs \in Seq([tx : Nat, vout : Nat])
  BY TxFacts
<1> QED BY <1>1

\* The walk back finds every sat of every output.
LEMMA WalkFinds ==
  ASSUME TxsOK, NEW t \in 1 .. Len(txs), NEW v \in DOMAIN txs[t].outputs,
         NEW offset \in 0 .. txs[t].outputs[v] - 1
  PROVE  SatAt(Outpoint(t, v), offset) = Number(holds[t][v][offset + 1])
<1> DEFINE from == Outpoint(t, v)
<1>1. from.tx = t /\ from.vout = v
  BY DEF Outpoint
<1> HIDE DEF from
<1>2. txs[t].outputs \in Seq(Nat)
  BY TxFacts
<1>3. IsOutput(Len(txs), from)
  BY <1>1, <1>2 DEF IsOutput
<1>4. offset \in 0 .. txs[from.tx].outputs[from.vout] - 1
  BY <1>1
<1>5. SatAt(from, offset) = Number(SpentSat(from, offset))
  BY <1>3, <1>4, AncestryNumbers DEF SatAt
<1> QED BY <1>1, <1>5 DEF from, SpentSat, TheSat

\* No two inputs spend one output: the first that does is the one meant.
LEMMA HopForward ==
  ASSUME TxsOK, NEW t \in 1 .. Len(txs), ~txs[t].coinbase,
         NEW i \in 1 .. Len(txs[t].inputs), NEW values, NEW offset
  PROVE  transferSatpoint(txs[t], values, [tx |-> txs[t].inputs[i].tx,
                                           at |-> txs[t].inputs[i].vout, offset |-> offset])
           = mapToOutputs(txs[t], offset + SumBefore(values, i))
<1> DEFINE inputs == txs[t].inputs
           spending == {k \in 1 .. Len(inputs) :
                          inputs[k].tx = inputs[i].tx /\ inputs[k].vout = inputs[i].vout}
<1>1. inputs \in Seq([tx : Nat, vout : Nat]) /\ IsInjective(inputs)
  BY TxFacts DEF TxOK, Fifo
<1>2. DOMAIN inputs = 1 .. Len(inputs)
  BY <1>1
<1>3. \A k \in 1 .. Len(inputs) : inputs[k] \in [tx : Nat, vout : Nat]
  BY <1>1, ElementOfSeq
<1>4. spending = {i}
  <2> SUFFICES ASSUME NEW k \in spending PROVE k = i
    OBVIOUS
  <2>1. inputs[k] = inputs[i]
    BY <1>3
  <2> QED BY <1>1, <1>2, <2>1 DEF IsInjective
<1>5. Min(spending) = i
  BY <1>4 DEF Min
<1> QED BY <1>4, <1>5 DEF transferSatpoint, SelectInSeq

\* An output holds as many sats as it is worth.
LEMMA HeldByOutput ==
  ASSUME TxsOK, NEW from, IsOutput(Len(txs), from)
  PROVE  Len(Held(from)) = txs[from.tx].outputs[from.vout] /\ Len(Held(from)) \in Nat
<1>1. from.tx \in 1 .. Len(txs) /\ from.vout \in 1 .. Len(txs[from.tx].outputs)
  BY DEF IsOutput
<1>2. Filled(from.tx) /\ txs[from.tx].outputs \in Seq(Nat)
  BY <1>1, TxFacts DEF TxOK
<1>3. Len(Held(from)) = txs[from.tx].outputs[from.vout]
  BY <1>1, <1>2 DEF Filled, Held
<1> QED BY <1>1, <1>2, <1>3

\* What mapToOutputs finds is in an output.
LEMMA FoundInOutputs ==
  ASSUME TxsOK, NEW t \in 1 .. Len(txs), NEW p \in Nat, p < totalOutputSats(txs[t])
  PROVE  \E v, o \in Nat :
           /\ mapToOutputs(txs[t], p) = [at |-> v, offset |-> o] /\ IsAt(txs[t].outputs, v, o, p)
           /\ v \in DOMAIN holds[t] /\ o \in 0 .. Len(holds[t][v]) - 1
<1> DEFINE outputs == txs[t].outputs
           piece == mapToOutputs(txs[t], p)
<1>1. outputs \in Seq(Nat) /\ Filled(t) /\ holds[t] \in Seq(Seq(Sats))
  BY TxFacts DEF TxOK
<1>2. piece = [at |-> piece.at, offset |-> piece.offset] /\ IsAt(outputs, piece.at, piece.offset, p)
  BY <1>1, PieceIsFound DEF mapToOutputs, totalOutputSats
<1> HIDE DEF piece, outputs
<1>3. piece.at \in 1 .. Len(outputs) /\ piece.offset \in 0 .. outputs[piece.at] - 1
  BY <1>2 DEF IsAt
<1>4. Len(holds[t]) = Len(outputs) /\ Len(holds[t][piece.at]) = outputs[piece.at]
  BY <1>1, <1>3 DEF Filled, outputs
<1>5. piece.at \in DOMAIN holds[t] /\ piece.offset \in 0 .. Len(holds[t][piece.at]) - 1
  <2>1. DOMAIN holds[t] = 1 .. Len(holds[t])
    BY <1>1
  <2> QED BY <1>3, <1>4, <2>1
<1>6. piece.at \in Nat /\ piece.offset \in Nat
  BY <1>1, <1>3
<1> QED BY <1>2, <1>5, <1>6 DEF piece, outputs

\* A hop forward takes the sat where the ledger has put it.
LEMMA TransferFollows ==
  ASSUME TxsOK, NEW t \in Spends, NEW i \in DOMAIN txs[t].inputs,
         NEW offset \in 0 .. Len(Held(txs[t].inputs[i])) - 1, NEW to, NEW position,
         to = transferSatpoint(txs[t], ValuesOf(txs, txs[t]),
                [tx |-> txs[t].inputs[i].tx, at |-> txs[t].inputs[i].vout, offset |-> offset]),
         position = offset + SumBefore(ValuesOf(txs, txs[t]), i)
  PROVE  IF position >= totalOutputSats(txs[t]) THEN to = Refused(CustodyUnsupportedError)
         ELSE SatHeldAt(t, to) = Held(txs[t].inputs[i])[offset + 1].sat
<1> DEFINE values == ValuesOf(txs, txs[t])
           from == txs[t].inputs[i]
<1>1. t \in 1 .. Len(txs) /\ ~txs[t].coinbase
  BY TxsInOrder DEF Spends
<1>2. i \in 1 .. Len(txs[t].inputs) /\ txs[t].outputs \in Seq(Nat)
  BY <1>1, InputsInOrder, TxFacts
<1>3. values \in Seq(Nat) /\ Len(values) = Len(txs[t].inputs)
  BY <1>1, InputValues
<1>4. IsOutput(Len(txs), from) /\ values[i] = txs[from.tx].outputs[from.vout]
  BY <1>1, <1>2, InputValue
<1>5. Len(Held(from)) = values[i] /\ Len(Held(from)) \in Nat
  BY <1>4, HeldByOutput
<1>6. to = mapToOutputs(txs[t], position)
  BY <1>1, <1>2, HopForward
<1> HIDE DEF values, from
<1>7. offset \in 0 .. values[i] - 1 /\ position = SumBefore(values, i) + offset
  <2>1. offset \in 0 .. Len(Held(from)) - 1
    BY DEF from
  <2>2. SumBefore(values, i) \in Nat
    BY <1>2, <1>3, PieceEnds
  <2>3. position = offset + SumBefore(values, i)
    BY DEF values
  <2> QED BY <1>5, <2>1, <2>2, <2>3
<1>8. IsAt(values, i, offset, position)
  BY <1>2, <1>3, <1>7 DEF IsAt
<1>9. position \in Nat /\ i \in Nat /\ offset \in Nat
  BY <1>2, <1>3, <1>7, <1>8, PlaceIsInside
<1>10. CASE position >= totalOutputSats(txs[t])
  BY <1>2, <1>6, <1>9, <1>10, PieceIsFound DEF mapToOutputs, totalOutputSats
<1>11. CASE ~ (position >= totalOutputSats(txs[t]))
  <2>1. totalOutputSats(txs[t]) \in Nat
    BY <1>2, PieceIsFound, <1>9 DEF totalOutputSats
  <2>2. position < totalOutputSats(txs[t])
    BY <1>9, <1>11, <2>1
  <2>3. PICK v, o \in Nat :
           /\ mapToOutputs(txs[t], position) = [at |-> v, offset |-> o]
           /\ IsAt(txs[t].outputs, v, o, position)
           /\ v \in DOMAIN holds[t] /\ o \in 0 .. Len(holds[t][v]) - 1
    BY <1>1, <1>9, <2>2, FoundInOutputs
  <2>4. TheSat(t, v, o) = SpentSat(from, offset)
    <3>1. IsAt(ValuesOf(txs, txs[t]), i, offset, position)
      BY <1>8 DEF values
    <3> QED BY <1>1, <1>9, <2>3, <3>1, FifoAt DEF from
  <2>5. SatHeldAt(t, to) = holds[t][v][o + 1].sat
    <3>1. to.at = v /\ to.offset = o
      BY <1>6, <2>3
    <3> QED BY <2>3, <3>1 DEF SatHeldAt
  <2> QED BY <1>11, <2>4, <2>5 DEF from, TheSat, SpentSat, Held
<1> QED BY <1>10, <1>11

\* From a position of the outputs, custody's hop and the identity's walk speak of one sat.
LEMMA OnePosition ==
  ASSUME TxsOK, NEW t \in 1 .. Len(txs), ~txs[t].coinbase,
         NEW inscription, NEW p \in Nat, p < totalOutputSats(txs[t]),
         revealPosition(txs[t], inscription, ValuesOf(txs, txs[t])) = p
  PROVE  /\ mapToOutputs(txs[t], p) # Refused(CustodyUnsupportedError)
         /\ SatOfInscription(t, inscription)
              = Number(TheSat(t, mapToOutputs(txs[t], p).at, mapToOutputs(txs[t], p).offset))
<1>1. PICK v, o \in Nat :
           mapToOutputs(txs[t], p) = [at |-> v, offset |-> o] /\ IsAt(txs[t].outputs, v, o, p)
  BY FoundInOutputs
<1>2. mapToOutputs(txs[t], p).at = v /\ mapToOutputs(txs[t], p).offset = o
  BY <1>1
<1>3. mapToOutputs(txs[t], p) # Refused(CustodyUnsupportedError)
  BY <1>2 DEF Refused, CustodyUnsupportedError
<1>4. PICK i, d \in Nat : CameFrom(t, v, o, p, i, d)
  BY <1>1, CameFromInput
<1> DEFINE from == txs[t].inputs[i]
<1>5. /\ containingInput(txs[t], ValuesOf(txs, txs[t]), p) = [at |-> i, offset |-> d]
      /\ IsOutput(Len(txs), from) /\ d \in 0 .. txs[from.tx].outputs[from.vout] - 1
      /\ TheSat(t, v, o) = SpentSat(from, d)
  BY <1>4 DEF CameFrom
<1>6. AncestryOf(txs, t, inscription) = Ancestry(txs, from, d)
  <2>1. [at |-> i, offset |-> d].at = i /\ [at |-> i, offset |-> d].offset = d /\ ~ (i < 0)
    OBVIOUS
  <2>2. p >= 0 /\ ~ (p < 0)
    OBVIOUS
  <2> QED BY <1>5, <2>1, <2>2 DEF AncestryOf
<1> HIDE DEF from
<1>7. SatOfInscription(t, inscription) = Number(SpentSat(from, d))
  BY <1>5, <1>6, AncestryNumbers DEF SatOfInscription
<1> QED BY <1>2, <1>3, <1>5, <1>7

\* An inscription with no position has no sat.
LEMMA RefusedInscription ==
  ASSUME NEW t, NEW inscription,
         revealPosition(txs[t], inscription, ValuesOf(txs, txs[t])) = CustodyUnsupportedError
  PROVE  SatOfInscription(t, inscription) = CustodyUnsupportedError
<1>1. AncestryOf(txs, t, inscription) = End(t, CustodyUnsupportedError, 0)
  BY DEF AncestryOf, CustodyUnsupportedError
<1> QED BY <1>1 DEF SatOfInscription, SatAtEnd, End, CustodyUnsupportedError

\* Custody's genesis satpoint and the identity's start position name one sat.
LEMMA TwoVerifiersAgree ==
  ASSUME TxsOK, NEW t \in Spends, NEW inscription \in Inscriptions(t), NEW genesis,
         genesis = genesisSatpoint(txs[t], inscription, ValuesOf(txs, txs[t]))
  PROVE  IF genesis = Refused(CustodyUnsupportedError)
         THEN SatOfInscription(t, inscription) = CustodyUnsupportedError
         ELSE SatOfInscription(t, inscription)
                = Number(holds[t][genesis.at][genesis.offset + 1])
<1> DEFINE values == ValuesOf(txs, txs[t])
           default == SumBefore(values, inscription.input)
           total == totalOutputSats(txs[t])
           position == revealPosition(txs[t], inscription, values)
<1>1. t \in 1 .. Len(txs) /\ ~txs[t].coinbase
  BY TxsInOrder DEF Spends
<1>2. txs[t].outputs \in Seq(Nat) /\ txs[t].inputs \in Seq([tx : Nat, vout : Nat])
  BY <1>1, TxFacts
<1>3. values \in Seq(Nat) /\ Len(values) = Len(txs[t].inputs)
  BY <1>1, InputValues
<1>4. inscription.input \in 1 .. Len(values)
  <2>1. inscription.input \in DOMAIN txs[t].inputs
    BY DEF Inscriptions
  <2> QED BY <1>1, <1>3, <2>1, InputsInOrder
<1>5. default \in Nat /\ total \in Nat
  <2>1. default \in Nat
    BY <1>3, <1>4, PieceEnds
  <2>2. 0 \in Nat
    OBVIOUS
  <2> QED BY <1>2, <2>1, <2>2, PieceIsFound DEF totalOutputSats
<1>6. CASE Unbound(inscription, values)
  <2>1. genesis = Refused(CustodyUnsupportedError)
    BY <1>6 DEF genesisSatpoint
  <2>2. position = CustodyUnsupportedError
    BY <1>6 DEF revealPosition
  <2> QED BY <2>1, <2>2, RefusedInscription
<1>7. CASE ~Unbound(inscription, values) /\ PointerHolds(txs[t], inscription)
  <2> DEFINE p == inscription.pointer
  <2>1. genesis = mapToOutputs(txs[t], p) /\ position = p
    BY <1>7 DEF genesisSatpoint, revealPosition
  <2>2. p \in Nat /\ p < total
    <3>1. p \in -1 .. total /\ p # -1 /\ p < total
      BY <1>7 DEF PointerHolds, Inscriptions
    <3> HIDE DEF total, p
    <3> QED BY <1>5, <3>1
  <2> QED BY <1>1, <2>1, <2>2, OnePosition DEF TheSat
<1>8. CASE ~Unbound(inscription, values) /\ ~PointerHolds(txs[t], inscription)
  <2>1. /\ genesis = mapToOutputs(txs[t], default)
        /\ position = IF default >= total THEN CustodyUnsupportedError ELSE default
    BY <1>8 DEF genesisSatpoint, revealPosition
  <2>2. CASE default >= total
    <3>1. genesis = Refused(CustodyUnsupportedError)
      BY <1>2, <1>5, <2>1, <2>2, PieceIsFound DEF mapToOutputs, totalOutputSats
    <3>2. position = CustodyUnsupportedError
      BY <2>1, <2>2
    <3> QED BY <3>1, <3>2, RefusedInscription
  <2>3. CASE ~ (default >= total)
    <3>1. default < total
      <4> HIDE DEF default, total
      <4> QED BY <1>5, <2>3
    <3>2. position = default
      BY <2>1, <2>3
    <3> QED BY <1>1, <1>5, <2>1, <3>1, <3>2, OnePosition DEF TheSat
  <2> QED BY <2>2, <2>3
<1> QED BY <1>6, <1>7, <1>8

\* The invariant gives what the run checks.
LEMMA FollowsFromInv ==
  TxsOK => SatsAreFollowed
<1> SUFFICES ASSUME TxsOK PROVE SatsAreFollowed
  OBVIOUS
<1>1. \A t \in Newest : t \in 1 .. Len(txs)
  BY TxsInOrder DEF Newest
<1>2. WalkFindsTheSat
  BY <1>1, WalkFinds DEF WalkFindsTheSat
<1>3. TransferFollowsTheSat
  BY <1>1, TransferFollows DEF TransferFollowsTheSat
<1>4. CustodyAndIdentityAgree
  BY <1>1, TwoVerifiersAgree DEF CustodyAndIdentityAgree
<1> QED BY <1>2, <1>3, <1>4 DEF SatsAreFollowed

(* ----------------------------- the arithmetic -------------------------- *)

\* Products grow with their factors.
LEMMA TimesMonotone ==
  ASSUME NEW a \in Nat, NEW b \in Nat, NEW c \in Nat, a <= b
  PROVE  c * a <= c * b /\ c * a \in Nat /\ c * b \in Nat
<1>1. c * (b - a) \in Nat /\ c * a \in Nat /\ c * b \in Nat
  OBVIOUS
<1>2. c * b = c * a + c * (b - a)
  OBVIOUS
<1> QED BY <1>1, <1>2

\* Division with remainder,
LEMMA DivMod ==
  ASSUME NEW a \in Nat, NEW b \in Nat, b > 0
  PROVE  /\ a \div b \in Nat /\ a % b \in Nat /\ a % b < b
         /\ a = b * (a \div b) + (a % b)
OBVIOUS

\* and that there is only one.
LEMMA DivModUnique ==
  ASSUME NEW b \in Nat, b > 0, NEW q \in Nat, NEW r \in Nat, r < b, NEW a \in Nat, a = b * q + r
  PROVE  a \div b = q /\ a % b = r
<1> DEFINE x == a \div b
           y == a % b
<1>1. x \in Nat /\ y \in Nat /\ y < b /\ a = b * x + y
  BY DivMod
<1> HIDE DEF x, y
<1>2. ~ (q < x)
  <2> SUFFICES ASSUME q < x PROVE FALSE
    OBVIOUS
  <2>1. b * (q + 1) <= b * x
    <3>1. q + 1 \in Nat /\ q + 1 <= x
      BY <1>1
    <3> QED BY <1>1, <3>1, TimesMonotone
  <2>2. b * (q + 1) = b * q + b /\ b * q \in Nat /\ b * x \in Nat
    BY <1>1
  <2> QED BY <1>1, <2>1, <2>2
<1>3. ~ (x < q)
  <2> SUFFICES ASSUME x < q PROVE FALSE
    OBVIOUS
  <2>1. b * (x + 1) <= b * q
    <3>1. x + 1 \in Nat /\ x + 1 <= q
      BY <1>1
    <3> QED BY <1>1, <3>1, TimesMonotone
  <2>2. b * (x + 1) = b * x + b /\ b * q \in Nat /\ b * x \in Nat
    BY <1>1
  <2> QED BY <1>1, <2>1, <2>2
<1>4. x = q
  BY <1>1, <1>2, <1>3
<1>5. y = r
  <2>1. b * q \in Nat /\ a = b * q + y
    BY <1>1, <1>4
  <2> QED BY <1>1, <2>1
<1> QED BY <1>4, <1>5 DEF x, y

\* A height is some blocks into its epoch.
LEMMA EpochOf ==
  ASSUME SubsidyAssumption, NEW h \in Nat
  PROVE  /\ h \div EpochBlocks \in Nat /\ h % EpochBlocks \in 0 .. EpochBlocks - 1
         /\ h = EpochBlocks * (h \div EpochBlocks) + (h % EpochBlocks)
         /\ EpochBlocks * (h \div EpochBlocks) \in Nat
<1>1. EpochBlocks \in Nat /\ EpochBlocks > 0
  BY DEF SubsidyAssumption
<1>2. /\ h \div EpochBlocks \in Nat /\ h % EpochBlocks \in Nat /\ h % EpochBlocks < EpochBlocks
      /\ h = EpochBlocks * (h \div EpochBlocks) + (h % EpochBlocks)
  BY <1>1, DivMod
<1> QED BY <1>1, <1>2

\* The next block is in the same epoch, or is the first of the next one.
LEMMA NextEpoch ==
  ASSUME SubsidyAssumption, NEW h \in Nat
  PROVE  /\ (h + 1) % EpochBlocks = 0 => (h + 1) \div EpochBlocks = (h \div EpochBlocks) + 1
         /\ (h + 1) % EpochBlocks # 0 => (h + 1) \div EpochBlocks = h \div EpochBlocks
<1> DEFINE q == h \div EpochBlocks
           r == h % EpochBlocks
<1>0. EpochBlocks \in Nat /\ EpochBlocks > 0
  BY DEF SubsidyAssumption
<1>1. q \in Nat /\ r \in Nat /\ r < EpochBlocks /\ h = EpochBlocks * q + r /\ EpochBlocks * q \in Nat
  BY <1>0, EpochOf
<1> HIDE DEF q, r
<1>2. CASE r + 1 < EpochBlocks
  <2>1. h + 1 = EpochBlocks * q + (r + 1) /\ r + 1 \in Nat /\ h + 1 \in Nat
    BY <1>1
  <2>2. (h + 1) \div EpochBlocks = q /\ (h + 1) % EpochBlocks = r + 1
    BY <1>0, <1>1, <1>2, <2>1, DivModUnique
  <2> QED BY <1>1, <2>2 DEF q
<1>3. CASE ~ (r + 1 < EpochBlocks)
  <2>1. r + 1 = EpochBlocks
    BY <1>0, <1>1, <1>3
  <2>2. EpochBlocks * (q + 1) = EpochBlocks * q + EpochBlocks
    BY <1>0, <1>1
  <2>3. h + 1 = EpochBlocks * (q + 1) + 0 /\ q + 1 \in Nat /\ h + 1 \in Nat
    BY <1>0, <1>1, <2>1, <2>2
  <2>4. (h + 1) \div EpochBlocks = q + 1 /\ (h + 1) % EpochBlocks = 0
    <3>1. 0 \in Nat
      OBVIOUS
    <3> QED BY <1>0, <2>3, <3>1, DivModUnique
  <2> QED BY <2>4 DEF q
<1> QED BY <1>2, <1>3

\* A subsidy is half of the one before.
LEMMA SubsidyHalves ==
  ASSUME SubsidyAssumption
  PROVE  /\ EpochSubsidy[0] = InitialSubsidy
         /\ \A e \in 0 .. FinalEpoch : EpochSubsidy[e] \in Nat
         /\ \A e \in 0 .. FinalEpoch : e < FinalEpoch => EpochSubsidy[e + 1] = EpochSubsidy[e] \div 2
<1> DEFINE N == FinalEpoch
           step == [n \in 1 .. N |-> [x \in Nat |-> x \div 2]]
           Eqn(f) == f = [epoch \in 0 .. FinalEpoch |->
                            IF epoch = 0 THEN InitialSubsidy ELSE f[epoch - 1] \div 2]
<1>1. N \in Nat /\ InitialSubsidy \in Nat
  BY DEF SubsidyAssumption
<1>2. EpochSubsidy = CHOOSE f : Eqn(f)
  BY DEF EpochSubsidy
<1> HIDE DEF N
<1>3. \A x \in Nat : x \div 2 \in Nat
  OBVIOUS
<1>4. StaysIn(step, N, Nat) /\ \A n \in 1 .. N : \A x \in Nat : step[n][x] = x \div 2
  BY <1>3 DEF StaysIn
<1> HIDE DEF step
<1>5. PICK f \in [0 .. N -> Nat] : LoopOf(f, N, InitialSubsidy, step)
  BY <1>1, <1>4, LoopRuns
<1>6. \A n \in 0 .. N : f[n] = IF n = 0 THEN InitialSubsidy ELSE f[n - 1] \div 2
  <2>1. ASSUME NEW n \in 1 .. N PROVE f[n] = f[n - 1] \div 2
    <3>1. n - 1 \in 0 .. N
      BY <1>1
    <3>2. f[n - 1] \in Nat
      BY <1>5, <3>1
    <3>3. f[n] = step[n][f[n - 1]]
      BY <1>5 DEF LoopOf
    <3> QED BY <1>4, <3>2, <3>3
  <2>2. f[0] = InitialSubsidy
    BY <1>5 DEF LoopOf
  <2> QED BY <1>1, <2>1, <2>2
<1>7. Eqn(f)
  BY <1>5, <1>6 DEF N
<1>8. Eqn(EpochSubsidy)
  BY <1>2, <1>7
<1>9. EpochSubsidy[0] = InitialSubsidy
  BY <1>1, <1>8 DEF N
<1>10. \A e \in 0 .. N : e < N => EpochSubsidy[e + 1] = EpochSubsidy[e] \div 2
  <2> TAKE e \in 0 .. N
  <2> HAVE e < N
  <2>1. e + 1 \in 0 .. N /\ e + 1 # 0 /\ e + 1 - 1 = e
    BY <1>1
  <2> QED BY <1>8, <2>1 DEF N
<1> DEFINE S == {e \in 0 .. N : EpochSubsidy[e] \in Nat}
<1>11. 0 \in S
  BY <1>1, <1>9
<1>12. ASSUME NEW e \in 0 .. N, e < N, e \in S PROVE e + 1 \in S
  BY <1>1, <1>3, <1>10, <1>12
<1> HIDE DEF S
<1>13. 0 .. N \subseteq S
  BY <1>1, <1>11, <1>12, InductionUpTo
<1> QED BY <1>9, <1>10, <1>13 DEF N, S

\* The reward, halved where an epoch begins, is the subsidy of the height.
LEMMA RewardHalves ==
  ASSUME SubsidyAssumption, NEW h \in Nat
  PROVE  /\ subsidySats(h) \in Nat
         /\ subsidySats(h + 1) = IF (h + 1) % EpochBlocks = 0 THEN subsidySats(h) \div 2
                                 ELSE subsidySats(h)
<1> DEFINE q == h \div EpochBlocks
<1>1. q \in Nat /\ FinalEpoch \in Nat /\ FinalEpoch # 0
  BY EpochOf DEF SubsidyAssumption
<1>2. subsidySats(h) = IF q >= FinalEpoch THEN 0 ELSE EpochSubsidy[q]
  BY DEF subsidySats
<1>3. /\ (h + 1) % EpochBlocks = 0 => (h + 1) \div EpochBlocks = q + 1
      /\ (h + 1) % EpochBlocks # 0 => (h + 1) \div EpochBlocks = q
  BY NextEpoch
<1>4. subsidySats(h + 1) = IF (h + 1) \div EpochBlocks >= FinalEpoch THEN 0
                           ELSE EpochSubsidy[(h + 1) \div EpochBlocks]
  BY DEF subsidySats
<1> HIDE DEF q
<1>5. q < FinalEpoch => /\ q \in 0 .. FinalEpoch /\ EpochSubsidy[q] \in Nat
                        /\ EpochSubsidy[q + 1] = EpochSubsidy[q] \div 2
  <2> SUFFICES ASSUME q < FinalEpoch
               PROVE  /\ q \in 0 .. FinalEpoch /\ EpochSubsidy[q] \in Nat
                      /\ EpochSubsidy[q + 1] = EpochSubsidy[q] \div 2
    OBVIOUS
  <2>1. q \in 0 .. FinalEpoch
    BY <1>1
  <2> QED BY <2>1, SubsidyHalves
<1>6. subsidySats(h) \in Nat
  BY <1>1, <1>2, <1>5
<1>7. CASE (h + 1) % EpochBlocks # 0
  BY <1>2, <1>3, <1>4, <1>6, <1>7
<1>8. CASE (h + 1) % EpochBlocks = 0
  <2>1. CASE q >= FinalEpoch
    <3>1. q + 1 >= FinalEpoch /\ 0 \div 2 = 0
      BY <1>1, <2>1
    <3> QED BY <1>2, <1>3, <1>4, <1>8, <2>1, <3>1
  <2>2. CASE q < FinalEpoch
    <3>1. CASE q + 1 = FinalEpoch
      <4>1. EpochSubsidy[q + 1] = 0
        BY <3>1 DEF SubsidyAssumption
      <4>2. subsidySats(h + 1) = 0
        BY <1>1, <1>3, <1>4, <1>8, <3>1
      <4>3. subsidySats(h) = EpochSubsidy[q]
        BY <1>1, <1>2, <2>2
      <4> QED BY <1>5, <1>8, <2>2, <4>1, <4>2, <4>3
    <3>2. CASE q + 1 # FinalEpoch
      <4>1. ~ (q + 1 >= FinalEpoch) /\ ~ (q >= FinalEpoch)
        BY <1>1, <2>2, <3>2
      <4> QED BY <1>2, <1>3, <1>4, <1>5, <1>8, <2>2, <4>1
    <3> QED BY <3>1, <3>2
  <2> QED BY <1>1, <2>1, <2>2
<1> QED BY <1>6, <1>7, <1>8

\* The blocks of an epoch below a height: all, those into it, or none.
LEMMA BlocksOfEpoch ==
  ASSUME SubsidyAssumption, NEW h \in Nat, NEW e \in Nat
  PROVE  /\ BlocksIn(h, e) \in Nat
         /\ e < h \div EpochBlocks => BlocksIn(h, e) = EpochBlocks
         /\ e = h \div EpochBlocks => BlocksIn(h, e) = h % EpochBlocks
         /\ e > h \div EpochBlocks => BlocksIn(h, e) = 0
<1> DEFINE q == h \div EpochBlocks
           r == h % EpochBlocks
           since == h - e * EpochBlocks
<1>0. EpochBlocks \in Nat /\ EpochBlocks > 0
  BY DEF SubsidyAssumption
<1>1. q \in Nat /\ r \in Nat /\ r < EpochBlocks /\ h = EpochBlocks * q + r /\ EpochBlocks * q \in Nat
  BY <1>0, EpochOf
<1>2. e * EpochBlocks = EpochBlocks * e /\ EpochBlocks * e \in Nat
  BY <1>0
<1>3. BlocksIn(h, e) = IF since <= 0 THEN 0 ELSE IF since < EpochBlocks THEN since ELSE EpochBlocks
  BY DEF BlocksIn
<1>4. since = EpochBlocks * q + r - EpochBlocks * e /\ since \in Int
  BY <1>0, <1>1, <1>2
<1> HIDE DEF q, r, since
<1>5. ASSUME e < q PROVE since >= EpochBlocks
  <2>1. EpochBlocks * (e + 1) <= EpochBlocks * q
    <3>1. e + 1 \in Nat /\ e + 1 <= q
      BY <1>1, <1>5
    <3> QED BY <1>0, <1>1, <3>1, TimesMonotone
  <2>2. EpochBlocks * (e + 1) = EpochBlocks * e + EpochBlocks
    BY <1>0
  <2> QED BY <1>0, <1>1, <1>2, <1>4, <2>1, <2>2
<1>6. ASSUME e = q PROVE since = r
  BY <1>1, <1>4, <1>6
<1>7. ASSUME e > q PROVE since <= 0
  <2>1. EpochBlocks * (q + 1) <= EpochBlocks * e
    <3>1. q + 1 \in Nat /\ q + 1 <= e
      BY <1>1, <1>7
    <3> QED BY <1>0, <1>1, <3>1, TimesMonotone
  <2>2. EpochBlocks * (q + 1) = EpochBlocks * q + EpochBlocks
    BY <1>0, <1>1
  <2> QED BY <1>0, <1>1, <1>2, <1>4, <2>1, <2>2
<1>8. BlocksIn(h, e) \in Nat
  BY <1>0, <1>3, <1>4
<1>9. e < q => BlocksIn(h, e) = EpochBlocks
  BY <1>0, <1>3, <1>4, <1>5
<1>10. e = q => BlocksIn(h, e) = r
  BY <1>0, <1>1, <1>3, <1>6
<1>11. e > q => BlocksIn(h, e) = 0
  BY <1>3, <1>7
<1> QED BY <1>8, <1>9, <1>10, <1>11 DEF q, r

\* One more block is in the epoch of the height, and in no other.
LEMMA OneMoreBlock ==
  ASSUME SubsidyAssumption, NEW h \in Nat, NEW e \in Nat
  PROVE  BlocksIn(h + 1, e) = BlocksIn(h, e) + IF e = h \div EpochBlocks THEN 1 ELSE 0
<1> DEFINE q == h \div EpochBlocks
           r == h % EpochBlocks
           since == h - e * EpochBlocks
<1>0. EpochBlocks \in Nat /\ EpochBlocks > 0
  BY DEF SubsidyAssumption
<1>1. q \in Nat /\ r \in Nat /\ r < EpochBlocks /\ h = EpochBlocks * q + r /\ EpochBlocks * q \in Nat
  BY <1>0, EpochOf
<1>2. /\ BlocksIn(h, e) \in Nat
      /\ e < q => BlocksIn(h, e) = EpochBlocks
      /\ e = q => BlocksIn(h, e) = r
      /\ e > q => BlocksIn(h, e) = 0
  BY BlocksOfEpoch
<1>3. e * EpochBlocks \in Nat /\ since \in Int
  BY <1>0
<1>4. BlocksIn(h, e) = IF since <= 0 THEN 0 ELSE IF since < EpochBlocks THEN since ELSE EpochBlocks
  BY DEF BlocksIn
<1>5. (h + 1) - e * EpochBlocks = since + 1
  BY <1>3
<1>6. BlocksIn(h + 1, e)
        = IF since + 1 <= 0 THEN 0 ELSE IF since + 1 < EpochBlocks THEN since + 1 ELSE EpochBlocks
  BY <1>5 DEF BlocksIn
<1>7. e = q => since = r
  BY <1>0, <1>1
<1>8. e > q => since < 0
  <2> SUFFICES ASSUME e > q PROVE since < 0
    OBVIOUS
  <2> HIDE DEF q, r
  <2>1. EpochBlocks * (q + 1) <= EpochBlocks * e
    <3>1. q + 1 \in Nat /\ q + 1 <= e
      BY <1>1
    <3> QED BY <1>0, <1>1, <3>1, TimesMonotone
  <2>2. EpochBlocks * (q + 1) = EpochBlocks * q + EpochBlocks /\ EpochBlocks * e = e * EpochBlocks
    BY <1>0, <1>1
  <2> QED BY <1>0, <1>1, <1>3, <2>1, <2>2
<1> HIDE DEF q, r, since
<1>9. CASE e < q
  BY <1>0, <1>1, <1>2, <1>3, <1>4, <1>6, <1>9
<1>10. CASE e = q
  BY <1>0, <1>1, <1>2, <1>3, <1>4, <1>6, <1>7, <1>10
<1>11. CASE e > q
  BY <1>0, <1>1, <1>2, <1>3, <1>4, <1>6, <1>8, <1>11
<1>12. BlocksIn(h + 1, e) = BlocksIn(h, e) + IF e = q THEN 1 ELSE 0
  BY <1>1, <1>9, <1>10, <1>11
<1> QED BY <1>12 DEF q

\* The sats before each epoch, as the blocks below a height mint them.
StartsAt(h, start) ==
  /\ start[0] = 0
  /\ \A e \in 0 .. FinalEpoch : start[e] \in Nat
  /\ \A e \in 0 .. FinalEpoch : e < FinalEpoch => start[e + 1] = start[e] + BlocksIn(h, e) * EpochSubsidy[e]

\* The loop of firstSatOfBlock runs through all epochs.
LEMMA FirstSatRuns ==
  ASSUME SubsidyAssumption, NEW h \in Nat
  PROVE  \E start : StartsAt(h, start) /\ firstSatOfBlock(h) = start[FinalEpoch]
<1> DEFINE N == FinalEpoch
           minting(e) == BlocksIn(h, e) * EpochSubsidy[e]
           step == [n \in 1 .. N |-> [x \in Nat |-> x + minting(n - 1)]]
           Eqn(f) == f = [epoch \in 0 .. FinalEpoch |->
                            IF epoch = 0 THEN 0
                            ELSE f[epoch - 1] + BlocksIn(h, epoch - 1) * EpochSubsidy[epoch - 1]]
           start == CHOOSE f : Eqn(f)
<1>1. N \in Nat /\ 0 \in Nat
  BY DEF SubsidyAssumption
<1>2. firstSatOfBlock(h) = start[N]
  BY DEF firstSatOfBlock
<1> HIDE DEF N
<1>3. \A e \in 0 .. N : minting(e) \in Nat
  <2> TAKE e \in 0 .. N
  <2>1. e \in Nat /\ e \in 0 .. FinalEpoch
    BY <1>1 DEF N
  <2>2. BlocksIn(h, e) \in Nat /\ EpochSubsidy[e] \in Nat
    BY <2>1, BlocksOfEpoch, SubsidyHalves
  <2> QED BY <2>2
<1>4. \A n \in 1 .. N : minting(n - 1) \in Nat
  <2> TAKE n \in 1 .. N
  <2>1. n - 1 \in 0 .. N
    BY <1>1
  <2> HIDE DEF minting
  <2> QED BY <1>3, <2>1
<1> HIDE DEF minting
<1>5. /\ StaysIn(step, N, Nat)
      /\ \A n \in 1 .. N : \A x \in Nat : step[n][x] = x + minting(n - 1)
  BY <1>4 DEF StaysIn
<1> HIDE DEF step
<1>6. PICK f \in [0 .. N -> Nat] : LoopOf(f, N, 0, step)
  BY <1>1, <1>5, LoopRuns
<1>7. \A n \in 0 .. N : f[n] = IF n = 0 THEN 0 ELSE f[n - 1] + minting(n - 1)
  <2>1. ASSUME NEW n \in 1 .. N PROVE f[n] = f[n - 1] + minting(n - 1)
    <3>1. n - 1 \in 0 .. N
      BY <1>1
    <3>2. f[n - 1] \in Nat
      BY <1>6, <3>1
    <3>3. f[n] = step[n][f[n - 1]]
      BY <1>6 DEF LoopOf
    <3> QED BY <1>5, <3>2, <3>3
  <2>2. f[0] = 0
    BY <1>6 DEF LoopOf
  <2> QED BY <1>1, <2>1, <2>2
<1>8. Eqn(f)
  <2>1. \A n \in 0 .. N : f[n] = IF n = 0 THEN 0
                                ELSE f[n - 1] + BlocksIn(h, n - 1) * EpochSubsidy[n - 1]
    BY <1>7 DEF minting
  <2>2. f \in [0 .. N -> Nat]
    BY <1>6
  <2> QED BY <2>1, <2>2 DEF N
<1>9. Eqn(start)
  <2> HIDE DEF Eqn
  <2> QED BY <1>8
<1> HIDE DEF start
<1>10. start[0] = 0
  BY <1>1, <1>9 DEF N
<1>11. \A e \in 0 .. N : e < N => start[e + 1] = start[e] + minting(e)
  <2> TAKE e \in 0 .. N
  <2> HAVE e < N
  <2>1. e + 1 \in 0 .. N /\ e + 1 # 0 /\ e + 1 - 1 = e
    BY <1>1
  <2> QED BY <1>9, <2>1 DEF N, minting
<1> DEFINE S == {e \in 0 .. N : start[e] \in Nat}
<1>12. 0 \in S
  BY <1>1, <1>10
<1>13. ASSUME NEW e \in 0 .. N, e < N, e \in S PROVE e + 1 \in S
  <2>1. e + 1 \in 0 .. N
    BY <1>1, <1>13
  <2>2. start[e + 1] = start[e] + minting(e) /\ minting(e) \in Nat /\ start[e] \in Nat
    BY <1>3, <1>11, <1>13
  <2> QED BY <2>1, <2>2
<1> HIDE DEF S
<1>14. 0 .. N \subseteq S
  BY <1>1, <1>12, <1>13, InductionUpTo
<1>15. StartsAt(h, start)
  BY <1>10, <1>11, <1>14 DEF N, S, StartsAt, minting
<1> QED BY <1>2, <1>15 DEF N

\* What is below a height: the epochs before its own, and what is into that one.
LEMMA StartOfEpoch ==
  ASSUME SubsidyAssumption, NEW h \in Nat, NEW start, StartsAt(h, start),
         NEW k \in Nat, k < FinalEpoch
  PROVE  start[k + 1] = start[k] + BlocksIn(h, k) * EpochSubsidy[k]
<1>1. k \in 0 .. FinalEpoch
  BY DEF SubsidyAssumption
<1> QED BY <1>1 DEF StartsAt

\* A block mints its subsidy.
LEMMA NextFirstSat ==
  ASSUME SubsidyAssumption, NEW h \in Nat
  PROVE  firstSatOfBlock(h + 1) = firstSatOfBlock(h) + subsidySats(h) /\ firstSatOfBlock(h) \in Nat
<1> DEFINE q == h \div EpochBlocks
           N == FinalEpoch
<1>1. q \in Nat /\ N \in Nat /\ h + 1 \in Nat
  <2>1. q \in Nat
    BY EpochOf
  <2> HIDE DEF q
  <2> QED BY <2>1 DEF SubsidyAssumption
<1>2. PICK start : StartsAt(h, start) /\ firstSatOfBlock(h) = start[N]
  BY FirstSatRuns
<1>3. PICK next : StartsAt(h + 1, next) /\ firstSatOfBlock(h + 1) = next[N]
  BY <1>1, FirstSatRuns
<1>4. \A e \in 0 .. N : start[e] \in Nat /\ next[e] \in Nat /\ EpochSubsidy[e] \in Nat
  BY <1>2, <1>3, SubsidyHalves DEF StartsAt
<1> DEFINE more(e) == IF q < e THEN EpochSubsidy[q] ELSE 0
           S == {e \in 0 .. N : next[e] = start[e] + more(e)}
<1>5. 0 \in S
  BY <1>1, <1>2, <1>3 DEF StartsAt
<1>6. ASSUME NEW e \in 0 .. N, e < N, e \in S PROVE e + 1 \in S
  <2> DEFINE b == BlocksIn(h, e)
             s == EpochSubsidy[e]
  <2>1. start[e + 1] = start[e] + b * s /\ next[e + 1] = next[e] + BlocksIn(h + 1, e) * s
    BY <1>1, <1>2, <1>3, <1>6, StartOfEpoch
  <2>2. BlocksIn(h + 1, e) = b + IF e = q THEN 1 ELSE 0
    BY <1>6, OneMoreBlock
  <2>3. b \in Nat /\ s \in Nat /\ start[e] \in Nat /\ next[e] \in Nat /\ next[e] = start[e] + more(e)
    BY <1>4, <1>6, BlocksOfEpoch
  <2>4. (b + 1) * s = b * s + s /\ (b + 0) * s = b * s /\ b * s \in Nat
    <3> HIDE DEF b, s
    <3> QED BY <2>3
  <2>5. q \in 0 .. N => EpochSubsidy[q] \in Nat
    BY <1>4
  <2>6. next[e + 1] = start[e + 1] + more(e + 1)
    <3>1. CASE e = q
      BY <1>1, <2>1, <2>2, <2>3, <2>4, <2>5, <3>1
    <3>2. CASE e < q
      BY <1>1, <2>1, <2>2, <2>3, <2>4, <3>2
    <3>3. CASE e > q
      BY <1>1, <2>1, <2>2, <2>3, <2>4, <2>5, <3>3
    <3> QED BY <1>1, <3>1, <3>2, <3>3
  <2> QED BY <1>1, <1>6, <2>6
<1> HIDE DEF S
<1>7. N \in S
  BY <1>1, <1>5, <1>6, InductionUpTo
<1>8. next[N] = start[N] + more(N) /\ start[N] \in Nat
  BY <1>1, <1>4, <1>7 DEF S
<1>9. more(N) = subsidySats(h)
  BY <1>1 DEF subsidySats
<1> QED BY <1>2, <1>3, <1>8, <1>9

\* Where the count begins.
LEMMA NoSatBelowZero ==
  ASSUME SubsidyAssumption
  PROVE  firstSatOfBlock(0) = 0 /\ subsidySats(0) = InitialSubsidy
<1> DEFINE N == FinalEpoch
<1>1. N \in Nat /\ N > 0 /\ EpochBlocks \in Nat /\ EpochBlocks > 0
  BY DEF SubsidyAssumption
<1>2. 0 \div EpochBlocks = 0 /\ 0 % EpochBlocks = 0
  <2>1. 0 = EpochBlocks * 0 + 0 /\ 0 \in Nat
    BY <1>1
  <2> QED BY <1>1, <2>1, DivModUnique
<1>3. PICK start : StartsAt(0, start) /\ firstSatOfBlock(0) = start[N]
  BY FirstSatRuns
<1> DEFINE S == {e \in 0 .. N : start[e] = 0}
<1>4. 0 \in S
  BY <1>1, <1>3 DEF StartsAt
<1>5. ASSUME NEW e \in 0 .. N, e < N, e \in S PROVE e + 1 \in S
  <2>1. start[e + 1] = start[e] + BlocksIn(0, e) * EpochSubsidy[e] /\ start[e] = 0
    BY <1>1, <1>3, <1>5, StartOfEpoch
  <2>2. BlocksIn(0, e) = 0
    <3>1. 0 \in Nat /\ e \in Nat
      OBVIOUS
    <3>2. e = 0 \/ e > 0
      OBVIOUS
    <3> QED BY <1>2, <3>1, <3>2, BlocksOfEpoch
  <2>3. EpochSubsidy[e] \in Nat
    BY <1>5, SubsidyHalves
  <2> QED BY <1>1, <1>5, <2>1, <2>2, <2>3
<1> HIDE DEF S
<1>6. N \in S
  BY <1>1, <1>4, <1>5, InductionUpTo
<1>7. subsidySats(0) = EpochSubsidy[0]
  BY <1>1, <1>2 DEF subsidySats
<1> QED BY <1>3, <1>6, <1>7, SubsidyHalves DEF S

(* ------------------------- streams cut and joined ---------------------- *)

\* The pieces that a stream is cut into, one after another.
IsCut(pieces, stream, values) ==
  /\ Len(pieces) = Len(values)
  /\ \A v \in 1 .. Len(values) :
       /\ Len(pieces[v]) = values[v]
       /\ \A o \in 0 .. values[v] - 1 : pieces[v][o + 1] = stream[SumBefore(values, v) + o + 1]

\* Cut cuts: each output's sats are those of the stream at its place.
LEMMA CutPieces ==
  ASSUME NEW X, NEW stream \in Seq(X), NEW values \in Seq(Nat), Sum(values) <= Len(stream)
  PROVE  Cut(stream, values) \in Seq(Seq(X)) /\ IsCut(Cut(stream, values), stream, values)
<1> DEFINE piece(v) == SubSeq(stream, SumBefore(values, v) + 1, SumBefore(values, v + 1))
<1>1. DOMAIN values = 1 .. Len(values) /\ Len(values) \in Nat /\ Len(stream) \in Nat
  OBVIOUS
<1>2. Cut(stream, values) = [v \in 1 .. Len(values) |-> piece(v)]
  BY <1>1 DEF Cut
<1>3. ASSUME NEW v \in 1 .. Len(values)
      PROVE  /\ piece(v) \in Seq(X) /\ Len(piece(v)) = values[v]
             /\ \A o \in 0 .. values[v] - 1 : piece(v)[o + 1] = stream[SumBefore(values, v) + o + 1]
  <2> DEFINE m == SumBefore(values, v)
             w == values[v]
  <2>1. m \in Nat /\ w \in Nat /\ SumBefore(values, v + 1) = m + w
    BY PieceEnds
  <2>2. m + w <= Len(stream)
    <3>1. v + 1 \in 1 .. Len(values) + 1 /\ Len(values) + 1 \in 1 .. Len(values) + 1
          /\ v + 1 <= Len(values) + 1
      BY <1>1
    <3>2. SumBefore(values, v + 1) <= SumBefore(values, Len(values) + 1)
      BY <3>1, SumGrows
    <3>3. SumBefore(values, Len(values) + 1) = Sum(values) /\ Sum(values) \in Nat
      <4>1. 0 \in Nat
        OBVIOUS
      <4> QED BY <4>1, PieceIsFound DEF Sum
    <3> HIDE DEF m, w
    <3> QED BY <1>1, <2>1, <3>2, <3>3
  <2>3. piece(v) = SubSeq(stream, m + 1, m + w)
    BY <2>1
  <2> HIDE DEF m, w, piece
  <2>4. \A x \in m + 1 .. m + w : stream[x] \in X
    <3>1. \A x \in m + 1 .. m + w : x \in 1 .. Len(stream)
      BY <1>1, <2>1, <2>2
    <3>2. \A x \in 1 .. Len(stream) : stream[x] \in X
      BY ElementOfSeq
    <3> QED BY <3>1, <3>2
  <2>5. /\ piece(v) \in Seq(X) /\ Len(piece(v)) = IF m + 1 <= m + w THEN (m + w) - (m + 1) + 1 ELSE 0
        /\ \A x \in 1 .. (m + w) - (m + 1) + 1 : piece(v)[x] = stream[(m + 1) + x - 1]
    <3>1. m + 1 \in Int /\ m + w \in Int
      BY <2>1
    <3> QED BY <2>3, <2>4, <3>1, SubSeqProperties
  <2>7. piece(v) \in Seq(X) /\ Len(piece(v)) = w
    BY <2>1, <2>5
  <2>8. \A o \in 0 .. w - 1 : piece(v)[o + 1] = stream[m + o + 1]
    <3> TAKE o \in 0 .. w - 1
    <3>1. o + 1 \in 1 .. (m + w) - (m + 1) + 1 /\ (m + 1) + (o + 1) - 1 = m + o + 1
      BY <2>1
    <3> QED BY <2>5, <3>1
  <2> QED BY <2>7, <2>8 DEF m, w
<1> HIDE DEF piece
<1>4. Cut(stream, values) \in Seq(Seq(X)) /\ Len(Cut(stream, values)) = Len(values)
  BY <1>1, <1>2, <1>3
<1> QED BY <1>2, <1>3, <1>4 DEF IsCut

\* The sequences from the first to the n-th, joined.
Joins(seqs, f, X) ==
  /\ f[1] = seqs[1]
  /\ \A n \in 1 .. Len(seqs) : f[n] \in Seq(X)
  /\ \A n \in 1 .. Len(seqs) : n < Len(seqs) => f[n + 1] = f[n] \o seqs[n + 1]

\* FlattenSeq is a loop that appends one sequence after another.
LEMMA FlattenRuns ==
  ASSUME NEW X, NEW seqs \in Seq(Seq(X)), seqs # <<>>
  PROVE  \E f : Joins(seqs, f, X) /\ FlattenSeq(seqs) = f[Len(seqs)]
<1> DEFINE N == Len(seqs)
           M == N - 1
           V == Seq(X)
           step == [n \in 1 .. M |-> [x \in V |-> x \o seqs[n + 1]]]
           Eqn(f) == f = [i \in 1 .. Len(seqs) |-> IF i = 1 THEN seqs[i] ELSE f[i - 1] \o seqs[i]]
           flatten == CHOOSE f : Eqn(f)
<1>1. N \in Nat /\ N # 0 /\ M \in Nat /\ M + 1 = N
  OBVIOUS
<1>2. FlattenSeq(seqs) = flatten[N]
  BY <1>1 DEF FlattenSeq
<1>3. \A i \in 1 .. N : seqs[i] \in V
  BY ElementOfSeq
<1> HIDE DEF N, M
<1>4. ASSUME NEW n \in 1 .. M, NEW x \in V PROVE x \o seqs[n + 1] \in V
  <2>1. n + 1 \in 1 .. N
    BY <1>1
  <2>2. seqs[n + 1] \in Seq(X)
    BY <1>3, <2>1
  <2> QED BY <2>2
<1>5. seqs[1] \in V
  BY <1>1, <1>3
<1>6. /\ StaysIn(step, M, V)
      /\ \A n \in 1 .. M : \A x \in V : step[n][x] = x \o seqs[n + 1]
  <2> HIDE DEF V
  <2> QED BY <1>4 DEF StaysIn
<1> HIDE DEF V, step
<1>7. PICK g \in [0 .. M -> V] : LoopOf(g, M, seqs[1], step)
  BY <1>1, <1>5, <1>6, LoopRuns
<1> DEFINE h == [i \in 1 .. N |-> g[i - 1]]
<1>8. \A i \in 1 .. N : h[i] \in V
  <2>1. \A i \in 1 .. N : i - 1 \in 0 .. M
    BY <1>1
  <2> QED BY <1>7, <2>1
<1>9. \A i \in 1 .. N : h[i] = IF i = 1 THEN seqs[i] ELSE h[i - 1] \o seqs[i]
  <2> TAKE i \in 1 .. N
  <2>1. CASE i = 1
    <3>1. h[1] = g[0]
      BY <1>1
    <3> QED BY <1>7, <2>1, <3>1 DEF LoopOf
  <2>2. CASE i # 1
    <3>1. i - 1 \in 1 .. M /\ i - 1 \in 1 .. N /\ (i - 1) + 1 = i /\ (i - 1) - 1 \in 0 .. M
      BY <1>1, <2>2
    <3>2. g[i - 1] = step[i - 1][g[(i - 1) - 1]]
      BY <1>7, <3>1 DEF LoopOf
    <3>3. g[(i - 1) - 1] \in V
      BY <1>7, <3>1
    <3>4. h[i] = g[i - 1] /\ h[i - 1] = g[(i - 1) - 1]
      BY <3>1
    <3>5. g[i - 1] = g[(i - 1) - 1] \o seqs[(i - 1) + 1]
      BY <1>6, <3>1, <3>2, <3>3
    <3> HIDE DEF h
    <3> QED BY <2>2, <3>1, <3>4, <3>5
  <2> QED BY <2>1, <2>2
<1>10. h = [i \in 1 .. N |-> h[i]]
  OBVIOUS
<1> HIDE DEF h
<1>11. Eqn(h)
  BY <1>9, <1>10 DEF N
<1>12. Eqn(flatten)
  <2> HIDE DEF Eqn
  <2> QED BY <1>11
<1> HIDE DEF flatten
<1>13. flatten[1] = seqs[1]
  <2>1. 1 \in 1 .. N
    BY <1>1
  <2> QED BY <1>12, <2>1 DEF N
<1>14. \A n \in 1 .. N : n < N => flatten[n + 1] = flatten[n] \o seqs[n + 1]
  <2> TAKE n \in 1 .. N
  <2> HAVE n < N
  <2>1. n + 1 \in 1 .. N /\ n + 1 # 1 /\ n + 1 - 1 = n
    BY <1>1
  <2>2. \A k \in 1 .. N : k # 1 => flatten[k] = flatten[k - 1] \o seqs[k]
    BY <1>12 DEF N
  <2> DEFINE k == n + 1
  <2>3. k \in 1 .. N /\ k # 1 /\ k - 1 = n
    BY <2>1
  <2> HIDE DEF k
  <2>4. flatten[k] = flatten[k - 1] \o seqs[k]
    BY <2>2, <2>3
  <2>5. flatten[k] = flatten[n] \o seqs[k]
    BY <2>3, <2>4
  <2> QED BY <2>5 DEF k
<1> DEFINE S == {n \in 0 .. M : flatten[n + 1] \in V}
<1>15. 0 \in S
  BY <1>1, <1>5, <1>13
<1>16. ASSUME NEW n \in 0 .. M, n < M, n \in S PROVE n + 1 \in S
  <2>1. n + 1 \in 1 .. M /\ n + 1 \in 1 .. N /\ n + 1 < N /\ n + 1 \in 0 .. M
    BY <1>1, <1>16
  <2>2. flatten[n + 1] \in V
    BY <1>16
  <2>3. flatten[(n + 1) + 1] = flatten[n + 1] \o seqs[(n + 1) + 1]
    BY <1>14, <2>1
  <2> QED BY <1>4, <2>1, <2>2, <2>3
<1> HIDE DEF S
<1>17. 0 .. M \subseteq S
  BY <1>1, <1>15, <1>16, InductionUpTo
<1>18. \A n \in 1 .. N : flatten[n] \in V
  <2> TAKE n \in 1 .. N
  <2>1. n - 1 \in 0 .. M /\ (n - 1) + 1 = n
    BY <1>1
  <2>2. n - 1 \in S
    BY <1>17, <2>1
  <2>3. flatten[(n - 1) + 1] \in V
    BY <2>2 DEF S
  <2> QED BY <2>1, <2>3
<1>19. Joins(seqs, flatten, X)
  BY <1>13, <1>14, <1>18 DEF N, V, Joins
<1> QED BY <1>2, <1>19 DEF N

\* Every piece of the joined stream is at its own place.
Placed(seqs, values, stream, n) ==
  /\ Len(stream) = SumBefore(values, n + 1)
  /\ \A i \in 1 .. n : \A d \in 0 .. values[i] - 1 :
       stream[SumBefore(values, i) + d + 1] = seqs[i][d + 1]

\* One more sequence, at the end of those joined already.
LEMMA JoinOneMore ==
  ASSUME NEW X, NEW seqs \in Seq(Seq(X)), NEW values \in Seq(Nat), Len(values) = Len(seqs),
         \A i \in 1 .. Len(seqs) : Len(seqs[i]) = values[i],
         NEW n \in Nat, n < Len(seqs), NEW stream \in Seq(X), Placed(seqs, values, stream, n)
  PROVE  stream \o seqs[n + 1] \in Seq(X) /\ Placed(seqs, values, stream \o seqs[n + 1], n + 1)
<1> DEFINE k == n + 1
           longer == stream \o seqs[k]
           end == SumBefore(values, k)
<1>1. k \in 1 .. Len(values) /\ k \in Nat /\ n = k - 1
  OBVIOUS
<1>2. seqs[k] \in Seq(X) /\ Len(seqs[k]) = values[k] /\ Len(stream) = end
  <2>1. \A i \in 1 .. Len(seqs) : seqs[i] \in Seq(X)
    BY ElementOfSeq
  <2> QED BY <1>1, <2>1 DEF Placed
<1>3. end \in Nat /\ values[k] \in Nat /\ SumBefore(values, k + 1) = end + values[k]
  BY <1>1, PieceEnds
<1> HIDE DEF k
<1>4. /\ longer \in Seq(X) /\ Len(longer) = end + values[k]
      /\ \A x \in 1 .. end + values[k] :
           longer[x] = IF x <= end THEN stream[x] ELSE seqs[k][x - end]
  <2> DEFINE piece == seqs[k]
  <2> HIDE DEF piece
  <2>1. piece \in Seq(X) /\ Len(piece) = values[k]
    BY <1>2 DEF piece
  <2>2. stream \o piece \in Seq(X) /\ Len(stream \o piece) = Len(stream) + Len(piece)
    <3>1. stream \in Seq(X)
      OBVIOUS
    <3>2. stream \o piece \in Seq(X)
      BY <2>1, <3>1, ConcatProperties
    <3>3. Len(stream \o piece) = Len(stream) + Len(piece)
      BY <2>1, <3>1, ConcatProperties
    <3> QED BY <3>2, <3>3
  <2>3. \A x \in 1 .. Len(stream) + Len(piece) :
          (stream \o piece)[x] = IF x <= Len(stream) THEN stream[x] ELSE piece[x - Len(stream)]
    BY <2>1
  <2> HIDE DEF end
  <2> QED BY <1>2, <2>1, <2>2, <2>3 DEF piece
<1> HIDE DEF longer, end
<1>5. ASSUME NEW i \in 1 .. k, NEW d \in 0 .. values[i] - 1
      PROVE  longer[SumBefore(values, i) + d + 1] = seqs[i][d + 1]
  <2> DEFINE x == SumBefore(values, i) + d + 1
  <2>1. i \in 1 .. Len(values)
    BY <1>1
  <2>2. /\ i \in Nat /\ values[i] \in Nat /\ SumBefore(values, i) \in Nat
        /\ SumBefore(values, i + 1) = SumBefore(values, i) + values[i]
        /\ i < k => SumBefore(values, i + 1) <= end
    BY <1>1, <2>1, PieceEnds DEF end
  <2>3. CASE i < k
    <3>1. x \in 1 .. end + values[k] /\ x <= end
      <4> DEFINE a == SumBefore(values, i)
                 w == values[i]
      <4>1. a \in Nat /\ w \in Nat /\ a + w <= end /\ d \in 0 .. w - 1
        BY <2>2, <2>3
      <4> HIDE DEF a, w
      <4>2. a + d + 1 \in Nat /\ a + d + 1 <= end /\ 1 <= a + d + 1
        BY <1>3, <4>1
      <4>3. x \in Nat /\ x <= end /\ 1 <= x
        BY <4>2 DEF a
      <4> HIDE DEF x
      <4> QED BY <1>3, <4>3
    <3>2. longer[x] = stream[x]
      <4> HIDE DEF x
      <4> QED BY <1>4, <3>1
    <3>3. i \in 1 .. n
      BY <1>1, <2>2, <2>3
    <3> QED BY <3>2, <3>3 DEF Placed
  <2>4. CASE i = k
    <3>1. SumBefore(values, i) = end
      BY <2>4 DEF end
    <3>2. x \in 1 .. end + values[k] /\ ~ (x <= end) /\ x - end = d + 1
      BY <1>3, <2>2, <2>4, <3>1
    <3>3. longer[x] = seqs[k][x - end]
      <4> HIDE DEF x
      <4> QED BY <1>4, <3>2
    <3> QED BY <2>4, <3>2, <3>3
  <2> QED BY <1>1, <2>2, <2>3, <2>4
<1>6. Placed(seqs, values, longer, k)
  BY <1>3, <1>4, <1>5 DEF Placed
<1> QED BY <1>4, <1>6 DEF k, longer

\* Each sequence is found in the joined one at the place its lengths give it.
LEMMA FlattenPieces ==
  ASSUME NEW X, NEW seqs \in Seq(Seq(X)), seqs # <<>>, NEW values \in Seq(Nat),
         Len(values) = Len(seqs), \A i \in 1 .. Len(seqs) : Len(seqs[i]) = values[i]
  PROVE  FlattenSeq(seqs) \in Seq(X) /\ Placed(seqs, values, FlattenSeq(seqs), Len(values))
<1> DEFINE N == Len(seqs)
           M == N - 1
<1>1. N \in Nat /\ N # 0 /\ M \in Nat /\ M + 1 = N /\ N = Len(values)
  OBVIOUS
<1>2. PICK f : Joins(seqs, f, X) /\ FlattenSeq(seqs) = f[N]
  BY FlattenRuns
<1> DEFINE S == {n \in 0 .. M : Placed(seqs, values, f[n + 1], n + 1)}
<1>3. 0 \in S
  <2>1. f[1] = seqs[1] /\ 1 \in 1 .. Len(values) /\ Len(seqs[1]) = values[1]
    BY <1>1, <1>2 DEF Joins
  <2>2. SumBefore(values, 1) = 0 /\ SumBefore(values, 1 + 1) = SumBefore(values, 1) + values[1]
    BY <2>1, SumRuns
  <2>3. values[1] \in Nat
    BY <2>1
  <2>4. Placed(seqs, values, f[1], 1)
    BY <2>1, <2>2, <2>3 DEF Placed
  <2>5. 0 + 1 = 1 /\ 0 \in 0 .. M
    BY <1>1
  <2> QED BY <2>4, <2>5
<1>4. ASSUME NEW n \in 0 .. M, n < M, n \in S PROVE n + 1 \in S
  <2> DEFINE k == n + 1
  <2>1. k \in Nat /\ k \in 1 .. N /\ k < N /\ k \in 0 .. M
    BY <1>1, <1>4
  <2>2. Placed(seqs, values, f[k], k)
    BY <1>4
  <2> HIDE DEF k
  <2>3. f[k] \in Seq(X) /\ f[k + 1] = f[k] \o seqs[k + 1]
    BY <1>2, <2>1 DEF Joins
  <2>4. Placed(seqs, values, f[k + 1], k + 1)
    BY <2>1, <2>2, <2>3, JoinOneMore
  <2> QED BY <2>1, <2>4 DEF k
<1> HIDE DEF S, M
<1>5. M \in S
  <2>1. M \in Nat /\ M \in 0 .. M
    BY <1>1
  <2>2. 0 .. M \subseteq S
    BY <1>3, <1>4, <2>1, InductionUpTo
  <2> QED BY <2>1, <2>2
<1>6. Placed(seqs, values, f[N], N) /\ f[N] \in Seq(X)
  <2>1. Placed(seqs, values, f[M + 1], M + 1)
    BY <1>5 DEF S
  <2>2. N \in 1 .. Len(seqs)
    BY <1>1
  <2> QED BY <1>1, <1>2, <2>1, <2>2 DEF Joins
<1> QED BY <1>1, <1>2, <1>6

(* ------------------------------ the steps ------------------------------ *)

\* A transaction is added to the chain, the others stay as they are.
Added(tx, held) == txs' = Append(txs, tx) /\ holds' = Append(holds, held)

OthersStay ==
  /\ Len(txs') = Len(txs) + 1 /\ Len(holds') = Len(txs) + 1
  /\ txs' \in Seq(Transactions) /\ holds' \in Seq(Seq(Seq(Sats)))
  /\ \A t \in 1 .. Len(txs) : txs'[t] = txs[t] /\ holds'[t] = holds[t]

\* A new transaction is the last; the ones before it keep their places.
LEMMA AddedLast ==
  ASSUME TxsOK, NEW tx \in Transactions, NEW held \in Seq(Seq(Sats)), Added(tx, held)
  PROVE  OthersStay /\ txs'[Len(txs) + 1] = tx /\ holds'[Len(txs) + 1] = held
<1>1. txs \in Seq(Transactions) /\ holds \in Seq(Seq(Seq(Sats))) /\ Len(holds) = Len(txs)
  BY DEF TxsOK
<1>2. /\ txs' \in Seq(Transactions) /\ Len(txs') = Len(txs) + 1
      /\ \A t \in 1 .. Len(txs) : txs'[t] = txs[t]
      /\ txs'[Len(txs) + 1] = tx
  BY <1>1, AppendProperties DEF Added
<1>3. /\ holds' \in Seq(Seq(Seq(Sats))) /\ Len(holds') = Len(txs) + 1
      /\ \A t \in 1 .. Len(txs) : holds'[t] = holds[t]
      /\ holds'[Len(txs) + 1] = held
  BY <1>1, AppendProperties DEF Added
<1> QED BY <1>2, <1>3 DEF OthersStay

\* An output stays one,
LEMMA OutputStays ==
  ASSUME TxsOK, OthersStay, NEW n \in Nat, n <= Len(txs), NEW from, IsOutput(n, from)
  PROVE  /\ IsOutput(n, from)' /\ txs'[from.tx] = txs[from.tx] /\ Held(from)' = Held(from)
<1>1. from.tx \in 1 .. Len(txs)
  BY TxsInOrder DEF IsOutput
<1>2. txs'[from.tx] = txs[from.tx] /\ holds'[from.tx] = holds[from.tx]
  BY <1>1 DEF OthersStay
<1> QED BY <1>2 DEF IsOutput, Held

\* and every earlier transaction is as good as it was.
LEMMA TxStays ==
  ASSUME TxsOK, OthersStay, NEW t \in 1 .. Len(txs)
  PROVE  TxOK(t)'
<1> DEFINE inputs == txs[t].inputs
<1>1. TxOK(t) /\ txs'[t] = txs[t] /\ holds'[t] = holds[t]
  BY TxFacts DEF OthersStay
<1>2. Filled(t)'
  BY <1>1 DEF TxOK, Filled
<1>3. ASSUME NEW i \in 1 .. Len(inputs), NEW from, from = inputs[i]
      PROVE  /\ IsOutput(t - 1, from)' /\ txs'[from.tx] = txs[from.tx]
             /\ Held(from)' = Held(from)
  <2>1. t - 1 \in Nat /\ t - 1 <= Len(txs)
    BY TxsInOrder
  <2>2. IsOutput(t - 1, from)
    BY <1>3, InputValue
  <2> HIDE DEF inputs
  <2> QED BY <1>1, <2>1, <2>2, OutputStays
<1>4. \A i \in 1 .. Len(txs'[t].inputs) : IsOutput(t - 1, txs[t].inputs[i])'
  BY <1>1, <1>3 DEF IsOutput
<1>5. CASE txs[t].coinbase
  <2>1. txs'[t].height \in Nat /\ Minted(t)'
    BY <1>1, <1>5 DEF TxOK, Minted
  <2> QED BY <1>1, <1>2, <1>4, <1>5, <2>1 DEF TxOK
<1>6. CASE ~txs[t].coinbase
  <2>1. ValuesOf(txs', txs'[t]) = ValuesOf(txs, txs[t])
    <3>1. DOMAIN inputs = 1 .. Len(inputs)
      BY InputsInOrder
    <3>2. \A i \in DOMAIN inputs : txs'[inputs[i].tx] = txs[inputs[i].tx]
      BY <1>3, <3>1
    <3> QED BY <1>1, <3>2 DEF ValuesOf
  <2>2. \A i \in 1 .. Len(inputs) :
          holds'[inputs[i].tx][inputs[i].vout] = holds[inputs[i].tx][inputs[i].vout]
    BY <1>3 DEF Held
  <2>3. Fifo(t)
    BY <1>1, <1>6 DEF TxOK
  <2> DEFINE values == ValuesOf(txs, txs[t])
             outputs == txs[t].outputs
  <2>5. IsInjective(inputs) /\ Sum(outputs) <= Sum(values)
    BY <2>3 DEF Fifo
  <2>6. \A i \in 1 .. Len(inputs), v \in 1 .. Len(outputs) :
          \A d \in 0 .. values[i] - 1, o \in 0 .. outputs[v] - 1 :
            SumBefore(values, i) + d = SumBefore(outputs, v) + o
              => holds[t][v][o + 1] = holds[inputs[i].tx][inputs[i].vout][d + 1]
    BY <2>3 DEF Fifo, Held
  <2>7. \A i \in 1 .. Len(inputs), v \in 1 .. Len(outputs) :
          \A d \in 0 .. values[i] - 1, o \in 0 .. outputs[v] - 1 :
            SumBefore(values, i) + d = SumBefore(outputs, v) + o
              => holds'[t][v][o + 1] = holds'[inputs[i].tx][inputs[i].vout][d + 1]
    <3> HIDE DEF inputs, values, outputs
    <3> TAKE i \in 1 .. Len(inputs), v \in 1 .. Len(outputs)
    <3> TAKE d \in 0 .. values[i] - 1, o \in 0 .. outputs[v] - 1
    <3> HAVE SumBefore(values, i) + d = SumBefore(outputs, v) + o
    <3>1. holds[t][v][o + 1] = holds[inputs[i].tx][inputs[i].vout][d + 1]
      BY <2>6
    <3>2. holds'[inputs[i].tx][inputs[i].vout] = holds[inputs[i].tx][inputs[i].vout]
      BY <2>2
    <3>3. holds'[t] = holds[t]
      BY <1>1
    <3> QED BY <3>1, <3>2, <3>3
  <2>8. inputs = txs'[t].inputs /\ outputs = txs'[t].outputs /\ values = ValuesOf(txs', txs'[t])
    BY <1>1, <2>1
  <2> HIDE DEF inputs, values, outputs
  <2>4. Fifo(t)'
    BY <2>5, <2>7, <2>8 DEF Fifo, Held
  <2> QED BY <1>1, <1>2, <1>4, <1>6, <2>4 DEF TxOK
<1> QED BY <1>5, <1>6

\* So only the transaction that is added is left to look at.
LEMMA OneMoreTx ==
  ASSUME TxsOK, OthersStay, NEW n \in Nat, n = Len(txs), TxOK(n + 1)'
  PROVE  TxsOK'
<1>1. \A t \in 1 .. n : TxOK(t)'
  BY TxStays
<1>2. \A t \in 1 .. n + 1 : TxOK(t)'
  BY <1>1
<1> QED BY <1>2 DEF TxsOK, OthersStay

\* What the inputs of a spend hold, one after another.
Joined(inputs) == FlattenSeq([i \in DOMAIN inputs |-> Held(inputs[i])])
Worth(inputs) == [i \in DOMAIN inputs |-> txs[inputs[i].tx].outputs[inputs[i].vout]]

\* What a spendable output holds, with its type.
LEMMA HeldSats ==
  ASSUME TxsOK, NEW from, IsOutput(Len(txs), from)
  PROVE  /\ Held(from) \in Seq(Sats) /\ Len(Held(from)) = txs[from.tx].outputs[from.vout]
         /\ txs[from.tx].outputs[from.vout] \in Nat
<1>1. from.tx \in 1 .. Len(txs) /\ from.vout \in 1 .. Len(txs[from.tx].outputs)
  BY DEF IsOutput
<1>2. Filled(from.tx) /\ holds[from.tx] \in Seq(Seq(Sats)) /\ txs[from.tx].outputs \in Seq(Nat)
  BY <1>1, TxFacts DEF TxOK
<1>3. from.vout \in 1 .. Len(holds[from.tx])
  BY <1>1, <1>2 DEF Filled
<1>4. holds[from.tx][from.vout] \in Seq(Sats)
  BY <1>2, <1>3, ElementOfSeq
<1>5. txs[from.tx].outputs[from.vout] \in Nat
  BY <1>1, <1>2, ElementOfSeq
<1> QED BY <1>4, <1>5, HeldByOutput DEF Held

\* The stream a transaction spends: each input's sats at its values' place.
LEMMA JoinedInputs ==
  ASSUME TxsOK, NEW inputs, NEW n \in Nat, DOMAIN inputs = 1 .. n, n # 0, Len(inputs) = n,
         \A i \in 1 .. n : IsOutput(Len(txs), inputs[i])
  PROVE  /\ Worth(inputs) \in Seq(Nat) /\ Len(Worth(inputs)) = n
         /\ Joined(inputs) \in Seq(Sats) /\ Len(Joined(inputs)) = Sum(Worth(inputs))
         /\ \A i \in 1 .. n : \A d \in 0 .. Worth(inputs)[i] - 1 :
              Joined(inputs)[SumBefore(Worth(inputs), i) + d + 1] = Held(inputs[i])[d + 1]
<1> DEFINE seqs == [i \in 1 .. n |-> Held(inputs[i])]
           values == Worth(inputs)
<1>1. \A i \in 1 .. n : /\ Held(inputs[i]) \in Seq(Sats)
                        /\ Len(Held(inputs[i])) = txs[inputs[i].tx].outputs[inputs[i].vout]
                        /\ txs[inputs[i].tx].outputs[inputs[i].vout] \in Nat
  BY HeldSats
<1>2. seqs \in Seq(Seq(Sats)) /\ Len(seqs) = n /\ seqs # <<>>
  <2>1. seqs \in [1 .. n -> Seq(Sats)]
    BY <1>1
  <2>2. Len(seqs) = n
    OBVIOUS
  <2>3. seqs \in Seq(Seq(Sats))
    <3> HIDE DEF seqs
    <3> QED BY <2>1
  <2> QED BY <2>2, <2>3
<1>3. values = [i \in 1 .. n |-> txs[inputs[i].tx].outputs[inputs[i].vout]]
  BY DEF Worth
<1> HIDE DEF values
<1>4. values \in Seq(Nat) /\ Len(values) = n
  BY <1>1, <1>3
<1>5. \A i \in 1 .. n : seqs[i] = Held(inputs[i]) /\ Len(seqs[i]) = values[i]
  BY <1>1, <1>3
<1>6. Joined(inputs) = FlattenSeq(seqs)
  BY DEF Joined
<1> HIDE DEF seqs
<1>7. FlattenSeq(seqs) \in Seq(Sats) /\ Placed(seqs, values, FlattenSeq(seqs), n)
  BY <1>2, <1>4, <1>5, FlattenPieces
<1>8. Len(Joined(inputs)) = Sum(values)
  BY <1>4, <1>6, <1>7 DEF Placed, Sum
<1>9. \A i \in 1 .. n : \A d \in 0 .. values[i] - 1 :
        Joined(inputs)[SumBefore(values, i) + d + 1] = Held(inputs[i])[d + 1]
  BY <1>5, <1>6, <1>7 DEF Placed
<1> QED BY <1>4, <1>6, <1>7, <1>8, <1>9 DEF values

\* The outpoints that are unspent stay outputs, and so are those that are added.
LEMMA UnspentAreOutputs ==
  ASSUME TxsOK, OthersStay, NEW n \in Nat, n = Len(txs), NEW tx \in Transactions,
         txs'[n + 1] = tx, NEW spent,
         unspent \subseteq [tx : Nat, vout : Nat],
         \A outpoint \in unspent : IsOutput(Len(txs), outpoint),
         unspent' = (unspent \ spent) \cup {Outpoint(n + 1, v) : v \in DOMAIN tx.outputs}
  PROVE  /\ (unspent \subseteq [tx : Nat, vout : Nat])'
         /\ \A outpoint \in unspent' : IsOutput(Len(txs), outpoint)'
<1>1. Len(txs') = n + 1 /\ tx.outputs \in Seq(Nat)
  BY DEF OthersStay, Transactions
<1>2. DOMAIN tx.outputs = 1 .. Len(tx.outputs)
  BY <1>1
<1> SUFFICES ASSUME NEW outpoint \in unspent'
             PROVE  outpoint \in [tx : Nat, vout : Nat] /\ IsOutput(Len(txs), outpoint)'
  OBVIOUS
<1>3. CASE outpoint \in unspent
  <2>1. IsOutput(n, outpoint)
    BY <1>3
  <2>2. outpoint.tx \in 1 .. n /\ IsOutput(n, outpoint)'
    BY <2>1, OutputStays DEF IsOutput
  <2>3. outpoint.tx \in 1 .. n + 1
    BY <2>2
  <2> QED BY <1>1, <1>3, <2>2, <2>3 DEF IsOutput
<1>4. CASE outpoint \notin unspent
  <2>1. PICK v \in DOMAIN tx.outputs : outpoint = Outpoint(n + 1, v)
    BY <1>4
  <2>2. outpoint.tx = n + 1 /\ outpoint.vout = v /\ v \in 1 .. Len(tx.outputs)
    BY <1>2, <2>1 DEF Outpoint
  <2>3. IsOutput(Len(txs), outpoint)'
    BY <1>1, <2>2 DEF IsOutput
  <2>4. outpoint \in [tx : Nat, vout : Nat]
    BY <1>1, <2>1, <2>2 DEF Outpoint
  <2> QED BY <2>3, <2>4
<1> QED BY <1>3, <1>4

\* The fees of the block under way, with those of one more spend.
LEMMA FeesStay ==
  ASSUME fees \in Seq(Sats), \A i \in 1 .. Len(fees) : fees[i].fee, NEW rest \in Seq(Sats),
         fees' = fees \o [i \in 1 .. Len(rest) |-> [rest[i] EXCEPT !.fee = TRUE]]
  PROVE  fees' \in Seq(Sats) /\ \A i \in 1 .. Len(fees') : fees'[i].fee
<1> DEFINE paid == [i \in 1 .. Len(rest) |-> [rest[i] EXCEPT !.fee = TRUE]]
<1>1. \A i \in 1 .. Len(rest) : rest[i] \in Sats
  BY ElementOfSeq
<1>2. Len(rest) \in Nat /\ \A i \in 1 .. Len(rest) : paid[i] \in Sats /\ paid[i].fee
  <2>1. ASSUME NEW held \in Sats
        PROVE  [held EXCEPT !.fee = TRUE] \in Sats /\ [held EXCEPT !.fee = TRUE].fee
    BY DEF Sats
  <2>2. ASSUME NEW i \in 1 .. Len(rest) PROVE paid[i] \in Sats /\ paid[i].fee
    <3>1. paid[i] = [rest[i] EXCEPT !.fee = TRUE]
      OBVIOUS
    <3> HIDE DEF paid
    <3> QED BY <1>1, <2>1, <3>1
  <2> QED BY <2>2
<1>3. paid \in Seq(Sats) /\ Len(paid) = Len(rest)
  <2>1. paid \in [1 .. Len(rest) -> Sats]
    BY <1>2
  <2>2. Len(paid) = Len(rest)
    BY <1>2
  <2>3. paid \in Seq(Sats)
    <3> HIDE DEF paid
    <3> QED BY <1>2, <2>1
  <2> QED BY <2>2, <2>3
<1> HIDE DEF paid
<1>4. /\ fees \o paid \in Seq(Sats) /\ Len(fees \o paid) = Len(fees) + Len(paid)
      /\ \A i \in 1 .. Len(fees) + Len(paid) :
           (fees \o paid)[i] = IF i <= Len(fees) THEN fees[i] ELSE paid[i - Len(fees)]
  BY <1>3, ConcatProperties
<1>5. fees' = fees \o paid /\ Len(fees) \in Nat
  BY DEF paid
<1>6. ASSUME NEW i \in 1 .. Len(fees) + Len(paid) PROVE (fees \o paid)[i].fee
  <2>1. CASE i <= Len(fees)
    <3>1. (fees \o paid)[i] = fees[i] /\ i \in 1 .. Len(fees)
      BY <1>4, <1>5, <2>1
    <3> QED BY <3>1
  <2>2. CASE ~ (i <= Len(fees))
    <3>1. (fees \o paid)[i] = paid[i - Len(fees)]
      BY <1>4, <2>2
    <3>2. i - Len(fees) \in 1 .. Len(rest)
      BY <1>2, <1>3, <1>5, <2>2
    <3> QED BY <1>2, <3>1, <3>2
  <2> QED BY <2>1, <2>2
<1> QED BY <1>4, <1>5, <1>6

\* What is left of a stream.
LEMMA RestOfStream ==
  ASSUME NEW X, NEW stream \in Seq(X), NEW values \in Seq(Nat)
  PROVE  Rest(stream, values) \in Seq(X)
<1> DEFINE m == Sum(values) + 1
<1>1. m \in Int /\ m >= 1
  <2>1. Sum(values) \in Nat
    BY SumIsNatural
  <2> QED BY <2>1
<1>2. Len(stream) \in Int
  OBVIOUS
<1> HIDE DEF m
<1>3. \A i \in m .. Len(stream) : stream[i] \in X
  <2>1. \A i \in m .. Len(stream) : i \in 1 .. Len(stream)
    BY <1>1, <1>2
  <2> QED BY <2>1, ElementOfSeq
<1>4. SubSeq(stream, m, Len(stream)) \in Seq(X)
  BY <1>1, <1>2, <1>3, SubSeqProperties
<1> QED BY <1>4 DEF Rest, m

\* A sequence of members of another set is a sequence over that set.
LEMMA SeqInto ==
  ASSUME NEW S, NEW T, NEW s \in Seq(S), \A i \in 1 .. Len(s) : s[i] \in T
  PROVE  s \in Seq(T)
<1>1. Len(s) \in Nat /\ s = [i \in 1 .. Len(s) |-> s[i]]
  OBVIOUS
<1> QED BY <1>1

\* A spend keeps the invariant: its outputs are filled first in, first out.
LEMMA SpendKeeps ==
  ASSUME LedgerInv, NEW inputs \in Seq(unspent), NEW outputs \in Seq(Nat), Spend(inputs, outputs)
  PROVE  LedgerInv'
<1>1. /\ TxsOK /\ Len(txs) \in Nat /\ unspent \subseteq [tx : Nat, vout : Nat]
      /\ \A outpoint \in unspent : IsOutput(Len(txs), outpoint)
      /\ fees \in Seq(Sats) /\ \A i \in 1 .. Len(fees) : fees[i].fee
  BY TxsInOrder DEF LedgerInv
<1> PICK n \in Nat : n = Len(txs)
  BY <1>1
<1> DEFINE stream == Joined(inputs)
           values == Worth(inputs)
           held == Cut(stream, outputs)
           tx == [inputs |-> inputs, outputs |-> outputs, coinbase |-> FALSE, height |-> -1]
<1>2. /\ inputs # <<>> /\ IsInjective(inputs) /\ Sum(outputs) <= Len(stream)
      /\ txs' = Append(txs, tx) /\ holds' = Append(holds, held)
      /\ unspent' = (unspent \ ToSet(inputs)) \cup {Outpoint(Len(txs) + 1, v) : v \in DOMAIN outputs}
      /\ fees' = fees \o [i \in 1 .. Len(Rest(stream, outputs)) |->
                            [Rest(stream, outputs)[i] EXCEPT !.fee = TRUE]]
      /\ UNCHANGED <<minted, height, reward>>
  BY DEF Spend, Transact, Joined
<1>3. DOMAIN inputs = 1 .. Len(inputs) /\ Len(inputs) \in Nat /\ Len(inputs) # 0
  BY <1>2
<1>4. \A i \in 1 .. Len(inputs) : inputs[i] \in unspent /\ IsOutput(n, inputs[i])
  <2>1. \A i \in 1 .. Len(inputs) : inputs[i] \in unspent
    BY ElementOfSeq
  <2> QED BY <1>1, <2>1
<1>5. /\ values \in Seq(Nat) /\ Len(values) = Len(inputs)
      /\ stream \in Seq(Sats) /\ Len(stream) = Sum(values)
      /\ \A i \in 1 .. Len(inputs) : \A d \in 0 .. values[i] - 1 :
           stream[SumBefore(values, i) + d + 1] = Held(inputs[i])[d + 1]
  <2> HIDE DEF values, stream
  <2>1. \A i \in 1 .. Len(inputs) : IsOutput(Len(txs), inputs[i])
    BY <1>4
  <2> QED BY <1>1, <1>3, <2>1, JoinedInputs DEF values, stream
<1> HIDE DEF stream
<1>6. held \in Seq(Seq(Sats)) /\ IsCut(held, stream, outputs)
  <2>1. stream \in Seq(Sats) /\ Sum(outputs) <= Len(stream)
    BY <1>2, <1>5
  <2> QED BY <2>1, CutPieces
<1> HIDE DEF held
<1>7. tx \in Transactions
  <2>1. inputs \in Seq([tx : Nat, vout : Nat])
    <3>1. \A i \in 1 .. Len(inputs) : inputs[i] \in [tx : Nat, vout : Nat]
      BY <1>1, <1>4
    <3> QED BY <3>1, SeqInto
  <2> QED BY <2>1 DEF Transactions
<1>8. tx.inputs = inputs /\ tx.outputs = outputs /\ tx.coinbase = FALSE
  OBVIOUS
<1> HIDE DEF tx
<1>9. OthersStay /\ txs'[n + 1] = tx /\ holds'[n + 1] = held
  BY <1>1, <1>2, <1>6, <1>7, AddedLast DEF Added
<1>10. \A i \in 1 .. Len(inputs) :
         /\ IsOutput(n, inputs[i])' /\ txs'[inputs[i].tx] = txs[inputs[i].tx]
         /\ holds'[inputs[i].tx][inputs[i].vout] = Held(inputs[i])
  <2> TAKE i \in 1 .. Len(inputs)
  <2>1. IsOutput(n, inputs[i]) /\ n <= Len(txs)
    BY <1>4
  <2>2. /\ IsOutput(n, inputs[i])' /\ txs'[inputs[i].tx] = txs[inputs[i].tx]
        /\ Held(inputs[i])' = Held(inputs[i])
    BY <1>1, <1>9, <2>1, OutputStays
  <2> QED BY <2>2 DEF Held
<1>11. ValuesOf(txs', txs'[n + 1]) = values
  BY <1>3, <1>8, <1>9, <1>10 DEF ValuesOf, Worth
<1> HIDE DEF values
<1>12. Fifo(n + 1)'
  <2>1. \A i \in 1 .. Len(inputs), v \in 1 .. Len(outputs) :
          \A d \in 0 .. values[i] - 1, o \in 0 .. outputs[v] - 1 :
            SumBefore(values, i) + d = SumBefore(outputs, v) + o
              => holds'[n + 1][v][o + 1] = holds'[inputs[i].tx][inputs[i].vout][d + 1]
    <3> TAKE i \in 1 .. Len(inputs), v \in 1 .. Len(outputs)
    <3> TAKE d \in 0 .. values[i] - 1, o \in 0 .. outputs[v] - 1
    <3> HAVE SumBefore(values, i) + d = SumBefore(outputs, v) + o
    <3>1. held[v][o + 1] = stream[SumBefore(outputs, v) + o + 1]
      BY <1>6 DEF IsCut
    <3>2. stream[SumBefore(values, i) + d + 1] = Held(inputs[i])[d + 1]
      BY <1>5
    <3>3. holds'[n + 1] = held
      BY <1>9
    <3> QED BY <1>10, <3>1, <3>2, <3>3
  <2>2. inputs = txs'[n + 1].inputs /\ outputs = txs'[n + 1].outputs /\ values = ValuesOf(txs', txs'[n + 1])
    BY <1>8, <1>9, <1>11
  <2>3. Sum(outputs) <= Sum(values) /\ IsInjective(inputs)
    BY <1>2, <1>5
  <2> QED BY <2>1, <2>2, <2>3 DEF Fifo, Held
<1>13. TxOK(n + 1)'
  <2>1. Filled(n + 1)'
    BY <1>6, <1>8, <1>9 DEF Filled, IsCut
  <2>2. \A i \in 1 .. Len(inputs) : IsOutput((n + 1) - 1, inputs[i])'
    <3>1. (n + 1) - 1 = n
      OBVIOUS
    <3> QED BY <1>10, <3>1 DEF IsOutput
  <2> QED BY <1>8, <1>9, <1>12, <2>1, <2>2 DEF TxOK, IsOutput
<1>14. TxsOK'
  <2> QED BY <1>1, <1>9, <1>13, OneMoreTx
<1>15. /\ (unspent \subseteq [tx : Nat, vout : Nat])'
       /\ \A outpoint \in unspent' : IsOutput(Len(txs), outpoint)'
  <2>1. unspent' = (unspent \ ToSet(inputs)) \cup {Outpoint(n + 1, v) : v \in DOMAIN tx.outputs}
    BY <1>2, <1>8
  <2> QED BY <1>1, <1>7, <1>9, <2>1, UnspentAreOutputs
<1>16. fees' \in Seq(Sats) /\ \A i \in 1 .. Len(fees') : fees'[i].fee
  <2>1. Rest(stream, outputs) \in Seq(Sats)
    BY <1>5, RestOfStream
  <2> QED BY <1>1, <1>2, <2>1, FeesStay
<1> QED BY <1>2, <1>14, <1>15, <1>16 DEF LedgerInv, MintedAt

\* Two streams joined, by positions counted from 0.
Follows(both, s, m, r, k) ==
  /\ Len(both) = m + k
  /\ \A p \in 0 .. m + k - 1 :
       /\ p < m => p + 1 \in 1 .. m /\ both[p + 1] = s[p + 1]
       /\ p >= m => p - m \in 0 .. k - 1 /\ both[p + 1] = r[(p - m) + 1]

\* Where the members of two joined streams are.
LEMMA JoinedAt ==
  ASSUME NEW X, NEW s \in Seq(X), NEW r \in Seq(X)
  PROVE  s \o r \in Seq(X) /\ Follows(s \o r, s, Len(s), r, Len(r))
<1> DEFINE m == Len(s)
           k == Len(r)
<1>1. m \in Nat /\ k \in Nat
  OBVIOUS
<1>2. s \o r \in Seq(X) /\ Len(s \o r) = m + k
  BY ConcatProperties
<1>3. \A i \in 1 .. m + k : (s \o r)[i] = IF i <= m THEN s[i] ELSE r[i - m]
  BY ConcatProperties
<1> DEFINE both == s \o r
<1>4. \A i \in 1 .. m + k : both[i] = IF i <= m THEN s[i] ELSE r[i - m]
  BY <1>3
<1> HIDE DEF m, k, both
<1>5. ASSUME NEW p \in 0 .. m + k - 1
      PROVE  /\ p < m => p + 1 \in 1 .. m /\ both[p + 1] = s[p + 1]
             /\ p >= m => p - m \in 0 .. k - 1 /\ both[p + 1] = r[(p - m) + 1]
  <2>1. p + 1 \in 1 .. m + k /\ (p + 1) - m = (p - m) + 1
    BY <1>1
  <2>2. both[p + 1] = IF p + 1 <= m THEN s[p + 1] ELSE r[(p + 1) - m]
    BY <1>4, <2>1
  <2>3. p < m => p + 1 \in 1 .. m /\ p + 1 <= m
    BY <1>1
  <2>4. p >= m => p - m \in 0 .. k - 1 /\ ~ (p + 1 <= m)
    BY <1>1
  <2> QED BY <2>1, <2>2, <2>3, <2>4
<1> QED BY <1>2, <1>5 DEF m, k, both, Follows

\* A function from 1 .. n is a sequence.
LEMMA CountedFrom ==
  ASSUME NEW X, NEW n \in Nat, NEW f \in [1 .. n -> X]
  PROVE  f \in Seq(X) /\ Len(f) = n
OBVIOUS

\* The sats of a coinbase, in the order of its outputs.
LEMMA CoinbaseStream ==
  ASSUME SubsidyAssumption, LedgerInv, NEW fresh,
         fresh = [i \in 1 .. reward |-> [sat |-> Len(minted) + i - 1, fee |-> FALSE]]
  PROVE  /\ fresh \o fees \in Seq(Sats) /\ Len(fresh \o fees) = reward + Len(fees)
         /\ \A p \in 0 .. reward + Len(fees) - 1 :
              Number((fresh \o fees)[p + 1]) = coinbaseSatAt(p, height)
<1>1. /\ reward = subsidySats(height) /\ reward \in Nat /\ height \in Nat
      /\ Len(minted) = firstSatOfBlock(height) /\ Len(minted) \in Nat
      /\ fees \in Seq(Sats) /\ \A i \in 1 .. Len(fees) : fees[i].fee
  BY RewardHalves, NextFirstSat DEF LedgerInv
<1> DEFINE first == Len(minted)
<1>2. \A i \in 1 .. reward : /\ fresh[i] \in Sats /\ fresh[i].fee = FALSE
                             /\ fresh[i].sat = first + i - 1
  <2> HIDE DEF first
  <2>1. \A i \in 1 .. reward : first + i - 1 \in Nat
    BY <1>1 DEF first
  <2> QED BY <2>1 DEF Sats, first
<1>3. fresh \in Seq(Sats) /\ Len(fresh) = reward
  <2>1. fresh \in [1 .. reward -> Sats]
    BY <1>2
  <2> QED BY <1>1, <2>1, CountedFrom
<1> HIDE DEF first
<1> DEFINE stream == fresh \o fees
<1>4. /\ stream \in Seq(Sats) /\ Len(stream) = reward + Len(fees)
      /\ \A p \in 0 .. reward + Len(fees) - 1 :
           /\ p < reward => p + 1 \in 1 .. reward /\ stream[p + 1] = fresh[p + 1]
           /\ p >= reward => /\ p - reward \in 0 .. Len(fees) - 1
                             /\ stream[p + 1] = fees[(p - reward) + 1]
  <2>1. stream \in Seq(Sats) /\ Follows(stream, fresh, Len(fresh), fees, Len(fees))
    BY <1>1, <1>3, JoinedAt
  <2>2. Follows(stream, fresh, reward, fees, Len(fees))
    BY <1>3, <2>1
  <2> QED BY <2>1, <2>2 DEF Follows
<1> HIDE DEF stream
<1>5. ASSUME NEW p \in 0 .. reward + Len(fees) - 1
      PROVE  Number(stream[p + 1]) = coinbaseSatAt(p, height)
  <2>1. CASE p < reward
    <3>1. p + 1 \in 1 .. reward /\ stream[p + 1] = fresh[p + 1]
      BY <1>4, <2>1
    <3>2. stream[p + 1].fee = FALSE /\ stream[p + 1].sat = first + (p + 1) - 1
      BY <1>2, <3>1
    <3>3. first + (p + 1) - 1 = first + p
      BY <1>1 DEF first
    <3>4. Number(stream[p + 1]) = first + p
      BY <3>2, <3>3 DEF Number
    <3> QED BY <1>1, <2>1, <3>4 DEF coinbaseSatAt, first
  <2>2. CASE p >= reward
    <3>1. p - reward \in 0 .. Len(fees) - 1 /\ stream[p + 1] = fees[(p - reward) + 1]
      BY <1>4, <2>2
    <3>2. (p - reward) + 1 \in 1 .. Len(fees)
      <4>1. Len(fees) \in Nat
        BY <1>1
      <4> QED BY <3>1, <4>1
    <3>3. stream[p + 1].fee
      BY <1>1, <3>1, <3>2
    <3>4. Number(stream[p + 1]) = CustodyUnsupportedError
      BY <3>3 DEF Number
    <3>5. ~ (p < reward)
      BY <1>1, <2>2
    <3> QED BY <1>1, <3>4, <3>5 DEF coinbaseSatAt
  <2> QED BY <1>1, <2>1, <2>2
<1> QED BY <1>4, <1>5 DEF stream

\* The sats a block mints, by their numbers.
LEMMA MintedStay ==
  ASSUME SubsidyAssumption, LedgerInv,
         minted' = minted \o [i \in 1 .. reward |-> [height |-> height, offset |-> i - 1]]
  PROVE  /\ minted' \in Seq([height : Nat, offset : Nat])
         /\ Len(minted') = firstSatOfBlock(height + 1)
         /\ \A sat \in 0 .. Len(minted') - 1 : MintedAt(sat)'
<1> DEFINE fresh == [i \in 1 .. reward |-> [height |-> height, offset |-> i - 1]]
           R == [height : Nat, offset : Nat]
<1>1. /\ reward = subsidySats(height) /\ reward \in Nat /\ height \in Nat
      /\ Len(minted) = firstSatOfBlock(height) /\ Len(minted) \in Nat
      /\ minted \in Seq(R) /\ \A sat \in 0 .. Len(minted) - 1 : MintedAt(sat)
      /\ firstSatOfBlock(height + 1) = Len(minted) + reward
  BY RewardHalves, NextFirstSat DEF LedgerInv
<1>2. \A i \in 1 .. reward : /\ fresh[i] \in R /\ fresh[i].height = height /\ fresh[i].offset = i - 1
  BY <1>1
<1>3. fresh \in Seq(R) /\ Len(fresh) = reward
  <2>1. fresh \in [1 .. reward -> R]
    BY <1>2
  <2> HIDE DEF fresh, R
  <2> QED BY <1>1, <2>1, CountedFrom
<1>4. minted' = minted \o fresh
  OBVIOUS
<1> HIDE DEF fresh, R
<1> DEFINE first == Len(minted)
<1>5. /\ minted' \in Seq(R) /\ Len(minted') = first + reward
      /\ \A p \in 0 .. first + reward - 1 :
           /\ p < first => p + 1 \in 1 .. first /\ minted'[p + 1] = minted[p + 1]
           /\ p >= first => /\ p - first \in 0 .. reward - 1
                            /\ minted'[p + 1] = fresh[(p - first) + 1]
  <2>1. minted' \in Seq(R) /\ Follows(minted', minted, Len(minted), fresh, Len(fresh))
    BY <1>1, <1>3, <1>4, JoinedAt
  <2>2. Follows(minted', minted, first, fresh, reward)
    BY <1>3, <2>1
  <2> HIDE DEF first
  <2> QED BY <2>1, <2>2 DEF Follows
<1>6. ASSUME NEW sat \in 0 .. Len(minted') - 1 PROVE MintedAt(sat)'
  <2>0. first \in Nat /\ reward \in Nat
    BY <1>1
  <2>1. sat \in 0 .. first + reward - 1
    <3>1. Len(minted') = first + reward
      BY <1>5
    <3> HIDE DEF first
    <3> QED BY <2>0, <3>1
  <2>2. CASE sat < first
    <3>1. sat \in 0 .. first - 1
      <4> HIDE DEF first
      <4> QED BY <2>0, <2>1, <2>2
    <3>2. minted'[sat + 1] = minted[sat + 1]
      BY <1>5, <2>1, <2>2
    <3>3. MintedAt(sat)
      BY <1>1, <3>1
    <3> QED BY <3>2, <3>3 DEF MintedAt
  <2>3. CASE sat >= first
    <3> DEFINE o == sat - first
    <3>1. o \in 0 .. reward - 1 /\ minted'[sat + 1] = fresh[o + 1]
      BY <1>5, <2>1, <2>3
    <3>2. o < reward /\ first + o = sat /\ o + 1 \in 1 .. reward /\ (o + 1) - 1 = o
      <4>1. o \in Nat /\ o < reward
        <5> HIDE DEF o, first
        <5> QED BY <2>0, <3>1
      <4> HIDE DEF first
      <4> QED BY <2>0, <2>1, <4>1
    <3> HIDE DEF o
    <3>3. minted'[sat + 1].height = height /\ minted'[sat + 1].offset = o
      BY <1>2, <3>1, <3>2
    <3>4. o < subsidySats(height) /\ firstSatOfBlock(height) + o = sat
      BY <1>1, <3>2
    <3> QED BY <3>3, <3>4 DEF MintedAt
  <2>4. sat < first \/ sat >= first
    <3> HIDE DEF first
    <3> QED BY <2>0, <2>1
  <2> QED BY <2>2, <2>3, <2>4
<1> QED BY <1>1, <1>5, <1>6 DEF R

\* A coinbase keeps the invariant: its sats are numbered on from the last.
LEMMA MineKeeps ==
  ASSUME SubsidyAssumption, LedgerInv, NEW outputs \in Seq(Nat), Mine(outputs)
  PROVE  LedgerInv'
<1> DEFINE fresh == [i \in 1 .. reward |-> [sat |-> Len(minted) + i - 1, fee |-> FALSE]]
           stream == fresh \o fees
           held == Cut(stream, outputs)
<1>1. /\ TxsOK /\ Len(txs) \in Nat /\ unspent \subseteq [tx : Nat, vout : Nat]
      /\ \A outpoint \in unspent : IsOutput(Len(txs), outpoint)
      /\ height \in Nat /\ reward = subsidySats(height) /\ reward \in Nat
  BY TxsInOrder, RewardHalves DEF LedgerInv
<1>2. PICK n, h \in Nat : n = Len(txs) /\ h = height
  BY <1>1
<1> DEFINE tx == [inputs |-> <<>>, outputs |-> outputs, coinbase |-> TRUE, height |-> h]
<1>3. /\ Sum(outputs) <= Len(stream)
      /\ txs' = Append(txs, tx) /\ holds' = Append(holds, held)
      /\ unspent' = (unspent \ ToSet(<<>>)) \cup {Outpoint(Len(txs) + 1, v) : v \in DOMAIN outputs}
      /\ minted' = minted \o [i \in 1 .. reward |-> [height |-> height, offset |-> i - 1]]
      /\ fees' = <<>> /\ height' = height + 1
      /\ reward' = IF (height + 1) % EpochBlocks = 0 THEN reward \div 2 ELSE reward
  BY <1>2 DEF Mine, Transact
<1>4. /\ stream \in Seq(Sats) /\ Len(stream) = reward + Len(fees)
      /\ \A p \in 0 .. reward + Len(fees) - 1 : Number(stream[p + 1]) = coinbaseSatAt(p, h)
  BY <1>2, CoinbaseStream
<1> HIDE DEF stream
<1>5. held \in Seq(Seq(Sats)) /\ IsCut(held, stream, outputs)
  <2>1. stream \in Seq(Sats) /\ Sum(outputs) <= Len(stream)
    BY <1>3, <1>4
  <2> QED BY <2>1, CutPieces
<1> HIDE DEF held
<1>6. tx \in Transactions
  <2>1. <<>> \in Seq([tx : Nat, vout : Nat])
    OBVIOUS
  <2> QED BY <1>2, <2>1 DEF Transactions
<1>7. tx.inputs = <<>> /\ tx.outputs = outputs /\ tx.coinbase = TRUE /\ tx.height = h
  OBVIOUS
<1> HIDE DEF tx
<1>8. OthersStay /\ txs'[n + 1] = tx /\ holds'[n + 1] = held
  BY <1>1, <1>2, <1>3, <1>5, <1>6, AddedLast DEF Added
<1>9. Minted(n + 1)'
  <2>1. ASSUME NEW v \in 1 .. Len(outputs), NEW o \in 0 .. outputs[v] - 1
        PROVE  Number(holds'[n + 1][v][o + 1]) = coinbaseSatAt(SumBefore(outputs, v) + o, h)
    <3> DEFINE p == SumBefore(outputs, v) + o
    <3>1. IsAt(outputs, v, o, p)
      BY DEF IsAt
    <3> HIDE DEF p
    <3>2. p \in Nat /\ p < Sum(outputs) /\ Sum(outputs) \in Nat
      BY <3>1, PlaceIsInside, SumIsNatural
    <3>3. p \in 0 .. reward + Len(fees) - 1
      <4>1. /\ Sum(outputs) <= Len(stream) /\ Len(stream) = reward + Len(fees)
            /\ Len(stream) \in Nat
        BY <1>3, <1>4
      <4> DEFINE k == Len(stream)
                 total == Sum(outputs)
      <4>2. p \in 0 .. k - 1
        <5>1. p \in Nat /\ p < total /\ total \in Nat /\ total <= k /\ k \in Nat
          BY <3>2, <4>1
        <5> HIDE DEF k, total
        <5> QED BY <5>1
      <4>3. reward \in Nat /\ Len(fees) \in Nat
        BY <1>1 DEF LedgerInv
      <4> QED BY <4>1, <4>2, <4>3
    <3>4. Number(stream[p + 1]) = coinbaseSatAt(p, h)
      BY <1>4, <3>3
    <3>5. held[v][o + 1] = stream[p + 1]
      BY <1>5 DEF p, IsCut
    <3>6. holds'[n + 1] = held
      BY <1>8
    <3> QED BY <3>4, <3>5, <3>6 DEF p
  <2>2. outputs = txs'[n + 1].outputs /\ h = txs'[n + 1].height
    BY <1>7, <1>8
  <2> DEFINE last == txs'[n + 1]
  <2> HIDE DEF last
  <2>3. ASSUME NEW v \in 1 .. Len(last.outputs), NEW o \in 0 .. last.outputs[v] - 1
        PROVE  Number(holds[n + 1][v][o + 1])' = coinbaseSatAt(SumBefore(last.outputs, v) + o, last.height)
    BY <2>1, <2>2 DEF Number, last
  <2> QED BY <2>3 DEF Minted, Number, last
<1>10. TxOK(n + 1)'
  <2>1. Filled(n + 1)'
    BY <1>5, <1>7, <1>8 DEF Filled, IsCut
  <2>2. Len(txs'[n + 1].inputs) = 0
    BY <1>7, <1>8
  <2> QED BY <1>2, <1>7, <1>8, <1>9, <2>1, <2>2 DEF TxOK
<1>11. TxsOK'
  BY <1>1, <1>2, <1>8, <1>10, OneMoreTx
<1>12. /\ (unspent \subseteq [tx : Nat, vout : Nat])'
       /\ \A outpoint \in unspent' : IsOutput(Len(txs), outpoint)'
  <2> DEFINE spent == ToSet(<<>>)
  <2> HIDE DEF spent
  <2>1. unspent' = (unspent \ spent) \cup {Outpoint(n + 1, v) : v \in DOMAIN tx.outputs}
    BY <1>2, <1>3, <1>7 DEF spent
  <2> QED BY <1>1, <1>2, <1>6, <1>8, <2>1, UnspentAreOutputs
<1>13. /\ minted' \in Seq([height : Nat, offset : Nat])
       /\ Len(minted') = firstSatOfBlock(height')
       /\ \A sat \in 0 .. Len(minted') - 1 : MintedAt(sat)'
  BY <1>3, MintedStay
<1>14. fees' \in Seq(Sats) /\ \A i \in 1 .. Len(fees') : fees'[i].fee
  BY <1>3
<1>15. height' \in Nat /\ reward' = subsidySats(height')
  <2>1. subsidySats(height + 1) = IF (height + 1) % EpochBlocks = 0
                                  THEN subsidySats(height) \div 2 ELSE subsidySats(height)
    BY <1>1, RewardHalves
  <2>2. height' = height + 1 /\ height' \in Nat
    BY <1>1, <1>3
  <2> QED BY <1>1, <1>3, <2>1, <2>2
<1> QED BY <1>11, <1>12, <1>13, <1>14, <1>15 DEF LedgerInv

(* Every chain keeps the invariant: what each output holds is what the     *)
(* values say, first in, first out, from coinbases numbered by halvings.   *)
THEOREM LedgerIsKept == LedgerSpec => []LedgerInv
<1>1. LedgerInit => LedgerInv
  <2> SUFFICES ASSUME LedgerInit PROVE LedgerInv
    OBVIOUS
  <2>1. /\ txs = <<>> /\ holds = <<>> /\ unspent = {} /\ fees = <<>> /\ minted = <<>>
        /\ height = 0 /\ reward = InitialSubsidy
    BY DEF LedgerInit
  <2>2. TxsOK
    BY <2>1 DEF TxsOK
  <2>3. reward = subsidySats(height) /\ Len(minted) = firstSatOfBlock(height) /\ height \in Nat
    BY <2>1, SubsidyAssumption, NoSatBelowZero
  <2> QED BY <2>1, <2>2, <2>3 DEF LedgerInv
<1>2. LedgerInv /\ [LedgerNext]_ledgerVars => LedgerInv'
  <2> SUFFICES ASSUME LedgerInv, [LedgerNext]_ledgerVars PROVE LedgerInv'
    OBVIOUS
  <2>1. ASSUME NEW inputs \in Seq(unspent), NEW outputs \in Seq(Nat), Spend(inputs, outputs)
        PROVE  LedgerInv'
    BY <2>1, SpendKeeps
  <2>2. ASSUME NEW outputs \in Seq(Nat), Mine(outputs) PROVE LedgerInv'
    BY <2>2, SubsidyAssumption, MineKeeps
  <2>3. CASE UNCHANGED ledgerVars
    <3>1. /\ txs' = txs /\ holds' = holds /\ unspent' = unspent /\ fees' = fees
          /\ minted' = minted /\ height' = height /\ reward' = reward
      BY <2>3 DEF ledgerVars
    <3>2. ASSUME NEW t \in 1 .. Len(txs) PROVE TxOK(t)'
      <4>1. TxOK(t)
        BY DEF LedgerInv, TxsOK
      <4>2. Filled(t)' = Filled(t)
        BY <3>1 DEF Filled
      <4>3. Fifo(t)' = Fifo(t)
        BY <3>1 DEF Fifo, Held
      <4>4. Minted(t)' = Minted(t)
        BY <3>1 DEF Minted, Number
      <4> QED BY <3>1, <4>1, <4>2, <4>3, <4>4 DEF TxOK, IsOutput
    <3>3. TxsOK'
      BY <3>1, <3>2 DEF LedgerInv, TxsOK
    <3> QED BY <3>1, <3>3 DEF LedgerInv, MintedAt, IsOutput
  <2> QED BY <2>1, <2>2, <2>3 DEF LedgerNext
<1> QED BY <1>1, <1>2, PTL DEF LedgerSpec

(* For every chain, of any length and values: the walk back finds every    *)
(* sat's number, the hop forward leads to where it is held, and custody    *)
(* and identity speak of one sat (SatsAreFollowed, of satnumber.ts and     *)
(* custody.ts).                                                            *)
THEOREM SatsAreAlwaysFollowed == LedgerSpec => []SatsAreFollowed
<1>1. LedgerInv => SatsAreFollowed
  BY FollowsFromInv DEF LedgerInv
<1> QED BY <1>1, LedgerIsKept, PTL

(* ------------------------------ the numbers ---------------------------- *)

\* What an epoch adds to those before it.
LEMMA SatsBeforeRuns ==
  ASSUME SubsidyAssumption
  PROVE  /\ SatsBefore[0] = 0
         /\ \A e \in 0 .. FinalEpoch : SatsBefore[e] \in Nat
         /\ \A e \in 0 .. FinalEpoch : e < FinalEpoch =>
              /\ SatsBefore[e + 1] = SatsBefore[e] + EpochBlocks * EpochSubsidy[e]
              /\ EpochBlocks * EpochSubsidy[e] \in Nat
<1> DEFINE N == FinalEpoch
           minting(e) == EpochBlocks * EpochSubsidy[e]
           step == [n \in 1 .. N |-> [x \in Nat |-> x + minting(n - 1)]]
           Eqn(f) == f = [epoch \in 0 .. FinalEpoch |->
                            IF epoch = 0 THEN 0
                            ELSE f[epoch - 1] + EpochBlocks * EpochSubsidy[epoch - 1]]
<1>1. N \in Nat /\ 0 \in Nat
  BY DEF SubsidyAssumption
<1>2. SatsBefore = CHOOSE f : Eqn(f)
  BY DEF SatsBefore
<1> HIDE DEF N
<1>3. \A e \in 0 .. N : minting(e) \in Nat
  <2> TAKE e \in 0 .. N
  <2>1. EpochBlocks \in Nat /\ EpochSubsidy[e] \in Nat
    BY SubsidyHalves DEF N, SubsidyAssumption
  <2> QED BY <2>1
<1>4. \A n \in 1 .. N : minting(n - 1) \in Nat
  <2> TAKE n \in 1 .. N
  <2>1. n - 1 \in 0 .. N
    BY <1>1
  <2> HIDE DEF minting
  <2> QED BY <1>3, <2>1
<1> HIDE DEF minting
<1>5. /\ StaysIn(step, N, Nat)
      /\ \A n \in 1 .. N : \A x \in Nat : step[n][x] = x + minting(n - 1)
  BY <1>4 DEF StaysIn
<1> HIDE DEF step
<1>6. PICK f \in [0 .. N -> Nat] : LoopOf(f, N, 0, step)
  BY <1>1, <1>5, LoopRuns
<1>7. \A n \in 0 .. N : f[n] = IF n = 0 THEN 0 ELSE f[n - 1] + minting(n - 1)
  <2>1. ASSUME NEW n \in 1 .. N PROVE f[n] = f[n - 1] + minting(n - 1)
    <3>1. n - 1 \in 0 .. N
      BY <1>1
    <3>2. f[n - 1] \in Nat
      BY <1>6, <3>1
    <3>3. f[n] = step[n][f[n - 1]]
      BY <1>6 DEF LoopOf
    <3> QED BY <1>5, <3>2, <3>3
  <2>2. f[0] = 0
    BY <1>6 DEF LoopOf
  <2> QED BY <1>1, <2>1, <2>2
<1>8. Eqn(f)
  <2>1. \A n \in 0 .. N : f[n] = IF n = 0 THEN 0 ELSE f[n - 1] + EpochBlocks * EpochSubsidy[n - 1]
    BY <1>7 DEF minting
  <2>2. f \in [0 .. N -> Nat]
    BY <1>6
  <2> QED BY <2>1, <2>2 DEF N
<1>9. Eqn(SatsBefore)
  <2> HIDE DEF Eqn
  <2> QED BY <1>2, <1>8
<1>10. SatsBefore[0] = 0
  BY <1>1, <1>9 DEF N
<1>11. \A e \in 0 .. N : e < N => SatsBefore[e + 1] = SatsBefore[e] + minting(e)
  <2> TAKE e \in 0 .. N
  <2> HAVE e < N
  <2>1. e + 1 \in 0 .. N /\ e + 1 # 0 /\ e + 1 - 1 = e
    BY <1>1
  <2> QED BY <1>9, <2>1 DEF N, minting
<1> DEFINE S == {e \in 0 .. N : SatsBefore[e] \in Nat}
<1>12. 0 \in S
  BY <1>1, <1>10
<1>13. ASSUME NEW e \in 0 .. N, e < N, e \in S PROVE e + 1 \in S
  <2>1. e + 1 \in 0 .. N
    BY <1>1, <1>13
  <2>2. SatsBefore[e + 1] = SatsBefore[e] + minting(e) /\ minting(e) \in Nat /\ SatsBefore[e] \in Nat
    BY <1>3, <1>11, <1>13
  <2> QED BY <2>1, <2>2
<1> HIDE DEF S
<1>14. 0 .. N \subseteq S
  BY <1>1, <1>12, <1>13, InductionUpTo
<1> QED BY <1>3, <1>10, <1>11, <1>14 DEF N, S, minting

\* A later epoch has no fewer sats before it.
LEMMA SatsBeforeGrow ==
  ASSUME SubsidyAssumption, NEW i \in 0 .. FinalEpoch, NEW j \in 0 .. FinalEpoch, i <= j
  PROVE  SatsBefore[i] <= SatsBefore[j]
<1> DEFINE N == j - i
           S == {n \in 0 .. N : SatsBefore[i] <= SatsBefore[i + n]}
<1>1. N \in Nat /\ FinalEpoch \in Nat /\ SatsBefore[i] \in Nat
  BY SatsBeforeRuns DEF SubsidyAssumption
<1>2. 0 \in S
  BY <1>1
<1>3. ASSUME NEW n \in 0 .. N, n < N, n \in S PROVE n + 1 \in S
  <2> DEFINE k == i + n
  <2>1. k \in 0 .. FinalEpoch /\ k < FinalEpoch /\ i + (n + 1) = k + 1 /\ n + 1 \in 0 .. N
    BY <1>1, <1>3
  <2>2. SatsBefore[i] <= SatsBefore[k]
    BY <1>3
  <2> HIDE DEF k
  <2>3. /\ SatsBefore[k + 1] = SatsBefore[k] + EpochBlocks * EpochSubsidy[k]
        /\ EpochBlocks * EpochSubsidy[k] \in Nat /\ SatsBefore[k] \in Nat
    BY <2>1, SatsBeforeRuns
  <2>4. SatsBefore[i] <= SatsBefore[k + 1]
    BY <1>1, <2>2, <2>3
  <2> QED BY <2>1, <2>4
<1> HIDE DEF S, N
<1>4. N \in S
  <2>1. N \in 0 .. N
    BY <1>1
  <2> QED BY <1>1, <1>2, <1>3, <2>1, InductionUpTo
<1>5. i + N = j
  BY DEF N
<1> QED BY <1>4, <1>5 DEF S

\* The first sat of a block: the epochs before its own, and its blocks before this one.
LEMMA FirstSatInEpoch ==
  ASSUME SubsidyAssumption, NEW h \in Nat, h \div EpochBlocks < FinalEpoch
  PROVE  firstSatOfBlock(h) = SatsBefore[h \div EpochBlocks]
                                + (h % EpochBlocks) * EpochSubsidy[h \div EpochBlocks]
<1> DEFINE q == h \div EpochBlocks
           r == h % EpochBlocks
           N == FinalEpoch
<1>1. q \in Nat /\ r \in Nat
  BY EpochOf
<1>2. PICK start : StartsAt(h, start) /\ firstSatOfBlock(h) = start[N]
  BY FirstSatRuns
<1>3. N \in Nat /\ q < N
  BY DEF SubsidyAssumption
<1> DEFINE upTo(e) == IF e <= q THEN SatsBefore[e] ELSE SatsBefore[q] + r * EpochSubsidy[q]
           S == {e \in 0 .. N : start[e] = upTo(e)}
<1>4. 0 \in S
  BY <1>1, <1>2, <1>3, SatsBeforeRuns DEF StartsAt
<1>5. ASSUME NEW e \in 0 .. N, e < N, e \in S PROVE e + 1 \in S
  <2> DEFINE s == EpochSubsidy[e]
  <2>1. start[e + 1] = start[e] + BlocksIn(h, e) * s
    BY <1>2, <1>3, <1>5, StartOfEpoch
  <2>2. SatsBefore[e + 1] = SatsBefore[e] + EpochBlocks * s
    BY <1>5, SatsBeforeRuns
  <2>3. s \in Nat
    BY <1>5, SubsidyHalves
  <2>4. /\ e < q => BlocksIn(h, e) = EpochBlocks
        /\ e = q => BlocksIn(h, e) = r
        /\ e > q => BlocksIn(h, e) = 0
    BY <1>5, BlocksOfEpoch
  <2>5. start[e] = upTo(e) /\ e \in Nat /\ e + 1 \in 0 .. N
    BY <1>3, <1>5
  <2>6. start[e] \in Nat
    BY <1>2, <1>5 DEF StartsAt
  <2> HIDE DEF q, r
  <2>7. CASE e < q
    <3>1. e <= q /\ e + 1 <= q
      BY <1>1, <2>5, <2>7
    <3> QED BY <2>1, <2>2, <2>4, <2>5, <2>7, <3>1
  <2>8. CASE e = q
    <3>1. e <= q /\ ~ (e + 1 <= q)
      BY <1>1, <2>5, <2>8
    <3> QED BY <2>1, <2>4, <2>5, <2>8, <3>1
  <2>9. CASE e > q
    <3>1. ~ (e <= q) /\ ~ (e + 1 <= q)
      BY <1>1, <2>5, <2>9
    <3>2. start[e + 1] = start[e]
      BY <2>1, <2>3, <2>4, <2>6, <2>9
    <3> QED BY <2>5, <3>1, <3>2
  <2> QED BY <1>1, <2>5, <2>7, <2>8, <2>9
<1> HIDE DEF S
<1>6. N \in S
  <2>1. N \in 0 .. N
    BY <1>3
  <2> QED BY <1>3, <1>4, <1>5, <2>1, InductionUpTo
<1>7. start[N] = upTo(N) /\ ~ (N <= q)
  BY <1>1, <1>3, <1>6 DEF S
<1> QED BY <1>2, <1>7

\* satToHeight finds the block a sat was minted in.
LEMMA HeightOfSat ==
  ASSUME SubsidyAssumption, NEW h \in Nat, NEW o \in Nat, o < subsidySats(h),
         NEW sat, sat = firstSatOfBlock(h) + o
  PROVE  sat \in Nat /\ satToHeight(sat) = [height |-> h, offset |-> o]
<1> DEFINE q == h \div EpochBlocks
           r == h % EpochBlocks
           N == FinalEpoch
           s == EpochSubsidy[q]
<1>1. /\ EpochBlocks \in Nat /\ q \in Nat /\ r \in Nat /\ r < EpochBlocks
      /\ h = EpochBlocks * q + r /\ EpochBlocks * q \in Nat
  BY EpochOf DEF SubsidyAssumption
<1>2. N \in Nat
  BY DEF SubsidyAssumption
<1>3. subsidySats(h) = IF q >= N THEN 0 ELSE s
  BY DEF subsidySats
<1> HIDE DEF q, r, s
<1>4. q < N /\ o < s
  BY <1>1, <1>2, <1>3
<1>5. q \in 0 .. N /\ q + 1 \in 0 .. N /\ q \in 0 .. N - 1
  BY <1>1, <1>2, <1>4
<1>6. s \in Nat /\ s > 0
  <2>1. s \in Nat
    BY <1>5, SubsidyHalves DEF s
  <2> QED BY <1>4, <2>1
<1>7. firstSatOfBlock(h) = SatsBefore[q] + r * s
  BY <1>4, FirstSatInEpoch DEF q, r, s
<1>8. /\ SatsBefore[q] \in Nat /\ SatsBefore[q + 1] \in Nat
      /\ SatsBefore[q + 1] = SatsBefore[q] + EpochBlocks * s
  BY <1>4, <1>5, SatsBeforeRuns DEF s
<1> DEFINE into == sat - SatsBefore[q]
<1>9. r * s \in Nat /\ r * s = s * r
  BY <1>1, <1>6
<1>10. sat \in Nat /\ into = s * r + o /\ into \in Nat /\ SatsBefore[q] <= sat
  BY <1>7, <1>8, <1>9
<1>11. sat < SatsBefore[q + 1]
  <2>1. s * (r + 1) <= s * EpochBlocks
    <3>1. r + 1 \in Nat /\ r + 1 <= EpochBlocks
      BY <1>1
    <3> QED BY <1>1, <1>6, <3>1, TimesMonotone
  <2>2. s * (r + 1) = s * r + s /\ s * EpochBlocks = EpochBlocks * s /\ s * EpochBlocks \in Nat
    BY <1>1, <1>6
  <2>3. into < s * EpochBlocks
    BY <1>4, <1>6, <1>9, <1>10, <2>1, <2>2
  <2> QED BY <1>8, <1>10, <2>2, <2>3
<1> DEFINE T == {e \in 0 .. FinalEpoch - 1 : sat < SatsBefore[e + 1]}
<1>12. q \in T
  BY <1>5, <1>11
<1>13. \A e \in T : q <= e
  <2> SUFFICES ASSUME NEW e \in T, ~ (q <= e) PROVE FALSE
    OBVIOUS
  <2>1. e \in 0 .. N - 1 /\ sat < SatsBefore[e + 1]
    OBVIOUS
  <2>2. e + 1 \in 0 .. N /\ e + 1 <= q
    BY <1>1, <1>2, <2>1
  <2>3. SatsBefore[e + 1] <= SatsBefore[q] /\ SatsBefore[e + 1] \in Nat
    BY <1>5, <2>2, SatsBeforeGrow, SatsBeforeRuns
  <2> HIDE DEF into
  <2> QED BY <1>8, <1>10, <2>1, <2>3
<1>14. Min(T) = q
  <2>1. \A x \in T : (\A y \in T : x <= y) => x = q
    <3> TAKE x \in T
    <3> HAVE \A y \in T : x <= y
    <3>1. x <= q /\ q <= x /\ x \in Int
      BY <1>12, <1>13
    <3> HIDE DEF T
    <3> QED BY <1>1, <3>1
  <2> HIDE DEF T
  <2> QED BY <1>12, <1>13, <2>1 DEF Min
<1> HIDE DEF T
<1>15. into \div s = r /\ into % s = o
  <2> HIDE DEF into
  <2> QED BY <1>1, <1>4, <1>6, <1>10, DivModUnique
<1>16. q * EpochBlocks + r = h
  <2>1. q * EpochBlocks = EpochBlocks * q
    BY <1>1
  <2> QED BY <1>1, <2>1
<1>17. satToHeight(sat) = [height |-> q * EpochBlocks + into \div s, offset |-> into % s]
  BY <1>14 DEF satToHeight, T, s
<1> QED BY <1>10, <1>15, <1>16, <1>17

\* No block begins beyond the last sat.
LEMMA FirstSatBelowTotal ==
  ASSUME SubsidyAssumption, NEW h \in Nat
  PROVE  firstSatOfBlock(h) \in Nat /\ TotalSats \in Nat /\ firstSatOfBlock(h) <= TotalSats
<1> DEFINE N == FinalEpoch
           last == N * EpochBlocks
<1>1. N \in Nat /\ EpochBlocks \in Nat /\ EpochBlocks > 0 /\ last \in Nat
  BY DEF SubsidyAssumption
<1>2. last \div EpochBlocks = N
  <2>1. last = EpochBlocks * N + 0 /\ 0 \in Nat
    BY <1>1
  <2> HIDE DEF last, N
  <2> QED BY <1>1, <2>1, DivModUnique
<1> HIDE DEF last
<1>3. PICK start : StartsAt(h, start) /\ firstSatOfBlock(h) = start[N]
  BY FirstSatRuns
<1>4. PICK end : StartsAt(last, end) /\ firstSatOfBlock(last) = end[N]
  BY <1>1, FirstSatRuns
<1>5. \A e \in 0 .. N : start[e] \in Nat /\ end[e] \in Nat
  BY <1>3, <1>4 DEF StartsAt
<1> DEFINE S == {e \in 0 .. N : start[e] <= end[e]}
<1>6. 0 \in S
  BY <1>1, <1>3, <1>4 DEF StartsAt
<1>7. ASSUME NEW e \in 0 .. N, e < N, e \in S PROVE e + 1 \in S
  <2> DEFINE s == EpochSubsidy[e]
             b == BlocksIn(h, e)
  <2>1. start[e + 1] = start[e] + b * s
    BY <1>1, <1>3, <1>7, StartOfEpoch
  <2>2. end[e + 1] = end[e] + EpochBlocks * s
    <3>1. end[e + 1] = end[e] + BlocksIn(last, e) * s
      BY <1>1, <1>4, <1>7, StartOfEpoch
    <3>2. BlocksIn(last, e) = EpochBlocks
      <4>1. e \in Nat /\ e < last \div EpochBlocks
        BY <1>1, <1>2, <1>7
      <4> QED BY <1>1, <4>1, BlocksOfEpoch
    <3> QED BY <3>1, <3>2
  <2>3. s \in Nat /\ b \in Nat /\ b <= EpochBlocks
    <3>1. s \in Nat
      BY <1>7, SubsidyHalves
    <3>2. b \in Nat
      <4>1. e \in Nat
        BY <1>1, <1>7
      <4> QED BY <4>1, BlocksOfEpoch
    <3>3. b <= EpochBlocks
      <4> DEFINE since == h - e * EpochBlocks
      <4>1. since \in Int
        BY <1>1
      <4>2. b = IF since <= 0 THEN 0 ELSE IF since < EpochBlocks THEN since ELSE EpochBlocks
        BY DEF BlocksIn
      <4> HIDE DEF since, b
      <4> QED BY <1>1, <4>1, <4>2
    <3> QED BY <3>1, <3>2, <3>3
  <2> HIDE DEF b, s
  <2>4. b * s <= EpochBlocks * s /\ b * s \in Nat /\ EpochBlocks * s \in Nat
    <3>1. s * b <= s * EpochBlocks /\ s * b \in Nat /\ s * EpochBlocks \in Nat
      BY <1>1, <2>3, TimesMonotone
    <3>2. s * b = b * s /\ s * EpochBlocks = EpochBlocks * s
      BY <1>1, <2>3
    <3> QED BY <3>1, <3>2
  <2>5. start[e] <= end[e] /\ e + 1 \in 0 .. N
    BY <1>1, <1>7
  <2>6. start[e + 1] <= end[e + 1]
    BY <1>5, <2>1, <2>2, <2>4, <2>5
  <2> QED BY <2>5, <2>6
<1> HIDE DEF S
<1>8. N \in S /\ N \in 0 .. N
  BY <1>1, <1>6, <1>7, InductionUpTo
<1>9. TotalSats = end[N]
  BY <1>4 DEF TotalSats, last
<1> QED BY <1>3, <1>5, <1>8, <1>9 DEF S

\* The names, as satName counts them; every sat has one.
NamesTo(name, N) ==
  /\ \A x \in 0 .. N : name[x] \in Seq(Nat)
  /\ name[0] = <<>>
  /\ \A x \in 0 .. N : x < N => name[x + 1] = Append(name[x \div Letters], x % Letters)

\* The function satName chooses exists: each name needs only shorter numbers'.
LEMMA NameRuns ==
  ASSUME SubsidyAssumption, TotalSats \in Nat
  PROVE  \E name : /\ NamesTo(name, TotalSats)
                   /\ \A sat : satName(sat) = name[TotalSats - 1 - sat + 1]
<1> DEFINE N == TotalSats
           V == Seq(Nat)
           next(f, x) == Append(f[(x - 1) \div Letters], (x - 1) % Letters)
           Eqn(f) == f = [x \in 0 .. TotalSats |->
                            IF x = 0 THEN <<>>
                            ELSE Append(f[(x - 1) \div Letters], (x - 1) % Letters)]
           name == CHOOSE f : Eqn(f)
           Runs(f, k) == f \in [0 .. N -> V] /\ f[0] = <<>> /\ \A x \in 1 .. k : f[x] = next(f, x)
           T == {k \in 0 .. N : \E f : Runs(f, k)}
<1>1. Letters \in Nat /\ Letters > 0 /\ N \in Nat
  BY DEF SubsidyAssumption
<1>2. \A y \in Nat : /\ y \div Letters \in Nat /\ y \div Letters <= y
                     /\ y % Letters \in Nat
  <2> TAKE y \in Nat
  <2> DEFINE d == y \div Letters
  <2>1. d \in Nat /\ y % Letters \in Nat /\ y = Letters * d + (y % Letters)
    BY <1>1, DivMod
  <2> HIDE DEF d
  <2>2. d * 1 <= d * Letters /\ d * Letters \in Nat
    <3>1. 1 \in Nat /\ 1 <= Letters
      BY <1>1
    <3> QED BY <1>1, <2>1, <3>1, TimesMonotone
  <2>3. d * 1 = d /\ d * Letters = Letters * d
    BY <1>1, <2>1
  <2>4. d <= y
    BY <2>1, <2>2, <2>3
  <2> QED BY <2>1, <2>4 DEF d
<1>3. \A sat : satName(sat) = name[N - 1 - sat + 1]
  BY DEF satName
<1> HIDE DEF N
<1>4. ASSUME NEW f \in [0 .. N -> V], NEW x \in 1 .. N
      PROVE  /\ next(f, x) \in V /\ (x - 1) \div Letters \in 0 .. x - 1
             /\ (x - 1) \div Letters \in 0 .. N
  <2>1. x - 1 \in Nat /\ x - 1 \in 0 .. N
    BY <1>1
  <2>2. (x - 1) \div Letters \in Nat /\ (x - 1) \div Letters <= x - 1 /\ (x - 1) % Letters \in Nat
    BY <1>2, <2>1
  <2>3. (x - 1) \div Letters \in 0 .. x - 1 /\ (x - 1) \div Letters \in 0 .. N
    BY <1>1, <2>1, <2>2
  <2>4. f[(x - 1) \div Letters] \in Seq(Nat)
    BY <2>3
  <2> QED BY <2>2, <2>3, <2>4
<1>5. 0 \in T
  <2>1. \E f : Runs(f, 0)
    <3> DEFINE none == [x \in 0 .. N |-> <<>>]
    <3>1. <<>> \in Seq(Nat) /\ 0 \in 0 .. N /\ \A x \in 1 .. 0 : FALSE
      BY <1>1
    <3>2. none \in [0 .. N -> V] /\ none[0] = <<>>
      BY <3>1
    <3> HIDE DEF none, next, V
    <3>3. Runs(none, 0)
      BY <3>1, <3>2
    <3> QED BY <3>3
  <2>2. 0 \in 0 .. N
    BY <1>1
  <2> HIDE DEF Runs
  <2> QED BY <2>1, <2>2
<1>6. ASSUME NEW k \in 0 .. N, k < N, k \in T PROVE k + 1 \in T
  <2>1. PICK g : Runs(g, k)
    BY <1>6
  <2> DEFINE f == [g EXCEPT ![k + 1] = next(g, k + 1)]
  <2>2. k + 1 \in 1 .. N /\ k + 1 \in 0 .. N /\ k \in Nat
    BY <1>1, <1>6
  <2>3. next(g, k + 1) \in V
    BY <1>4, <2>1, <2>2
  <2> HIDE DEF next, V
  <2>4. /\ f \in [0 .. N -> V] /\ f[k + 1] = next(g, k + 1)
        /\ \A x \in 0 .. k : f[x] = g[x]
    BY <1>1, <1>6, <2>1, <2>2, <2>3
  <2> HIDE DEF f
  <2>5. f[0] = <<>>
    BY <2>1, <2>2, <2>4
  <2>6. ASSUME NEW x \in 1 .. k + 1 PROVE f[x] = next(f, x)
    <3>1. x \in 1 .. N
      BY <1>1, <2>2
    <3>2. (x - 1) \div Letters \in 0 .. x - 1
      BY <1>4, <2>4, <3>1
    <3>3. (x - 1) \div Letters \in 0 .. k
      BY <2>2, <3>2
    <3>4. f[(x - 1) \div Letters] = g[(x - 1) \div Letters]
      BY <2>4, <3>3
    <3>5. next(f, x) = next(g, x)
      BY <3>4 DEF next
    <3>6. f[x] = next(g, x)
      <4>1. CASE x = k + 1
        BY <2>4, <4>1
      <4>2. CASE x \in 1 .. k
        <5>1. f[x] = g[x] /\ g[x] = next(g, x)
          BY <2>1, <2>2, <2>4, <4>2
        <5> QED BY <5>1
      <4> QED BY <2>2, <4>1, <4>2
    <3> QED BY <3>5, <3>6
  <2>7. Runs(f, k + 1)
    BY <2>4, <2>5, <2>6
  <2> QED BY <2>2, <2>7
<1> HIDE DEF T
<1>7. N \in T
  <2>1. N \in 0 .. N
    BY <1>1
  <2> QED BY <1>1, <1>5, <1>6, <2>1, InductionUpTo
<1>8. PICK f : Runs(f, N)
  BY <1>7 DEF T
<1>9. Eqn(f)
  <2>1. \A x \in 0 .. N : f[x] = IF x = 0 THEN <<>> ELSE next(f, x)
    BY <1>1, <1>8
  <2>2. f \in [0 .. N -> V]
    BY <1>8
  <2> QED BY <2>1, <2>2 DEF N
<1>10. Eqn(name)
  <2> HIDE DEF Eqn
  <2> QED BY <1>9
<1> HIDE DEF name
<1>11. name[0] = <<>>
  BY <1>1, <1>10 DEF N
<1>12. \A x \in 1 .. N : name[x] = next(name, x)
  <2> TAKE x \in 1 .. N
  <2>1. x \in 0 .. N /\ x # 0
    BY <1>1
  <2>2. name = [y \in 0 .. N |-> IF y = 0 THEN <<>> ELSE next(name, y)]
    BY <1>10 DEF N
  <2> QED BY <2>1, <2>2
<1> DEFINE S == {k \in 0 .. N : \A x \in 0 .. k : name[x] \in V}
<1>13. 0 \in S
  <2>1. name[0] \in V
    <3>1. <<>> \in Seq(Nat)
      OBVIOUS
    <3> QED BY <1>11, <3>1
  <2>2. 0 \in 0 .. N /\ \A x \in 0 .. 0 : x = 0
    BY <1>1
  <2> HIDE DEF V
  <2> QED BY <2>1, <2>2
<1>14. ASSUME NEW k \in 0 .. N, k < N, k \in S PROVE k + 1 \in S
  <2>1. k + 1 \in 1 .. N /\ k + 1 \in 0 .. N /\ (k + 1) - 1 = k /\ k \in Nat
    BY <1>1, <1>14
  <2>2. k \div Letters \in 0 .. k /\ k % Letters \in Nat
    BY <1>2, <2>1
  <2>3. name[k \div Letters] \in Seq(Nat)
    BY <1>14, <2>2
  <2>4. name[k + 1] = Append(name[k \div Letters], k % Letters)
    BY <1>12, <2>1
  <2>5. name[k + 1] \in V
    BY <2>2, <2>3, <2>4
  <2>6. \A x \in 0 .. k + 1 : x \in 0 .. k \/ x = k + 1
    BY <2>1
  <2> HIDE DEF V
  <2> QED BY <1>14, <2>1, <2>5, <2>6
<1> HIDE DEF S
<1>15. N \in S
  <2>1. N \in 0 .. N
    BY <1>1
  <2> QED BY <1>1, <1>13, <1>14, <2>1, InductionUpTo
<1>16. \A x \in 0 .. N : x < N => name[x + 1] = Append(name[x \div Letters], x % Letters)
  <2> TAKE x \in 0 .. N
  <2> HAVE x < N
  <2>1. x + 1 \in 1 .. N /\ (x + 1) - 1 = x
    BY <1>1
  <2> QED BY <1>12, <2>1
<1>17. NamesTo(name, N)
  BY <1>11, <1>15, <1>16 DEF S, NamesTo
<1> QED BY <1>3, <1>17 DEF N

(* ------------------------------ the names ------------------------------ *)

\* The successor of a name whose last Letters - 1 begin at `from`.
SuccessorFrom(name, from) ==
  [i \in 1 .. Len(name) + (IF from = 1 THEN 1 ELSE 0) |->
     CASE from = 1 -> 0
       [] from > 1 /\ i >= from -> 0
       [] from > 1 /\ i < from -> IF i = from - 1 THEN name[i] + 1 ELSE name[i]]

CarryFrom(name, from) ==
  /\ from \in 1 .. Len(name) + 1
  /\ \A j \in from .. Len(name) : name[j] = Letters - 1
  /\ from > 1 => name[from - 1] # Letters - 1

\* The place is found by Successor.
LEMMA CarryAt ==
  ASSUME NEW name \in Seq(Nat), NEW from, CarryFrom(name, from)
  PROVE  Successor(name) = SuccessorFrom(name, from)
<1> DEFINE n == Len(name)
           carry == {i \in 1 .. Len(name) : \A j \in i .. Len(name) : name[j] = Letters - 1}
           least == IF carry = {} THEN Len(name) + 1 ELSE Min(carry)
<1>1. n \in Nat /\ from \in 1 .. n + 1 /\ from \in Nat
  BY DEF CarryFrom
<1>2. \A i \in carry : i \in Nat /\ from <= i /\ i <= n
  <2> SUFFICES ASSUME NEW i \in carry, ~ (from <= i) PROVE FALSE
    BY <1>1
  <2>1. i \in 1 .. n /\ from > 1 /\ from - 1 \in i .. n
    BY <1>1
  <2>2. name[from - 1] = Letters - 1
    BY <2>1
  <2> QED BY <2>1, <2>2 DEF CarryFrom
<1>3. from <= n => from \in carry
  BY <1>1 DEF CarryFrom
<1> HIDE DEF carry, n
<1>4. least = from
  <2>1. CASE carry = {}
    <3>1. from = n + 1
      BY <1>1, <1>3, <2>1
    <3> QED BY <2>1, <3>1 DEF n
  <2>2. CASE carry # {}
    <3>1. from \in carry
      BY <1>1, <1>2, <1>3, <2>2
    <3>2. \A x \in carry : (\A y \in carry : x <= y) => x = from
      <4> TAKE x \in carry
      <4> HAVE \A y \in carry : x <= y
      <4>1. x <= from /\ from <= x /\ x \in Nat
        BY <1>2, <3>1
      <4> QED BY <1>1, <4>1
    <3>3. Min(carry) = from
      BY <1>2, <3>1, <3>2 DEF Min
    <3> QED BY <2>2, <3>3
  <2> QED BY <2>1, <2>2
<1>5. Successor(name) = SuccessorFrom(name, least)
  BY DEF Successor, SuccessorFrom, carry
<1> QED BY <1>4, <1>5

\* Every name has one.
LEMMA CarryExists ==
  ASSUME NEW name \in Seq(Nat)
  PROVE  \E from : CarryFrom(name, from)
<1> DEFINE n == Len(name)
           T == {i \in 1 .. n + 1 : \A j \in i .. n : name[j] = Letters - 1}
<1>1. n \in Nat
  OBVIOUS
<1>2. n + 1 \in T
  BY <1>1
<1>3. T \in SUBSET Nat
  BY <1>1
<1>4. PICK from \in T : \A i \in T : from <= i
  <2> HIDE DEF T
  <2> QED BY <1>2, <1>3, LeastNatural
<1>5. from \in 1 .. n + 1 /\ from \in Nat /\ \A j \in from .. n : name[j] = Letters - 1
  BY <1>4
<1>6. ASSUME from > 1, name[from - 1] = Letters - 1 PROVE FALSE
  <2>1. from - 1 \in 1 .. n + 1
    BY <1>1, <1>5, <1>6
  <2>2. ASSUME NEW j \in from - 1 .. n PROVE name[j] = Letters - 1
    <3>1. j = from - 1 \/ j \in from .. n
      BY <1>1, <1>5
    <3> QED BY <1>5, <1>6, <3>1
  <2>3. from - 1 \in T
    BY <2>1, <2>2
  <2> HIDE DEF T
  <2>4. from <= from - 1
    BY <1>4, <2>3
  <2> QED BY <1>5, <2>4
<1>7. CarryFrom(name, from)
  BY <1>5, <1>6 DEF CarryFrom
<1> QED BY <1>7

\* The name after none is the first letter.
LEMMA SuccessorOfNone ==
  ASSUME SubsidyAssumption
  PROVE  Successor(<<>>) = Append(<<>>, 0)
<1>1. CarryFrom(<<>>, 1) /\ <<>> \in Seq(Nat)
  BY DEF CarryFrom
<1>2. SuccessorFrom(<<>>, 1) = Append(<<>>, 0)
  BY DEF SuccessorFrom
<1> QED BY <1>1, <1>2, CarryAt

\* Without a carry the last letter moves on;
LEMMA SuccessorOfLast ==
  ASSUME SubsidyAssumption, NEW s \in Seq(Nat), NEW r \in Nat, r # Letters - 1
  PROVE  Successor(Append(s, r)) = Append(s, r + 1)
<1> DEFINE n == Len(s)
           name == Append(s, r)
           next == Append(s, r + 1)
<1>1. n \in Nat
  OBVIOUS
<1>2. /\ name \in Seq(Nat) /\ Len(name) = n + 1 /\ name[n + 1] = r
      /\ \A i \in 1 .. n : name[i] = s[i]
  BY AppendProperties
<1>3. /\ next \in Seq(Nat) /\ Len(next) = n + 1 /\ next[n + 1] = r + 1
      /\ \A i \in 1 .. n : next[i] = s[i]
  BY AppendProperties
<1> HIDE DEF n, name, next
<1>4. CarryFrom(name, n + 2)
  BY <1>1, <1>2 DEF CarryFrom
<1>5. SuccessorFrom(name, n + 2) = next
  <2>1. SuccessorFrom(name, n + 2)
          = [i \in 1 .. n + 1 |-> IF i = n + 1 THEN name[i] + 1 ELSE name[i]]
    <3>1. (n + 2 = 1) = FALSE /\ n + 2 > 1 /\ (n + 2) - 1 = n + 1
      BY <1>1
    <3>2. (n + 1) + 0 = n + 1 /\ \A i \in 1 .. n + 1 : i < n + 2 /\ ~ (i >= n + 2)
      BY <1>1
    <3> QED BY <1>2, <3>1, <3>2 DEF SuccessorFrom
  <2>2. next = [i \in 1 .. n + 1 |-> next[i]]
    BY <1>3
  <2>3. \A i \in 1 .. n + 1 : next[i] = IF i = n + 1 THEN name[i] + 1 ELSE name[i]
    <3> TAKE i \in 1 .. n + 1
    <3>1. i = n + 1 \/ (i # n + 1 /\ i \in 1 .. n)
      BY <1>1
    <3> QED BY <1>2, <1>3, <3>1
  <2> QED BY <2>1, <2>2, <2>3
<1>6. Successor(name) = next
  BY <1>2, <1>4, <1>5, CarryAt
<1> QED BY <1>6 DEF name, next

\* with one it starts again, after the successor of the rest.
LEMMA SuccessorCarries ==
  ASSUME SubsidyAssumption, NEW s \in Seq(Nat)
  PROVE  Successor(Append(s, Letters - 1)) = Append(Successor(s), 0)
<1> DEFINE n == Len(s)
           r == Letters - 1
           name == Append(s, r)
<1>1. n \in Nat /\ r \in Nat
  BY DEF SubsidyAssumption
<1> HIDE DEF r
<1>2. /\ name \in Seq(Nat) /\ Len(name) = n + 1 /\ name[n + 1] = r
      /\ \A i \in 1 .. n : name[i] = s[i]
  BY <1>1, AppendProperties
<1> HIDE DEF n, name
<1>3. PICK from : CarryFrom(s, from)
  BY CarryExists
<1>4. /\ from \in 1 .. n + 1 /\ from \in Nat /\ from >= 1
      /\ \A j \in from .. n : s[j] = r
      /\ from > 1 => s[from - 1] # r
  BY <1>1, <1>3 DEF CarryFrom, n, r
<1>5. CarryFrom(name, from)
  <2>1. from \in 1 .. (n + 1) + 1
    BY <1>1, <1>4
  <2>2. \A j \in from .. n + 1 : name[j] = r
    <3> TAKE j \in from .. n + 1
    <3>1. j = n + 1 \/ (j \in from .. n /\ j \in 1 .. n)
      BY <1>1, <1>4
    <3> QED BY <1>2, <1>4, <3>1
  <2>3. from > 1 => name[from - 1] # r
    <3> HAVE from > 1
    <3>1. from - 1 \in 1 .. n
      BY <1>1, <1>4
    <3> QED BY <1>2, <1>4, <3>1
  <2> QED BY <1>2, <2>1, <2>2, <2>3 DEF CarryFrom, r
<1>6. Successor(s) = SuccessorFrom(s, from) /\ Successor(name) = SuccessorFrom(name, from)
  BY <1>2, <1>3, <1>5, CarryAt
<1>7. CASE from = 1
  <2>1. Successor(s) = [i \in 1 .. n + 1 |-> 0]
    BY <1>6, <1>7 DEF SuccessorFrom, n
  <2>2. Successor(name) = [i \in 1 .. (n + 1) + 1 |-> 0]
    BY <1>2, <1>6, <1>7 DEF SuccessorFrom
  <2>3. Append([i \in 1 .. n + 1 |-> 0], 0) = [i \in 1 .. (n + 1) + 1 |-> 0]
    BY <1>1
  <2> QED BY <2>1, <2>2, <2>3 DEF name, r
<1>8. CASE from > 1
  <2> DEFINE digit(i) == IF i >= from THEN 0 ELSE IF i = from - 1 THEN s[i] + 1 ELSE s[i]
  <2>1. Successor(s) = [i \in 1 .. n |-> digit(i)]
    <3>1. (from = 1) = FALSE /\ n + 0 = n
      BY <1>1, <1>4, <1>8
    <3>2. \A i \in 1 .. n : (i >= from /\ ~ (i < from)) \/ (i < from /\ ~ (i >= from))
      BY <1>1, <1>4
    <3> QED BY <1>6, <1>8, <3>1, <3>2 DEF SuccessorFrom, n
  <2>2. Successor(name) = [i \in 1 .. n + 1 |-> digit(i)]
    <3>1. (from = 1) = FALSE /\ (n + 1) + 0 = n + 1
      BY <1>1, <1>4, <1>8
    <3>2. \A i \in 1 .. n + 1 : \/ i >= from /\ ~ (i < from)
                                \/ i < from /\ ~ (i >= from) /\ name[i] = s[i]
      <4> TAKE i \in 1 .. n + 1
      <4>1. (i >= from /\ ~ (i < from)) \/ (i < from /\ ~ (i >= from) /\ i \in 1 .. n)
        BY <1>1, <1>4
      <4> QED BY <1>2, <4>1
    <3> DEFINE body(i) == CASE from = 1 -> 0
                            [] from > 1 /\ i >= from -> 0
                            [] from > 1 /\ i < from ->
                                 IF i = from - 1 THEN name[i] + 1 ELSE name[i]
    <3>3. Successor(name) = [i \in 1 .. n + 1 |-> body(i)]
      BY <1>2, <1>6, <3>1 DEF SuccessorFrom
    <3>4. \A i \in 1 .. n + 1 : body(i) = digit(i)
      BY <1>8, <3>1, <3>2
    <3> HIDE DEF body, digit
    <3> QED BY <3>3, <3>4
  <2>3. digit(n + 1) = 0
    BY <1>1, <1>4
  <2> DEFINE L == [i \in 1 .. n |-> digit(i)]
             M == [i \in 1 .. n + 1 |-> digit(i)]
  <2> HIDE DEF digit
  <2>4. Append(L, 0) = M
    <3>1. Len(L) = n
      BY <1>1
    <3>2. Append(L, 0) = [i \in 1 .. n + 1 |-> IF i = n + 1 THEN 0 ELSE L[i]]
      BY <1>1, <3>1
    <3>3. \A i \in 1 .. n + 1 : (IF i = n + 1 THEN 0 ELSE L[i]) = digit(i)
      <4> TAKE i \in 1 .. n + 1
      <4>1. i = n + 1 \/ (i # n + 1 /\ i \in 1 .. n)
        BY <1>1
      <4> QED BY <2>3, <4>1
    <3> QED BY <3>2, <3>3
  <2> QED BY <2>1, <2>2, <2>4 DEF name, r
<1> QED BY <1>4, <1>7, <1>8

\* The next name is the successor, carries and all.
LEMMA NamesSucceed ==
  ASSUME SubsidyAssumption, NEW N \in Nat, NEW name, NamesTo(name, N)
  PROVE  \A x \in 0 .. N : x < N => name[x + 1] = Successor(name[x])
<1> DEFINE Next1(x) == x < N => name[x + 1] = Successor(name[x])
           S == {k \in 0 .. N : \A x \in 0 .. k : Next1(x)}
<1>1. Letters \in Nat /\ Letters > 0
  BY DEF SubsidyAssumption
<1>2. 0 \div Letters = 0 /\ 0 % Letters = 0
  <2>1. 0 = Letters * 0 + 0 /\ 0 \in Nat
    BY <1>1
  <2> QED BY <1>1, <2>1, DivModUnique
<1>3. 0 \in S
  <2>1. ASSUME 0 < N PROVE name[0 + 1] = Successor(name[0])
    <3>1. 0 \in 0 .. N
      OBVIOUS
    <3>2. name[0 + 1] = Append(name[0 \div Letters], 0 % Letters) /\ name[0] = <<>>
      BY <2>1, <3>1 DEF NamesTo
    <3>3. name[0 + 1] = Append(<<>>, 0)
      BY <1>2, <3>2
    <3> QED BY <3>2, <3>3, SuccessorOfNone
  <2>2. 0 \in 0 .. N /\ \A x \in 0 .. 0 : x = 0
    OBVIOUS
  <2> QED BY <2>1, <2>2
<1>4. ASSUME NEW k \in 0 .. N, k < N, k \in S PROVE k + 1 \in S
  <2> DEFINE q == k \div Letters
             r == k % Letters
             x == k + 1
  <2>1. q \in Nat /\ r \in Nat /\ r < Letters /\ k = Letters * q + r /\ k \in Nat /\ x \in Nat
    <3>1. k \in Nat
      OBVIOUS
    <3> QED BY <1>1, <3>1, DivMod
  <2> HIDE DEF q, r
  <2>2. q <= k
    <3>1. q * 1 <= q * Letters /\ q * 1 = q /\ q * Letters = Letters * q /\ q * Letters \in Nat
      <4>1. 1 \in Nat /\ 1 <= Letters
        BY <1>1
      <4>2. q * 1 <= q * Letters /\ q * Letters \in Nat
        BY <1>1, <2>1, <4>1, TimesMonotone
      <4> QED BY <1>1, <2>1, <4>2
    <3> QED BY <2>1, <3>1
  <2>3. ASSUME x < N PROVE name[x + 1] = Successor(name[x])
    <3>1. name[x] = Append(name[q], r)
      BY <1>4 DEF NamesTo, q, r
    <3>2. x \in 0 .. N
      BY <2>1, <2>3
    <3>3. name[x + 1] = Append(name[x \div Letters], x % Letters)
      BY <2>3, <3>2 DEF NamesTo
    <3>4. q \in 0 .. N /\ q \in 0 .. k /\ q < N
      BY <1>4, <2>1, <2>2
    <3>5. name[q] \in Seq(Nat)
      BY <3>4 DEF NamesTo
    <3>6. CASE r # Letters - 1
      <4>1. r + 1 \in Nat /\ r + 1 < Letters /\ x = Letters * q + (r + 1)
        <5>1. Letters * q \in Nat
          BY <1>1, <2>1
        <5> QED BY <1>1, <2>1, <3>6, <5>1
      <4> HIDE DEF x
      <4>2. x \div Letters = q /\ x % Letters = r + 1
        BY <1>1, <2>1, <4>1, DivModUnique
      <4>3. name[x + 1] = Append(name[q], r + 1)
        BY <3>3, <4>2
      <4> QED BY <2>1, <3>1, <3>5, <3>6, <4>3, SuccessorOfLast
    <3>7. CASE r = Letters - 1
      <4>1. q + 1 \in Nat /\ 0 \in Nat /\ x = Letters * (q + 1) + 0
        <5>1. Letters * (q + 1) = Letters * q + Letters /\ Letters * q \in Nat
          BY <1>1, <2>1
        <5> QED BY <1>1, <2>1, <3>7, <5>1
      <4> HIDE DEF x
      <4>2. x \div Letters = q + 1 /\ x % Letters = 0
        BY <1>1, <2>1, <4>1, DivModUnique
      <4>3. name[x + 1] = Append(name[q + 1], 0)
        BY <3>3, <4>2
      <4>4. name[q + 1] = Successor(name[q])
        BY <1>4, <3>4
      <4>5. Successor(name[x]) = Append(Successor(name[q]), 0)
        BY <3>1, <3>5, <3>7, SuccessorCarries
      <4> QED BY <4>3, <4>4, <4>5
    <3> QED BY <3>6, <3>7
  <2>4. x \in 0 .. N /\ \A y \in 0 .. x : y \in 0 .. k \/ y = x
    BY <1>4, <2>1
  <2> QED BY <1>4, <2>3, <2>4
<1> HIDE DEF S
<1>5. N \in S
  <2>1. N \in 0 .. N
    OBVIOUS
  <2> QED BY <1>3, <1>4, <2>1, InductionUpTo
<1> QED BY <1>5 DEF S

\* Sats are named from the last: the one before has the next name.
LEMMA NamesDescend ==
  ASSUME SubsidyAssumption, NEW sat \in Nat, sat > 0, sat <= TotalSats, TotalSats \in Nat
  PROVE  satName(sat - 1) = Successor(satName(sat))
<1> DEFINE N == TotalSats
           x == N - sat
<1>1. PICK name : NamesTo(name, N) /\ \A each : satName(each) = name[N - 1 - each + 1]
  BY NameRuns
<1>2. N \in Nat
  OBVIOUS
<1> HIDE DEF N
<1>3. x \in 0 .. N /\ x < N
  BY <1>2 DEF N
<1>4. N - 1 - sat + 1 = x /\ N - 1 - (sat - 1) + 1 = x + 1
  BY <1>2
<1>5. satName(sat) = name[N - 1 - sat + 1] /\ satName(sat - 1) = name[N - 1 - (sat - 1) + 1]
  BY <1>1
<1>6. satName(sat) = name[x] /\ satName(sat - 1) = name[x + 1]
  BY <1>4, <1>5
<1> HIDE DEF x
<1>7. name[x + 1] = Successor(name[x])
  BY <1>1, <1>2, <1>3, NamesSucceed
<1> QED BY <1>6, <1>7

\* Rarer than common is the first sat of a block, and no other.
LEMMA RareIsFirst ==
  ASSUME NEW sat, NEW h, NEW o, satToHeight(sat) = [height |-> h, offset |-> o], sat = 0 => o = 0
  PROVE  (satRarity(sat) = "common") = (o # 0)
<1>1. satToHeight(sat).offset = o
  OBVIOUS
<1>2. CASE sat = 0
  <2>1. satRarity(sat) = "mythic" /\ o = 0
    BY <1>2 DEF satRarity
  <2> QED BY <2>1
<1>3. CASE sat # 0 /\ o # 0
  <2>1. satRarity(sat) = "common"
    BY <1>1, <1>3 DEF satRarity
  <2> QED BY <1>3, <2>1
<1>4. CASE sat # 0 /\ o = 0
  <2>1. satRarity(sat) \in {"legendary", "epic", "rare", "uncommon"}
    BY <1>1, <1>4 DEF satRarity
  <2> QED BY <1>4, <2>1
<1> QED BY <1>2, <1>3, <1>4

\* The closed forms, from what the invariant says of each sat.
LEMMA NumbersFromInv ==
  ASSUME SubsidyAssumption, LedgerInv
  PROVE  NumbersAgree
<1>1. /\ height \in Nat /\ reward = subsidySats(height)
      /\ minted \in Seq([height : Nat, offset : Nat]) /\ Len(minted) = firstSatOfBlock(height)
  BY DEF LedgerInv
<1>2. TotalSats \in Nat /\ Len(minted) <= TotalSats /\ Len(minted) \in Nat
  BY <1>1, FirstSatBelowTotal
<1>3. ASSUME NEW sat \in 0 .. Len(minted) - 1
      PROVE  /\ satToHeight(sat) = minted[sat + 1]
             /\ (satRarity(sat) = "common") = (minted[sat + 1].offset # 0)
             /\ sat > 0 => satName(sat - 1) = Successor(satName(sat))
  <2>1. sat \in Nat /\ sat + 1 \in 1 .. Len(minted) /\ sat <= TotalSats
    BY <1>2
  <2>2. minted[sat + 1] \in [height : Nat, offset : Nat]
    <3> DEFINE Minting == [height : Nat, offset : Nat]
    <3>1. minted \in Seq(Minting)
      BY <1>1
    <3> HIDE DEF Minting
    <3>2. minted[sat + 1] \in Minting
      BY <2>1, <3>1
    <3> QED BY <3>2 DEF Minting
  <2>3. PICK h \in Nat, o \in Nat : minted[sat + 1] = [height |-> h, offset |-> o]
    BY <2>2
  <2>4. o < subsidySats(h) /\ sat = firstSatOfBlock(h) + o
    <3>1. MintedAt(sat)
      BY DEF LedgerInv
    <3>2. minted[sat + 1].height = h /\ minted[sat + 1].offset = o
      BY <2>3
    <3> QED BY <3>1, <3>2 DEF MintedAt
  <2>5. satToHeight(sat) = [height |-> h, offset |-> o]
    BY <2>4, HeightOfSat
  <2>6. sat = 0 => o = 0
    <3>1. firstSatOfBlock(h) \in Nat
      BY FirstSatBelowTotal
    <3> QED BY <2>4, <3>1
  <2>7. (satRarity(sat) = "common") = (o # 0)
    BY <2>5, <2>6, RareIsFirst
  <2>8. sat > 0 => satName(sat - 1) = Successor(satName(sat))
    BY <1>2, <2>1, NamesDescend
  <2>9. minted[sat + 1].offset = o
    BY <2>3
  <2> QED BY <2>3, <2>5, <2>7, <2>8, <2>9
<1> QED BY <1>1, <1>3 DEF NumbersAgree

(* At every height, whatever the schedule of halvings: the closed forms    *)
(* number the sats as the blocks mint them, satToHeight inverts them, and  *)
(* rarities and names tell the sats apart as they should.                  *)
THEOREM NumbersAlwaysAgree == LedgerSpec => []NumbersAgree
<1>1. LedgerInv => NumbersAgree
  BY SubsidyAssumption, NumbersFromInv
<1> QED BY <1>1, LedgerIsKept, PTL
=============================================================================
