-------------------------- MODULE CustodyFetchProofs --------------------------
(***************************************************************************)
(* The properties of fetchCustody, for any backends, attesters, paths and  *)
(* caps, and any number of liars.                                          *)
(*                                                                         *)
(* None of them is inductive.  Inv says what a bundle that is being built  *)
(* already is (BundleIsSound), that a truthful lead builds the path itself *)
(* (LeadIsTrue), what the attempts that are over tell of the chain         *)
(* (EndsAreTrue), and that each header that was anchored is what           *)
(* HeaderTrustProofs says of one (AnchorsAreTrue).                         *)
(***************************************************************************)
EXTENDS CustodyFetch, HeaderTrustProofs

BuildType ==
  [hops : Seq(Claims), served : SUBSET Endpoints, gave : SUBSET Endpoints,
   section : BOOLEAN, pending : BOOLEAN]

Building == {"lead", "section", "walk", "hop"}

HeaderUnanchored == [result |-> "HEADER_TRUST", unanimous |-> "unmarked"]
Found == [result |-> "custody", unanimous |-> "unmarked"]

Control ==
  /\ phase \in Building => anchored = 0
  /\ phase = "lead" => build = NoBuild /\ asked = 0
  /\ phase \in {"section", "walk", "hop", "anchor", "tip"} => build.hops # <<>>
  /\ phase = "section" => Len(build.hops) = 1
  /\ phase = "anchor" => anchored < Len(build.hops)
  /\ phase = "tip" => anchored = Len(build.hops)
  /\ phase # "done" => outcome = Running /\ Len(ended) < Len(Backends)
  /\ phase = "done" => \/ outcome = Found /\ anchored = Len(build.hops)
                       \/ outcome = HeaderUnanchored
                       \/ outcome = SharedRefusal(ended) /\ Len(ended) = Len(Backends)

\* What the walk has checked of each hop and of each two.
Chained(hops) ==
  /\ hops[1].tx # "forged"
  /\ \A h \in DOMAIN hops : AnchoredHop(hops[h])
  /\ \A h \in DOMAIN hops \ {1} :
       /\ InOrder(hops[h - 1], hops[h])
       /\ Spends(hops[h - 1].tx, hops[h].tx)
       /\ hops[h].block \in Heights => hops[h].tx # "forged"

\* A raw block of the chain pins the witness.
Pinned(bundle) ==
  bundle.section /\ bundle.hops[1].block \in Heights => bundle.hops[1].tx = "true"

BundleIsSound ==
  build.hops # <<>> =>
    /\ Chained(build.hops) /\ Pinned(build) /\ build.served = build.gave
    /\ phase # "section" => /\ NeedsSection => build.section
                            /\ \A h \in DOMAIN build.hops : ~build.hops[h].burns

OnPath(hops) == \A h \in DOMAIN hops : h \in DOMAIN world.path /\ hops[h] = TrueClaim(h)

LeadIsTrue ==
  phase \in Building \ {"lead"} =>
    /\ Lies(Server(Lead)) \/ Truthful(Server(Lead))
    /\ Truthful(Server(Lead)) =>
         /\ OnPath(build.hops)
         /\ phase = "section" => \A i \in 1 .. asked : ~Truthful(Server(i))

\* What an attempt led by no liar says of the chain.
EndIsTrue(i, how) ==
  /\ Truthful(Server(i)) => how # "noAnswer"
  /\ ~Lies(Server(i)) =>
       /\ how # "WitnessSectionUnavailable"
       /\ how = "CustodyUnsupported" => \E h \in DOMAIN world.path : world.path[h].burns
       /\ how = "CustodyHopLimit" => Len(world.path) > MaxHops + 1

EndsAreTrue == \A i \in DOMAIN ended : EndIsTrue(i, ended[i])

AnchoredTruly(hop) ==
  /\ Cardinality(LyingAttesters(build.served, world)) < MinAgreement => hop.block = hop.height
  /\ /\ MinConfirmations > 0 /\ ~Checkpointed(hop.height)
     /\ Cardinality(LyingAttesters(build.served, world))
          < Cardinality(TruthfulAttesters(build.served, world))
     => top - hop.height + 1 >= MinConfirmations

AnchorsAreTrue == \A h \in 1 .. anchored : AnchoredTruly(build.hops[h])

Inv ==
  TypeOK /\ Control /\ BundleIsSound /\ LeadIsTrue /\ EndsAreTrue /\ AnchorsAreTrue

-----------------------------------------------------------------------------

LEMMA HeightsAreNaturals ==
  /\ Heights \subseteq Nat \ {0} /\ Heights \subseteq Blocks
  /\ Easy \notin Heights /\ Forged \notin Heights
BY TrustAssumption DEF TrustAssumption, Heights, Blocks, Easy, Forged

\* The path of a world is one of those the runs may find.
LEMMA PathType ==
  ASSUME TypeOK
  PROVE  /\ world.path \in Seq([block : Heights, pos : Positions, burns : BOOLEAN])
         /\ world.path # <<>>
         /\ \A h \in DOMAIN world.path \ {1} : InOrder(TrueClaim(h - 1), TrueClaim(h))
         /\ world.liars \subseteq Servers
<1>1. world.path \in Paths /\ world.liars \subseteq Servers
  BY DEF TypeOK, PossibleWorlds, Worlds
<1>2. \A h \in DOMAIN world.path \ {1} : InOrder(TrueClaim(h - 1), TrueClaim(h))
  BY <1>1, PathAssumption DEF PathAssumption, InOrder, TrueClaim
<1> QED BY <1>1, <1>2, PathAssumption DEF PathAssumption

\* The next hop of the path passes every check of a walk.
LEMMA TrueClaimIsTaken ==
  ASSUME TypeOK, NEW h \in DOMAIN world.path
  PROVE  /\ TrueClaim(h) \in Claims
         /\ ConsistentHop(TrueClaim(h)) /\ AnchoredHop(TrueClaim(h))
         /\ TrueClaim(h).tx = "true" /\ TrueClaim(h).block \in Heights
         /\ TrueClaim(h).burns = world.path[h].burns
<1>1. world.path[h] \in [block : Heights, pos : Positions, burns : BOOLEAN]
  <2> DEFINE path == world.path
             Hops == [block : Heights, pos : Positions, burns : BOOLEAN]
  <2>1. path \in Seq(Hops)
    BY PathType
  <2>2. h \in DOMAIN path
    OBVIOUS
  <2> HIDE DEF path, Hops
  <2>3. path[h] \in Hops
    BY <2>1, <2>2
  <2> QED BY <2>3 DEF path, Hops
<1>2. TrueClaim(h).block \in Heights /\ TrueClaim(h) \in Claims
  BY <1>1, HeightsAreNaturals DEF TrueClaim, Claims, TxKinds
<1> QED BY <1>2, HeightsAreNaturals DEF TrueClaim, ConsistentHop, AnchoredHop

\* Who serves a claim lies, or tells the next hop of the path.
LEMMA ServedClaim ==
  ASSUME TypeOK, NEW s, NEW h \in Nat \ {0}, NEW claim \in ServedClaims(s, h)
  PROVE  /\ claim \in Claims
         /\ h > 1 /\ AnchoredHop(claim) /\ claim.block \in Heights => claim.tx # "forged"
         /\ \/ Lies(s)
            \/ Truthful(s) /\ h \in DOMAIN world.path /\ claim = TrueClaim(h)
<1>1. CASE Lies(s)
  BY <1>1 DEF ServedClaims, Possible, AnchoredHop
<1>2. CASE ~Lies(s)
  <2>1. Truthful(s) /\ h \in DOMAIN world.path /\ claim = TrueClaim(h)
    BY <1>2 DEF ServedClaims, Confirmed
  <2> QED BY <2>1, TrueClaimIsTaken
<1> QED BY <1>1, <1>2

\* The verifier finds nothing wrong with what the walk has taken.
LEMMA VerifierAgrees ==
  ASSUME Inv, phase = "walk"
  PROVE  VerifyVerdict = "ok"
<1>1. ASSUME NEW h \in DOMAIN build.hops
      PROVE  HopVerdict(h) = "ok"
  <2>1. /\ Chained(build.hops) /\ ~build.hops[h].burns
        /\ world.inputs > 1 => build.section
    BY DEF Inv, BundleIsSound, Control, NeedsSection
  <2>2. h \in Nat \ {0}
    BY DEF Inv, TypeOK
  <2>3. CASE h = 1
    BY <2>1, <2>3 DEF HopVerdict, Chained
  <2>4. CASE h > 1
    <3>1. h \in DOMAIN build.hops \ {1}
      BY <2>4
    <3> QED BY <2>1, <2>4, <3>1 DEF HopVerdict, Chained
  <2> QED BY <2>2, <2>3, <2>4
<1> QED BY <1>1 DEF VerifyVerdict

-----------------------------------------------------------------------------

\* What a refusal that is shared says of the attempts.
LEMMA SharedRefusalSays ==
  ASSUME NEW ends \in Seq(Recordable \cup {"noAnswer"})
  PROVE  /\ SharedRefusal(ends) \in [result : Recordable \cup {"BUILD_FAILED"},
                                     unanimous : {"unmarked", "yes", "no"}]
         /\ SharedRefusal(ends).result \in Recordable =>
              /\ SharedRefusal(ends).unanimous # "unmarked"
              /\ \E i \in DOMAIN ends : ends[i] = SharedRefusal(ends).result
         /\ SharedRefusal(ends).unanimous = "yes" =>
              /\ SharedRefusal(ends).result \in Recordable
              /\ \A i \in DOMAIN ends : ends[i] = SharedRefusal(ends).result
<1> DEFINE refusals == {i \in DOMAIN ends : ends[i] \in Recordable}
           shared == refusals # {} /\ \A i, j \in refusals : ends[i] = ends[j]
           r == SharedRefusal(ends)
<1>1. CASE shared
  <2> DEFINE one == CHOOSE i \in refusals : TRUE
             how == ends[one]
             said == IF Len(Backends) >= 2 /\ refusals = DOMAIN ends THEN "yes" ELSE "no"
  <2>1. one \in refusals
    BY <1>1
  <2>2. r = [result |-> how, unanimous |-> said]
    BY <1>1 DEF SharedRefusal
  <2>3. said \in {"yes", "no"} /\ (said = "yes" => refusals = DOMAIN ends)
    OBVIOUS
  <2>4. how \in Recordable /\ \E i \in DOMAIN ends : ends[i] = how
    BY <2>1
  <2>5. said = "yes" => \A i \in DOMAIN ends : ends[i] = how
    BY <1>1, <2>1, <2>3
  <2> HIDE DEF how, said, refusals, r
  <2>6. r.result = how /\ r.unanimous = said
    BY <2>2
  <2>7. r \in [result : Recordable \cup {"BUILD_FAILED"}, unanimous : {"unmarked", "yes", "no"}]
    BY <2>2, <2>3, <2>4
  <2>8. /\ r.result \in Recordable => r.unanimous # "unmarked" /\ \E i \in DOMAIN ends : ends[i] = r.result
        /\ r.unanimous = "yes" => r.result \in Recordable /\ \A i \in DOMAIN ends : ends[i] = r.result
    BY <2>3, <2>4, <2>5, <2>6
  <2> QED BY <2>7, <2>8 DEF r
<1>2. CASE ~shared
  <2>1. r = [Running EXCEPT !.result = "BUILD_FAILED"]
    BY <1>2 DEF SharedRefusal
  <2>2. r.result = "BUILD_FAILED" /\ r.unanimous = "unmarked"
        /\ r \in [result : {"BUILD_FAILED"}, unanimous : {"unmarked"}]
    BY <2>1 DEF Running
  <2>3. r \in [result : Recordable \cup {"BUILD_FAILED"}, unanimous : {"unmarked", "yes", "no"}]
    BY <2>2
  <2>4. r.result \notin Recordable
    BY <2>2 DEF Recordable
  <2> HIDE DEF r
  <2> QED BY <2>2, <2>3, <2>4 DEF r
<1> QED BY <1>1, <1>2
\* An attempt that is over leaves nothing but how it ended.
LEMMA AttemptEndsKeeps ==
  ASSUME Inv, phase \in Building, NEW how \in Recordable \cup {"noAnswer"},
         EndIsTrue(Lead, how), AttemptEnds(how)
  PROVE  Inv'
<1> USE DEF Inv
<1>1. /\ world' = world /\ top' = top /\ anchored' = 0 /\ tip' = tip /\ asked' = 0
      /\ build' = NoBuild /\ ended' = Append(ended, how)
      /\ ended \in Seq(Recordable \cup {"noAnswer"}) /\ Len(ended) < Len(Backends)
      /\ outcome = Running
  BY DEF AttemptEnds, Control, Building, TypeOK
<1>2. /\ ended' \in Seq(Recordable \cup {"noAnswer"}) /\ Len(ended') <= Len(Backends)
      /\ Len(ended') = Len(ended) + 1 /\ Len(Backends) \in Nat \ {0}
  BY <1>1, FetchAssumption DEF FetchAssumption
<1>3. \/ /\ phase' = "done" /\ outcome' = SharedRefusal(ended')
         /\ Len(ended') = Len(Backends)
      \/ phase' = "lead" /\ outcome' = Running /\ Len(ended') < Len(Backends)
  BY <1>1, <1>2 DEF AttemptEnds
<1>4. /\ build' \in BuildType /\ build'.hops = <<>> /\ Len(build'.hops) = 0
      /\ DOMAIN build'.hops = {}
  BY <1>1 DEF BuildType, NoBuild
<1>5. TypeOK'
  <2>1. (world \in PossibleWorlds /\ top \in Heights /\ asked \in 0 .. Len(Backends) - 1)'
    BY <1>1, <1>2 DEF TypeOK
  <2>2. (phase \in {"lead", "section", "walk", "hop", "anchor", "tip", "done"})'
    BY <1>3
  <2>3. (tip \in [DOMAIN Backends -> {"unasked", "unspent", "spent", "error"}])'
    BY <1>1 DEF TypeOK
  <2>4. outcome' \in [result : Recordable \cup {"running", "custody", "HEADER_TRUST", "BUILD_FAILED"},
                      unanimous : {"unmarked", "yes", "no"}]
    <3>1. CASE outcome' = Running
      BY <3>1 DEF Running
    <3>2. CASE outcome' = SharedRefusal(ended')
      BY <1>2, <3>2, SharedRefusalSays
    <3> QED BY <1>3, <3>1, <3>2
  <2>5. anchored' \in 0 .. Len(build'.hops)
    BY <1>1, <1>4
  <2> QED BY <1>2, <1>4, <2>1, <2>2, <2>3, <2>4, <2>5 DEF TypeOK, BuildType
<1>6. Control'
  BY <1>1, <1>3, <1>4 DEF Control, Building
<1>7. BundleIsSound' /\ AnchorsAreTrue'
  BY <1>1, <1>4 DEF BundleIsSound, AnchorsAreTrue
<1>8. LeadIsTrue'
  BY <1>3 DEF LeadIsTrue, Building
<1>9. EndsAreTrue'
  <2>1. \A i \in DOMAIN ended' : EndIsTrue(i, ended'[i])
    <3> SUFFICES ASSUME NEW i \in DOMAIN ended' PROVE EndIsTrue(i, ended'[i])
      OBVIOUS
    <3>1. i \in DOMAIN ended \/ i = Len(ended) + 1
      BY <1>1
    <3>2. CASE i \in DOMAIN ended
      <4>1. ended'[i] = ended[i]
        BY <1>1, <3>2
      <4> QED BY <3>2, <4>1 DEF EndsAreTrue
    <3>3. CASE i = Len(ended) + 1
      <4>1. ended'[i] = how
        BY <1>1, <3>3
      <4> QED BY <3>3, <4>1 DEF Lead
    <3> QED BY <3>1, <3>2, <3>3
  <2> QED BY <1>1, <2>1 DEF EndsAreTrue, EndIsTrue, Truthful, Lies, Server
<1> QED BY <1>5, <1>6, <1>7, <1>8, <1>9
\* Where the walk goes on, it has a bundle that is sound and, if the lead is
\* truthful, on the path.
LEMMA FollowSatKeeps ==
  ASSUME Inv, phase \in Building, NEW bundle \in BuildType,
         bundle.hops # <<>>, Chained(bundle.hops), Pinned(bundle),
         bundle.served = bundle.gave, NeedsSection => bundle.section,
         \A h \in DOMAIN bundle.hops : h < Len(bundle.hops) => ~bundle.hops[h].burns,
         Lies(Server(Lead)) \/ (Truthful(Server(Lead)) /\ OnPath(bundle.hops)),
         FollowSat(bundle)
  PROVE  Inv'
<1> USE DEF Inv
<1> DEFINE last == Len(bundle.hops)
<1>1. last \in DOMAIN bundle.hops /\ \A h \in DOMAIN bundle.hops : h \in Nat /\ h <= last
  BY DEF BuildType
<1>2. CASE bundle.hops[last].burns
  <2>1. AttemptEnds("CustodyUnsupported")
    BY <1>2 DEF FollowSat
  <2>2. Truthful(Server(Lead)) => \E h \in DOMAIN world.path : world.path[h].burns
    <3> SUFFICES ASSUME Truthful(Server(Lead))
                 PROVE  \E h \in DOMAIN world.path : world.path[h].burns
      OBVIOUS
    <3>1. last \in DOMAIN world.path /\ bundle.hops[last] = TrueClaim(last)
      BY <1>1 DEF OnPath, Truthful, Lies
    <3>2. TrueClaim(last).burns = world.path[last].burns
      BY <3>1, TrueClaimIsTaken
    <3> QED BY <1>2, <3>1, <3>2
  <2>3. EndIsTrue(Lead, "CustodyUnsupported")
    BY <2>2 DEF EndIsTrue
  <2> QED BY <2>1, <2>3, AttemptEndsKeeps DEF Recordable
<1>3. CASE ~bundle.hops[last].burns
  <2>1. /\ build' = bundle /\ phase' = "walk"
        /\ UNCHANGED <<world, top, ended, asked, anchored, tip, outcome>>
    BY <1>3 DEF FollowSat
  <2>2. anchored = 0 /\ outcome = Running /\ Len(ended) < Len(Backends)
    BY DEF Control, Building
  <2>3. TypeOK'
    <3>1. build' \in BuildType /\ anchored' \in 0 .. Len(build'.hops)
      BY <2>1, <2>2 DEF BuildType
    <3>2. (phase \in {"lead", "section", "walk", "hop", "anchor", "tip", "done"})'
      BY <2>1
    <3> QED BY <2>1, <3>1, <3>2 DEF TypeOK, BuildType, PossibleWorlds
  <2>4. Control'
    BY <2>1, <2>2 DEF Control, Building
  <2>5. \A h \in DOMAIN bundle.hops : ~bundle.hops[h].burns
    BY <1>1, <1>3
  <2>6. BundleIsSound'
    BY <2>1, <2>5 DEF BundleIsSound, Chained, Pinned, NeedsSection, AnchoredHop, InOrder, Spends
  <2>7. LeadIsTrue'
    BY <2>1 DEF LeadIsTrue, OnPath, TrueClaim, Truthful, Lies, Server, Lead, Building
  <2>8. EndsAreTrue' /\ AnchorsAreTrue'
    BY <2>1, <2>2 DEF EndsAreTrue, EndIsTrue, AnchorsAreTrue, Truthful, Lies, Server
  <2> QED BY <2>3, <2>4, <2>6, <2>7, <2>8
<1> QED BY <1>2, <1>3
-----------------------------------------------------------------------------
(* One lemma for each action.                                              *)

\* Only a lead that is not truthful leaves a request without an answer.
LEMMA LeadFailsKeeps ==
  ASSUME Inv, LeadFails
  PROVE  Inv'
<1>1. phase \in Building /\ ~Truthful(Server(Lead)) /\ AttemptEnds("noAnswer")
  BY DEF LeadFails, Building
<1>2. EndIsTrue(Lead, "noAnswer")
  BY <1>1 DEF EndIsTrue
<1> QED BY <1>1, <1>2, AttemptEndsKeeps

\* The reveal of a truthful lead is the one on the path.
LEMMA RevealKeeps ==
  ASSUME Inv, Reveal
  PROVE  Inv'
<1> USE DEF Inv
<1> DEFINE Bundle(claim) == [NoBuild EXCEPT !.hops = <<claim>>, !.served = {Backends[Lead]},
                                            !.gave = {Backends[Lead]}]
<1>1. PICK claim \in ServedClaims(Server(Lead), 1) :
        IF ~TakesReveal(claim) THEN AttemptEnds("noAnswer")
        ELSE IF NeedsSection
        THEN /\ build' = Bundle(claim)
             /\ phase' = "section"
             /\ UNCHANGED <<world, top, ended, asked, anchored, tip, outcome>>
        ELSE FollowSat(Bundle(claim))
  BY DEF Reveal
<1> DEFINE bundle == Bundle(claim)
<1>2. /\ claim \in Claims
      /\ \/ Lies(Server(Lead))
         \/ /\ Truthful(Server(Lead)) /\ 1 \in DOMAIN world.path
            /\ claim = TrueClaim(1)
  BY <1>1, ServedClaim
<1>3. phase = "lead" /\ Len(ended) < Len(Backends) /\ outcome = Running /\ anchored = 0 /\ asked = 0
  BY DEF Reveal, Control, Building
<1>4. Backends[Lead] \in Endpoints
  BY <1>3, FetchAssumption DEF FetchAssumption, Lead, TypeOK
<1>5. /\ bundle \in BuildType
      /\ bundle.hops = <<claim>> /\ bundle.served = bundle.gave /\ bundle.section = FALSE
  <2> DEFINE hops == <<claim>>
             lead == {Backends[Lead]}
  <2>1. bundle = [NoBuild EXCEPT !.hops = hops, !.served = lead, !.gave = lead]
    OBVIOUS
  <2>2. hops \in Seq(Claims) /\ lead \in SUBSET Endpoints
    BY <1>2, <1>4
  <2> HIDE DEF bundle, hops, lead
  <2>3. /\ bundle \in BuildType
        /\ bundle.hops = hops /\ bundle.served = lead /\ bundle.gave = lead
        /\ bundle.section = FALSE
    BY <2>1, <2>2 DEF NoBuild, BuildType
  <2>4. bundle.hops = <<claim>>
    BY <2>3 DEF hops
  <2> QED BY <2>3, <2>4
<1> HIDE DEF bundle
<1>7. /\ DOMAIN bundle.hops = {1} /\ Len(bundle.hops) = 1 /\ bundle.hops[1] = claim
      /\ bundle.hops # <<>>
  BY <1>5
<1>8. Lies(Server(Lead)) \/ (Truthful(Server(Lead)) /\ OnPath(bundle.hops))
  <2>1. ASSUME claim = TrueClaim(1), 1 \in DOMAIN world.path PROVE OnPath(bundle.hops)
    BY <1>7, <2>1 DEF OnPath
  <2> QED BY <1>2, <2>1
<1>9. CASE ~TakesReveal(claim)
  <2>1. AttemptEnds("noAnswer")
    BY <1>1, <1>9
  <2>2. ~Truthful(Server(Lead))
    <3>1. ASSUME Truthful(Server(Lead)) PROVE FALSE
      <4>1. 1 \in DOMAIN world.path /\ claim = TrueClaim(1)
        BY <1>2, <3>1 DEF Truthful, Lies
      <4> QED BY <1>9, <4>1, TrueClaimIsTaken DEF TakesReveal
    <3> QED BY <3>1
  <2>3. EndIsTrue(Lead, "noAnswer")
    BY <2>2 DEF EndIsTrue
  <2> QED BY <1>3, <2>1, <2>3, AttemptEndsKeeps DEF Building
<1>10. CASE TakesReveal(claim)
  <2>1. Chained(bundle.hops) /\ Pinned(bundle)
    BY <1>5, <1>7, <1>10 DEF Chained, Pinned, TakesReveal, ConsistentHop
  <2>2. CASE NeedsSection
    <3>1. /\ build' = bundle /\ phase' = "section"
          /\ UNCHANGED <<world, top, ended, asked, anchored, tip, outcome>>
      BY <1>1, <1>10, <2>2 DEF bundle
    <3>2. TypeOK'
      <4>1. build' \in BuildType /\ anchored' \in 0 .. Len(build'.hops)
        BY <1>3, <1>5, <1>7, <3>1
      <4>2. (phase \in {"lead", "section", "walk", "hop", "anchor", "tip", "done"})'
        BY <3>1
      <4> QED BY <3>1, <4>1, <4>2 DEF TypeOK, BuildType, PossibleWorlds
    <3>3. Control'
      BY <1>3, <1>7, <3>1 DEF Control, Building
    <3>4. BundleIsSound'
      BY <1>5, <2>1, <3>1 DEF BundleIsSound, Chained, Pinned, AnchoredHop, InOrder, Spends
    <3>5. LeadIsTrue'
      <4>1. Truthful(Server(Lead)) => OnPath(bundle.hops)
        BY <1>8 DEF Truthful, Lies
      <4>2. OnPath(bundle.hops) => OnPath(build.hops)'
        BY <3>1 DEF OnPath, TrueClaim
      <4>3. Lies(Server(Lead)) \/ Truthful(Server(Lead))
        BY <1>8
      <4>4. /\ Lies(Server(Lead))' = Lies(Server(Lead))
            /\ Truthful(Server(Lead))' = Truthful(Server(Lead))
        BY <3>1 DEF Truthful, Lies, Server, Lead
      <4>5. 1 .. asked' = {}
        BY <1>3, <3>1
      <4> QED BY <4>1, <4>2, <4>3, <4>4, <4>5 DEF LeadIsTrue
    <3>6. EndsAreTrue' /\ AnchorsAreTrue'
      BY <1>3, <3>1 DEF EndsAreTrue, EndIsTrue, AnchorsAreTrue, Truthful, Lies, Server
    <3> QED BY <3>2, <3>3, <3>4, <3>5, <3>6
  <2>3. CASE ~NeedsSection
    <3>1. FollowSat(bundle)
      BY <1>1, <1>10, <2>3 DEF bundle
    <3>2. \A h \in DOMAIN bundle.hops : h < Len(bundle.hops) => ~bundle.hops[h].burns
      BY <1>7
    <3>3. phase \in Building
      BY <1>3 DEF Building
    <3>4. NeedsSection => bundle.section
      BY <2>3
    <3> HIDE DEF Inv
    <3> QED BY <1>5, <1>7, <1>8, <2>1, <3>1, <3>2, <3>3, <3>4, FollowSatKeeps
  <2> QED BY <2>2, <2>3
<1> QED BY <1>9, <1>10
\* A raw block that is a block of the chain shows the witness it executed; if
\* nobody serves one, no configured backend is truthful.
LEMMA AskRawBlockKeeps ==
  ASSUME Inv, AskRawBlock
  PROVE  Inv'
<1> USE DEF Inv
<1> DEFINE claim == build.hops[1]
           endpoint == Backends[asked + 1]
           s == Server(asked + 1)
<1>1. /\ phase = "section" /\ phase \in Building /\ build.hops # <<>> /\ build \in BuildType
      /\ Chained(build.hops) /\ build.served = build.gave
      /\ Lies(Server(Lead)) \/ (Truthful(Server(Lead)) /\ OnPath(build.hops))
      /\ Len(ended) < Len(Backends) /\ anchored = 0 /\ outcome = Running
  BY DEF AskRawBlock, Building, Control, BundleIsSound, LeadIsTrue, TypeOK, BuildType
<1>2. /\ asked \in Nat /\ asked + 1 \in DOMAIN Backends /\ endpoint \in Endpoints
      /\ asked + 1 <= Len(Backends)
  BY FetchAssumption DEF FetchAssumption, TypeOK
<1>3. 1 \in DOMAIN build.hops
  BY <1>1 DEF BuildType
<1>4. CASE ServesRaw(s, claim) /\ FollowSat([WithSection(build, endpoint)
                                               EXCEPT !.gave = @ \cup {endpoint}])
  <2> DEFINE bundle == [WithSection(build, endpoint) EXCEPT !.gave = @ \cup {endpoint}]
             served == build.served \cup {endpoint}
  <2>1. /\ bundle.hops = build.hops /\ bundle.section = TRUE
        /\ bundle.served = served /\ bundle.gave = build.gave \cup {endpoint}
    BY <1>1 DEF WithSection, BuildType
  <2>2. served \in SUBSET Endpoints /\ build.gave \cup {endpoint} \in SUBSET Endpoints
    BY <1>1, <1>2 DEF BuildType
  <2>3. bundle \in BuildType
    BY <1>1, <2>2 DEF WithSection, BuildType
  <2>4. FollowSat(bundle)
    BY <1>4
  <2> HIDE DEF bundle
  <2>5. bundle.served = bundle.gave
    BY <1>1, <2>1
  <2>6. Pinned(bundle)
    BY <1>4, <2>1, HeightsAreNaturals DEF Pinned, ServesRaw
  <2>7. \A h \in DOMAIN bundle.hops : h < Len(bundle.hops) => ~bundle.hops[h].burns
    <3>1. Len(build.hops) = 1
      BY <1>1 DEF Control
    <3> QED BY <1>1, <2>1, <3>1 DEF BuildType
  <2> HIDE DEF Inv
  <2> QED BY <1>1, <2>1, <2>3, <2>4, <2>5, <2>6, <2>7, FollowSatKeeps
<1>5. Truthful(Server(Lead)) /\ MayNotServeRaw(s, claim) => \A i \in 1 .. asked + 1 : ~Truthful(Server(i))
  <2> SUFFICES ASSUME Truthful(Server(Lead)), MayNotServeRaw(s, claim)
               PROVE  \A i \in 1 .. asked + 1 : ~Truthful(Server(i))
    OBVIOUS
  <2>1. claim = TrueClaim(1) /\ 1 \in DOMAIN world.path
    BY <1>1, <1>3 DEF OnPath, Truthful, Lies
  <2>2. ~Truthful(s)
    BY <2>1, TrueClaimIsTaken DEF MayNotServeRaw, ServesRaw, Truthful, Lies
  <2>3. \A i \in 1 .. asked : ~Truthful(Server(i))
    BY <1>1 DEF LeadIsTrue
  <2>4. \A i \in 1 .. asked + 1 : i \in 1 .. asked \/ i = asked + 1
    BY <1>2
  <2> QED BY <2>2, <2>3, <2>4
<1>6. CASE /\ MayNotServeRaw(s, claim) /\ asked + 1 < Len(Backends) /\ asked' = asked + 1
           /\ UNCHANGED <<world, top, phase, ended, build, anchored, tip, outcome>>
  <2>1. TypeOK'
    BY <1>2, <1>6 DEF TypeOK, PossibleWorlds
  <2>2. Control' /\ AnchorsAreTrue'
    BY <1>1, <1>6 DEF Control, AnchorsAreTrue
  <2>3. BundleIsSound'
    BY <1>6 DEF BundleIsSound, Chained, Pinned, AnchoredHop, InOrder, Spends, NeedsSection
  <2>4. EndsAreTrue'
    BY <1>6 DEF EndsAreTrue, EndIsTrue, Truthful, Lies, Server
  <2>5. LeadIsTrue'
    <3>1. Truthful(Server(Lead)) => OnPath(build.hops) /\ \A i \in 1 .. asked' : ~Truthful(Server(i))
      BY <1>1, <1>5, <1>6 DEF Truthful, Lies
    <3> QED BY <1>1, <1>6, <3>1 DEF LeadIsTrue, OnPath, TrueClaim, Truthful, Lies, Server, Lead
  <2> QED BY <2>1, <2>2, <2>3, <2>4, <2>5
<1>7. CASE /\ MayNotServeRaw(s, claim) /\ asked + 1 = Len(Backends)
           /\ AttemptEnds("WitnessSectionUnavailable")
  <2>1. ~Truthful(Server(Lead))
    <3>1. Lead \in 1 .. asked + 1
      BY <1>1, <1>2, <1>7 DEF Lead, TypeOK
    <3> QED BY <1>5, <1>7, <3>1
  <2>2. EndIsTrue(Lead, "WitnessSectionUnavailable")
    BY <1>1, <2>1 DEF EndIsTrue
  <2> HIDE DEF Inv
  <2> QED BY <1>1, <1>7, <2>2, AttemptEndsKeeps DEF Recordable
<1>8. \/ ServesRaw(s, claim) /\ FollowSat([WithSection(build, endpoint)
                                             EXCEPT !.gave = @ \cup {endpoint}])
      \/ /\ MayNotServeRaw(s, claim)
         /\ IF asked + 1 < Len(Backends)
            THEN /\ asked' = asked + 1
                 /\ UNCHANGED <<world, top, phase, ended, build, anchored, tip, outcome>>
            ELSE AttemptEnds("WitnessSectionUnavailable")
  BY DEF AskRawBlock
<1> QED BY <1>2, <1>4, <1>6, <1>7, <1>8
\* The walk of a truthful lead is as long as the path; the verifier agrees
\* with what was built.
LEMMA AskOutspendKeeps ==
  ASSUME Inv, AskOutspend
  PROVE  Inv'
<1> USE DEF Inv
<1>1. /\ phase = "walk" /\ build \in BuildType /\ build.hops # <<>> /\ Len(build.hops) \in Nat \ {0}
      /\ Len(ended) < Len(Backends) /\ anchored = 0 /\ outcome = Running
      /\ Lies(Server(Lead)) \/ Truthful(Server(Lead))
  BY DEF AskOutspend, Building, Control, LeadIsTrue, TypeOK, BuildType
<1>2. PICK spent \in Outspends(Server(Lead), build.hops) :
        CASE spent = "unspent" -> WalkEnds(FALSE)
          [] spent = "unconfirmed" -> WalkEnds(TRUE)
          [] spent = "confirmed" ->
               IF OverCap(build.hops) THEN AttemptEnds("CustodyHopLimit")
               ELSE /\ phase' = "hop"
                    /\ UNCHANGED <<world, top, ended, build, asked, anchored, tip, outcome>>
  BY DEF AskOutspend
<1>3. spent \in {"unspent", "unconfirmed", "confirmed"}
  BY <1>1 DEF Outspends
<1>4. ASSUME NEW pending \in BOOLEAN, WalkEnds(pending) PROVE Inv'
  <2>1. /\ build' = [build EXCEPT !.pending = pending] /\ phase' = "anchor"
        /\ UNCHANGED <<world, top, ended, asked, anchored, tip, outcome>>
    BY <1>1, <1>4, VerifierAgrees DEF WalkEnds
  <2>2. /\ build' \in BuildType /\ build'.hops = build.hops /\ build'.section = build.section
        /\ build'.served = build.served /\ build'.gave = build.gave
    BY <1>1, <2>1 DEF BuildType
  <2>3. TypeOK'
    <3>1. anchored' \in 0 .. Len(build'.hops)
      BY <1>1, <2>1, <2>2
    <3>2. (phase \in {"lead", "section", "walk", "hop", "anchor", "tip", "done"})'
      BY <2>1
    <3> QED BY <2>1, <2>2, <3>1, <3>2 DEF TypeOK, BuildType, PossibleWorlds
  <2>4. Control'
    BY <1>1, <2>1, <2>2 DEF Control, Building
  <2>5. BundleIsSound'
    BY <1>1, <2>1, <2>2 DEF BundleIsSound, Chained, Pinned, AnchoredHop, InOrder, Spends, NeedsSection
  <2>6. EndsAreTrue' /\ AnchorsAreTrue' /\ LeadIsTrue'
    BY <1>1, <2>1 DEF EndsAreTrue, EndIsTrue, AnchorsAreTrue, LeadIsTrue, Building,
         Truthful, Lies, Server
  <2> QED BY <2>3, <2>4, <2>5, <2>6
<1>5. CASE spent = "confirmed" /\ OverCap(build.hops)
  <2>1. AttemptEnds("CustodyHopLimit")
    BY <1>2, <1>5
  <2>2. Truthful(Server(Lead)) => Len(world.path) > MaxHops + 1
    <3> SUFFICES ASSUME Truthful(Server(Lead)) PROVE Len(world.path) > MaxHops + 1
      OBVIOUS
    <3>1. Len(build.hops) + 1 \in DOMAIN world.path
      BY <1>2, <1>5 DEF Outspends, Confirmed, Truthful, Lies
    <3>2. Len(world.path) \in Nat /\ DOMAIN world.path = 1 .. Len(world.path)
      BY PathType
    <3> QED BY <1>1, <1>5, <3>1, <3>2, FetchAssumption DEF OverCap, FetchAssumption
  <2>3. EndIsTrue(Lead, "CustodyHopLimit")
    BY <1>1, <2>2 DEF EndIsTrue
  <2> HIDE DEF Inv
  <2> QED BY <1>1, <2>1, <2>3, AttemptEndsKeeps DEF Recordable, Building
<1>6. CASE spent = "confirmed" /\ ~OverCap(build.hops)
  <2>1. phase' = "hop" /\ UNCHANGED <<world, top, ended, build, asked, anchored, tip, outcome>>
    BY <1>2, <1>6
  <2>2. TypeOK' /\ Control'
    BY <1>1, <2>1 DEF TypeOK, PossibleWorlds, Control, Building
  <2>3. BundleIsSound'
    BY <1>1, <2>1 DEF BundleIsSound, Chained, Pinned, AnchoredHop, InOrder, Spends, NeedsSection
  <2>4. LeadIsTrue'
    BY <1>1, <2>1 DEF LeadIsTrue, OnPath, TrueClaim, Truthful, Lies, Server, Lead, Building
  <2>5. EndsAreTrue' /\ AnchorsAreTrue'
    BY <1>1, <2>1 DEF EndsAreTrue, EndIsTrue, AnchorsAreTrue, Truthful, Lies, Server
  <2> QED BY <2>2, <2>3, <2>4, <2>5
<1> QED BY <1>2, <1>3, <1>4, <1>5, <1>6
\* A hop the walk takes continues the chain of hops, and a truthful lead's
\* continues the path: its next hop passes every check.
LEMMA WalkHopKeeps ==
  ASSUME Inv, WalkHop
  PROVE  Inv'
<1> USE DEF Inv
<1> DEFINE n == Len(build.hops)
<1>1. /\ phase = "hop" /\ phase \in Building /\ build \in BuildType /\ build.hops # <<>>
      /\ n \in Nat \ {0} /\ build.hops \in Seq(Claims) /\ DOMAIN build.hops = 1 .. n
      /\ Chained(build.hops) /\ Pinned(build) /\ build.served = build.gave
      /\ NeedsSection => build.section
      /\ \A h \in DOMAIN build.hops : ~build.hops[h].burns
      /\ Truthful(Server(Lead)) => OnPath(build.hops)
  BY DEF WalkHop, Building, Control, BundleIsSound, LeadIsTrue, TypeOK, BuildType
<1>2. PICK claim \in ServedClaims(Server(Lead), n + 1) :
        IF TakesHop(build.hops, claim)
        THEN FollowSat([build EXCEPT !.hops = Append(@, claim)])
        ELSE AttemptEnds("noAnswer")
  BY DEF WalkHop
<1>3. n + 1 \in Nat \ {0}
  BY <1>1
<1>4. /\ claim \in Claims
      /\ AnchoredHop(claim) /\ claim.block \in Heights => claim.tx # "forged"
      /\ \/ Lies(Server(Lead))
         \/ Truthful(Server(Lead)) /\ n + 1 \in DOMAIN world.path /\ claim = TrueClaim(n + 1)
  BY <1>1, <1>2, <1>3, ServedClaim
<1>5. CASE TakesHop(build.hops, claim)
  <2> DEFINE bundle == [build EXCEPT !.hops = Append(@, claim)]
             hops == Append(build.hops, claim)
  <2>1. /\ bundle.hops = hops /\ bundle.section = build.section
        /\ bundle.served = build.served /\ bundle.gave = build.gave /\ bundle \in BuildType
    <3>1. hops \in Seq(Claims)
      BY <1>1, <1>4
    <3>2. bundle = [build EXCEPT !.hops = hops]
      OBVIOUS
    <3> HIDE DEF bundle, hops
    <3> QED BY <1>1, <3>1, <3>2 DEF BuildType
  <2>2. /\ Len(hops) = n + 1 /\ DOMAIN hops = 1 .. n + 1 /\ hops # <<>>
        /\ \A h \in 1 .. n : hops[h] = build.hops[h]
        /\ hops[n + 1] = claim
    BY <1>1, <1>4
  <2>3. FollowSat(bundle)
    BY <1>2, <1>5
  <2> HIDE DEF bundle, hops
  <2>4. Chained(hops)
    <3>1. hops[1].tx # "forged"
      BY <1>1, <2>2 DEF Chained
    <3>2. \A h \in DOMAIN hops : AnchoredHop(hops[h])
      BY <1>1, <1>5, <2>2 DEF Chained, TakesHop, ConsistentHop
    <3>3. ASSUME NEW h \in DOMAIN hops \ {1}
          PROVE  /\ InOrder(hops[h - 1], hops[h])
                 /\ Spends(hops[h - 1].tx, hops[h].tx)
                 /\ hops[h].block \in Heights => hops[h].tx # "forged"
      <4>1. CASE h = n + 1
        <5>1. n \in 1 .. n /\ h - 1 = n
          BY <1>1, <4>1
        <5> QED BY <1>4, <1>5, <2>2, <4>1, <5>1 DEF TakesHop, ConsistentHop
      <4>2. CASE h # n + 1
        <5>1. h \in 1 .. n /\ h - 1 \in 1 .. n
          BY <1>1, <2>2, <4>2
        <5> QED BY <1>1, <2>2, <5>1 DEF Chained
      <4> QED BY <4>1, <4>2
    <3> QED BY <3>1, <3>2, <3>3 DEF Chained
  <2>5. Pinned(bundle)
    BY <1>1, <2>1, <2>2 DEF Pinned
  <2>6. \A h \in DOMAIN hops : h < Len(hops) => ~hops[h].burns
    BY <1>1, <2>2
  <2>7. Truthful(Server(Lead)) => OnPath(hops)
    <3> SUFFICES ASSUME Truthful(Server(Lead)), NEW h \in DOMAIN hops
                 PROVE  h \in DOMAIN world.path /\ hops[h] = TrueClaim(h)
      BY DEF OnPath
    <3>1. CASE h = n + 1
      BY <1>4, <2>2, <3>1 DEF Truthful, Lies
    <3>2. CASE h # n + 1
      BY <1>1, <2>2, <3>2 DEF OnPath
    <3> QED BY <3>1, <3>2
  <2>8. Lies(Server(Lead)) \/ (Truthful(Server(Lead)) /\ OnPath(hops))
    BY <1>4, <2>7
  <2> HIDE DEF Inv
  <2> QED BY <1>1, <2>1, <2>2, <2>3, <2>4, <2>5, <2>6, <2>8, FollowSatKeeps
<1>6. CASE ~TakesHop(build.hops, claim)
  <2>1. AttemptEnds("noAnswer")
    BY <1>2, <1>6
  <2>2. ASSUME Truthful(Server(Lead)) PROVE FALSE
    <3>1. n + 1 \in DOMAIN world.path /\ claim = TrueClaim(n + 1)
      BY <1>4, <2>2 DEF Truthful, Lies
    <3>2. n \in DOMAIN world.path /\ build.hops[n] = TrueClaim(n)
      BY <1>1, <2>2 DEF OnPath
    <3>3. InOrder(TrueClaim(n), TrueClaim(n + 1))
      <4>1. n + 1 \in DOMAIN world.path \ {1} /\ (n + 1) - 1 = n
        BY <1>1, <3>1
      <4> QED BY <4>1, PathType
    <3>4. ConsistentHop(claim) /\ claim.tx = "true" /\ build.hops[n].tx = "true"
      BY <3>1, <3>2, TrueClaimIsTaken
    <3> QED BY <1>6, <3>1, <3>2, <3>3, <3>4 DEF TakesHop, Spends
  <2>3. EndIsTrue(Lead, "noAnswer")
    BY <2>2 DEF EndIsTrue
  <2> HIDE DEF Inv
  <2> QED BY <1>1, <2>1, <2>3, AttemptEndsKeeps
<1> QED BY <1>5, <1>6
\* A header is anchored where HeaderTrustProofs says what that shows; a chain
\* that grows only buries it deeper.
LEMMA AnchorHopKeeps ==
  ASSUME Inv, AnchorHop
  PROVE  Inv'
<1> USE DEF Inv
<1> DEFINE next == anchored + 1
           hop == build.hops[next]
<1>1. /\ phase = "anchor" /\ build \in BuildType /\ anchored \in Nat
      /\ Len(build.hops) \in Nat /\ anchored < Len(build.hops) /\ next \in DOMAIN build.hops
      /\ outcome = Running /\ Len(ended) < Len(Backends)
      /\ build.hops # <<>> /\ top \in Heights /\ world.liars \subseteq Servers
  BY PathType DEF AnchorHop, Control, TypeOK, BuildType
<1>2. hop \in Claims
  BY <1>1 DEF BuildType
<1>3. hop.block \in Blocks /\ hop.height \in Heights
  BY <1>2 DEF Claims
<1>4. UNCHANGED <<world, top, ended, build, asked, tip>>
  BY DEF AnchorHop
<1>5. BundleIsSound' /\ EndsAreTrue'
  <2>1. phase' # "section"
    BY <1>1 DEF AnchorHop
  <2> QED BY <1>1, <1>4, <2>1 DEF BundleIsSound, Chained, Pinned, AnchoredHop, InOrder, Spends,
            NeedsSection, EndsAreTrue, EndIsTrue, Truthful, Lies, Server
<1>6. CASE /\ MayAnchor(hop.block, hop.height, build.served, world, top)
           /\ anchored' = next
           /\ phase' = IF anchored' = Len(build.hops) THEN "tip" ELSE phase
           /\ UNCHANGED outcome
  <2>1. AnchoredTruly(hop)
    <3>1. Cardinality(LyingAttesters(build.served, world)) < MinAgreement => hop.block = hop.height
      BY <1>1, <1>3, <1>6, QuorumNamesTheBlock
    <3>2. ASSUME MinConfirmations > 0, ~Checkpointed(hop.height),
                 Cardinality(LyingAttesters(build.served, world))
                   < Cardinality(TruthfulAttesters(build.served, world))
          PROVE  top - hop.height + 1 >= MinConfirmations
      <4>1. PICK t \in Tips(Attesters(build.served), world, top) : DeepEnough(t, hop.height)
        BY <1>6, <3>2, TrustAssumption DEF MayAnchor, TrustAssumption
      <4> QED BY <1>1, <1>3, <3>2, <4>1, EnforcedDepthIsReal
    <3> QED BY <3>1, <3>2 DEF AnchoredTruly
  <2>2. \A h \in 1 .. next : AnchoredTruly(build.hops[h])
    <3>1. \A h \in 1 .. next : h \in 1 .. anchored \/ h = next
      BY <1>1
    <3> QED BY <2>1, <3>1 DEF AnchorsAreTrue
  <2>3. AnchorsAreTrue'
    BY <1>4, <1>6, <2>2 DEF AnchorsAreTrue, AnchoredTruly
  <2>4. phase' \in {"anchor", "tip"} /\ (phase' = "tip" => next = Len(build.hops))
        /\ (phase' = "anchor" => next < Len(build.hops))
    BY <1>1, <1>6
  <2>5. TypeOK'
    <3>1. anchored' \in 0 .. Len(build'.hops)
      BY <1>1, <1>4, <1>6
    <3> QED BY <1>4, <1>6, <2>4, <3>1 DEF TypeOK, PossibleWorlds
  <2>6. Control' /\ LeadIsTrue'
    BY <1>1, <1>4, <1>6, <2>4 DEF Control, Building, LeadIsTrue
  <2> QED BY <1>5, <2>3, <2>5, <2>6
<1>7. CASE /\ phase' = "done"
           /\ outcome' = [Running EXCEPT !.result = "HEADER_TRUST"]
           /\ UNCHANGED anchored
  <2>1. outcome' = HeaderUnanchored
    BY <1>7 DEF HeaderUnanchored, Running
  <2>2. TypeOK'
    <3>1. outcome' \in [result : Recordable \cup {"running", "custody", "HEADER_TRUST", "BUILD_FAILED"},
                       unanimous : {"unmarked", "yes", "no"}]
      BY <2>1 DEF HeaderUnanchored
    <3> QED BY <1>4, <1>7, <3>1 DEF TypeOK, PossibleWorlds
  <2>3. Control' /\ LeadIsTrue'
    BY <1>7, <2>1 DEF Control, Building, LeadIsTrue
  <2>4. AnchorsAreTrue'
    BY <1>4, <1>7 DEF AnchorsAreTrue, AnchoredTruly
  <2> QED BY <1>5, <2>2, <2>3, <2>4
<1> QED BY <1>6, <1>7 DEF AnchorHop

LEMMA TipAnswerKeeps ==
  ASSUME Inv, NEW i \in DOMAIN Backends, TipAnswer(i)
  PROVE  Inv'
<1> USE DEF Inv
<1>1. /\ phase = "tip" /\ build.hops # <<>> /\ anchored = Len(build.hops) /\ outcome = Running
      /\ UNCHANGED <<world, top, ended, build, asked, anchored>>
  BY DEF TipAnswer, Control
<1>2. \/ phase' = "done" /\ outcome' = Found
      \/ phase' = "tip" /\ outcome' = Running
  BY <1>1 DEF TipAnswer, Found, Running
<1>3. TypeOK'
  <2>1. tip' \in [DOMAIN Backends -> {"unasked", "unspent", "spent", "error"}]
    BY DEF TipAnswer, TypeOK
  <2>2. outcome' \in [result : Recordable \cup {"running", "custody", "HEADER_TRUST", "BUILD_FAILED"},
                      unanimous : {"unmarked", "yes", "no"}]
    BY <1>2 DEF Found, Running
  <2>3. (phase \in {"lead", "section", "walk", "hop", "anchor", "tip", "done"})'
    BY <1>2
  <2> QED BY <1>1, <2>1, <2>2, <2>3 DEF TypeOK, PossibleWorlds
<1>4. Control' /\ LeadIsTrue'
  BY <1>1, <1>2 DEF Control, Building, LeadIsTrue
<1>5. BundleIsSound'
  BY <1>1, <1>2 DEF BundleIsSound, Chained, Pinned, AnchoredHop, InOrder, Spends, NeedsSection
<1>6. EndsAreTrue' /\ AnchorsAreTrue'
  BY <1>1 DEF EndsAreTrue, EndIsTrue, AnchorsAreTrue, AnchoredTruly, Truthful, Lies, Server
<1> QED BY <1>3, <1>4, <1>5, <1>6

LEMMA GrowKeeps ==
  ASSUME Inv, Grow
  PROVE  Inv'
<1> USE DEF Inv
<1>1. /\ top \in Nat /\ top' = top + 1 /\ top' \in Heights
      /\ UNCHANGED <<world, phase, ended, build, asked, anchored, tip, outcome>>
  BY TrustAssumption DEF TrustAssumption, Grow, TypeOK, Heights
<1>2. TypeOK' /\ Control'
  BY <1>1 DEF TypeOK, PossibleWorlds, Control, Building
<1>3. BundleIsSound'
  BY <1>1 DEF BundleIsSound, Chained, Pinned, AnchoredHop, InOrder, Spends, NeedsSection
<1>4. LeadIsTrue'
  BY <1>1 DEF LeadIsTrue, OnPath, TrueClaim, Truthful, Lies, Server, Lead, Building
<1>5. EndsAreTrue'
  BY <1>1 DEF EndsAreTrue, EndIsTrue, Truthful, Lies, Server
<1>6. AnchorsAreTrue'
  <2>1. ASSUME NEW h \in 1 .. anchored PROVE AnchoredTruly(build.hops[h])'
    <3>1. h \in DOMAIN build.hops
      BY DEF TypeOK
    <3>2. build.hops[h].height \in Nat
      <4>1. build.hops[h] \in Claims
        BY <3>1 DEF TypeOK
      <4> QED BY <4>1, HeightsAreNaturals DEF Claims
    <3>3. AnchoredTruly(build.hops[h])
      BY DEF AnchorsAreTrue
    <3> QED BY <1>1, <3>2, <3>3, TrustAssumption DEF AnchoredTruly, TrustAssumption
  <2> QED BY <1>1, <2>1 DEF AnchorsAreTrue
<1> QED BY <1>2, <1>3, <1>4, <1>5, <1>6
-----------------------------------------------------------------------------

LEMMA InitEstablishesInv ==
  ASSUME Init
  PROVE  Inv
<1>1. /\ phase = "lead" /\ ended = <<>> /\ build = NoBuild /\ asked = 0 /\ anchored = 0
      /\ outcome = Running /\ world \in PossibleWorlds /\ top = world.path[1].block
      /\ tip = [i \in DOMAIN Backends |-> "unasked"]
  BY DEF Init
<1>2. Len(Backends) \in Nat \ {0}
  BY FetchAssumption DEF FetchAssumption
<1>3. top \in Heights
  <2> DEFINE path == world.path
             Hops == [block : Heights, pos : Positions, burns : BOOLEAN]
  <2>1. path \in Paths
    BY <1>1 DEF PossibleWorlds, Worlds
  <2>2. path \in Seq(Hops) /\ path # <<>>
    BY <2>1, PathAssumption DEF PathAssumption
  <2> HIDE DEF path, Hops
  <2>3. path[1] \in Hops
    BY <2>2
  <2>4. path[1].block \in Heights
    BY <2>3 DEF Hops
  <2> QED BY <1>1, <2>4 DEF path
<1>4. build \in BuildType /\ build.hops = <<>>
  BY <1>1 DEF NoBuild, BuildType
<1>5. TypeOK
  <2>1. ended \in Seq(Recordable \cup {"noAnswer"}) /\ Len(ended) <= Len(Backends)
    BY <1>1, <1>2
  <2>2. asked \in 0 .. Len(Backends) - 1 /\ anchored \in 0 .. Len(build.hops)
    BY <1>1, <1>2, <1>4
  <2>3. outcome \in [result : Recordable \cup {"running", "custody", "HEADER_TRUST", "BUILD_FAILED"},
                     unanimous : {"unmarked", "yes", "no"}]
    BY <1>1 DEF Running
  <2> QED BY <1>1, <1>3, <1>4, <2>1, <2>2, <2>3 DEF TypeOK, BuildType
<1>6. Control
  BY <1>1, <1>2 DEF Control, Building
<1>7. BundleIsSound /\ LeadIsTrue /\ EndsAreTrue /\ AnchorsAreTrue
  BY <1>1, <1>4 DEF BundleIsSound, LeadIsTrue, EndsAreTrue, AnchorsAreTrue
<1> QED BY <1>5, <1>6, <1>7 DEF Inv

LEMMA StepKeepsInv ==
  ASSUME Inv, [Next]_vars
  PROVE  Inv'
<1>1. CASE UNCHANGED vars
  <2> USE <1>1 DEF vars, Inv
  <2>1. TypeOK' /\ Control'
    BY DEF TypeOK, PossibleWorlds, Control, Building
  <2>2. BundleIsSound'
    BY DEF BundleIsSound, Chained, Pinned, AnchoredHop, InOrder, Spends, NeedsSection
  <2>3. LeadIsTrue'
    BY DEF LeadIsTrue, OnPath, TrueClaim, Lead, Server, Lies, Truthful, Building
  <2>4. EndsAreTrue' /\ AnchorsAreTrue'
    BY DEF EndsAreTrue, EndIsTrue, AnchorsAreTrue, AnchoredTruly, Server, Lies, Truthful
  <2> QED BY <2>1, <2>2, <2>3, <2>4
<1>2. CASE Next
  BY <1>2, LeadFailsKeeps, RevealKeeps, AskRawBlockKeeps, AskOutspendKeeps, WalkHopKeeps,
     AnchorHopKeeps, TipAnswerKeeps, GrowKeeps DEF Next
<1> QED BY <1>1, <1>2

\* What a fetch knows at each of its steps.
THEOREM AlwaysInv == Spec => []Inv
<1>1. Init => Inv
  BY InitEstablishesInv
<1>2. Inv /\ [Next]_vars => Inv'
  BY StepKeepsInv
<1> QED BY <1>1, <1>2, PTL DEF Spec

-----------------------------------------------------------------------------

\* How a fetch can have ended.
LEMMA Ended ==
  ASSUME Inv
  PROVE  /\ outcome.result = "custody" =>
              /\ phase = "done" /\ anchored = Len(build.hops)
         /\ outcome.result \in Recordable \cup {"BUILD_FAILED"} \/ outcome.unanimous # "unmarked" =>
              /\ phase = "done" /\ outcome = SharedRefusal(ended)
              /\ ended \in Seq(Recordable \cup {"noAnswer"}) /\ DOMAIN ended = DOMAIN Backends
         /\ outcome.result \in {"running", "custody", "HEADER_TRUST", "BUILD_FAILED"} \cup Recordable
<1> USE DEF Inv
<1>1. ended \in Seq(Recordable \cup {"noAnswer"}) /\ Len(ended) \in Nat
      /\ DOMAIN ended = 1 .. Len(ended) /\ DOMAIN Backends = 1 .. Len(Backends)
  BY FetchAssumption DEF FetchAssumption, TypeOK
<1>2. SharedRefusal(ended).result \in Recordable \cup {"BUILD_FAILED"}
  BY <1>1, SharedRefusalSays
<1>3. \/ outcome = Running
      \/ phase = "done" /\ outcome = Found /\ anchored = Len(build.hops)
      \/ outcome = HeaderUnanchored
      \/ phase = "done" /\ outcome = SharedRefusal(ended) /\ Len(ended) = Len(Backends)
  BY DEF Control
<1>4. /\ Running.result = "running" /\ Running.unanimous = "unmarked"
      /\ Found.result = "custody" /\ Found.unanimous = "unmarked"
      /\ HeaderUnanchored.result = "HEADER_TRUST" /\ HeaderUnanchored.unanimous = "unmarked"
  BY DEF Running, Found, HeaderUnanchored
<1>5. Recordable \cap {"running", "custody", "HEADER_TRUST", "BUILD_FAILED"} = {}
  BY DEF Recordable
<1>6. CASE outcome = Running \/ outcome = HeaderUnanchored
  BY <1>4, <1>5, <1>6
<1>7. CASE phase = "done" /\ outcome = Found /\ anchored = Len(build.hops)
  BY <1>4, <1>5, <1>7
<1>8. CASE phase = "done" /\ outcome = SharedRefusal(ended) /\ Len(ended) = Len(Backends)
  BY <1>1, <1>2, <1>5, <1>8
<1> QED BY <1>3, <1>6, <1>7, <1>8

\* Every variable of a fetch keeps its type, whatever is served.
THEOREM CustodyTypeCorrect == Spec => []TypeOK
<1>1. Inv => TypeOK
  BY DEF Inv
<1> QED BY <1>1, AlwaysInv, PTL

\* Custody is reported over blocks of the chain at their heights, and with a
\* witness section over the hops of the path, unless as many attesters lie as
\* it takes to anchor a header.
THEOREM CustodyAlwaysTrue == Spec => []CustodyIsTrue
<1>1. ASSUME Inv PROVE CustodyIsTrue
  <2> SUFFICES ASSUME outcome.result = "custody",
                      Cardinality(LyingAttesters(build.gave, world)) < MinAgreement
               PROVE  /\ \A h \in DOMAIN build.hops : build.hops[h].block = build.hops[h].height
                      /\ build.section => \A h \in DOMAIN build.hops : build.hops[h].tx = "true"
    BY DEF CustodyIsTrue
  <2> USE <1>1
  <2>1. anchored = Len(build.hops) /\ build.hops \in Seq(Claims) /\ Len(build.hops) \in Nat
        /\ DOMAIN build.hops = 1 .. Len(build.hops)
    BY Ended DEF Inv, TypeOK
  <2>2. build.hops # <<>> => build.served = build.gave /\ Chained(build.hops) /\ Pinned(build)
    BY DEF Inv, BundleIsSound
  <2>3. ASSUME NEW h \in DOMAIN build.hops
        PROVE  build.hops[h].block = build.hops[h].height /\ build.hops[h].block \in Heights
    <3>1. build.served = build.gave
      BY <2>1, <2>2, <2>3
    <3>2. build.hops[h].block = build.hops[h].height
      BY <2>1, <2>3, <3>1 DEF Inv, AnchorsAreTrue, AnchoredTruly
    <3>3. build.hops[h] \in Claims
      BY <2>1, <2>3
    <3> QED BY <3>2, <3>3 DEF Claims
  <2>4. ASSUME build.section, NEW g \in DOMAIN build.hops, build.hops[g].tx # "true"
        PROVE  FALSE
    <3> DEFINE Strays == {h \in DOMAIN build.hops : build.hops[h].tx # "true"}
    <3>1. Strays \subseteq Nat /\ Strays # {}
      BY <2>1, <2>4
    <3> HIDE DEF Strays
    <3>2. PICK h \in Strays : \A k \in Strays : h <= k
      BY <3>1, LeastNatural
    <3> USE DEF Strays
    <3>3. h \in DOMAIN build.hops /\ build.hops[h].tx # "true" /\ h \in 1 .. Len(build.hops)
          /\ build.hops # <<>>
      BY <2>1, <3>2
    <3>4. CASE h = 1
      BY <2>2, <2>3, <2>4, <3>3, <3>4 DEF Pinned
    <3>5. CASE h # 1
      <4>1. h - 1 \in DOMAIN build.hops /\ h - 1 < h /\ h \in DOMAIN build.hops \ {1}
        BY <2>1, <3>3, <3>5
      <4>2. build.hops[h - 1].tx = "true"
        BY <2>1, <3>2, <3>3, <4>1
      <4>3. Spends("true", build.hops[h].tx) /\ build.hops[h].tx # "forged"
        BY <2>2, <2>3, <3>3, <4>1, <4>2 DEF Chained
      <4> QED BY <3>3, <4>3 DEF Spends
    <3> QED BY <3>4, <3>5
  <2> QED BY <2>3, <2>4
<1> QED BY <1>1, AlwaysInv, PTL

\* The depth the caller asked for is the chain's, unless as many attesters lie
\* as tell the truth.
THEOREM DepthAlwaysReal == Spec => []DepthIsReal
<1>1. ASSUME Inv PROVE DepthIsReal
  <2> SUFFICES ASSUME outcome.result = "custody", MinConfirmations > 0,
                      Cardinality(LyingAttesters(build.gave, world))
                        < Cardinality(TruthfulAttesters(build.gave, world)),
                      NEW h \in DOMAIN build.hops, ~Checkpointed(build.hops[h].height)
               PROVE  top - build.hops[h].height + 1 >= MinConfirmations
    BY DEF DepthIsReal
  <2>1. h \in 1 .. anchored /\ build.hops # <<>>
    BY <1>1, Ended DEF Inv, TypeOK
  <2>2. build.served = build.gave
    BY <1>1, <2>1 DEF Inv, BundleIsSound
  <2> QED BY <1>1, <2>1, <2>2 DEF Inv, AnchorsAreTrue, AnchoredTruly
<1> QED BY <1>1, AlwaysInv, PTL

\* What the build accepts the verifier never refuses.
THEOREM BuildAlwaysVerifies == Spec => []BuildImpliesVerify
<1>1. ASSUME Inv PROVE BuildImpliesVerify
  BY <1>1, Ended DEF BuildImpliesVerify, Recordable
<1> QED BY <1>1, AlwaysInv, PTL

\* One backend that answers and tells the truth is enough to prove a path that
\* can be proved.
THEOREM OneHonestBackendAlwaysSuffices == Spec => []OneHonestBackendSuffices
<1>1. ASSUME Inv PROVE OneHonestBackendSuffices
  <2> SUFFICES ASSUME outcome.result \in Recordable \cup {"BUILD_FAILED"}, Provable,
                      NEW i \in DOMAIN Backends, Truthful(Server(i))
               PROVE  FALSE
    BY DEF OneHonestBackendSuffices
  <2>1. /\ ended \in Seq(Recordable \cup {"noAnswer"}) /\ i \in DOMAIN ended
        /\ EndIsTrue(i, ended[i])
    BY <1>1, Ended DEF Inv, EndsAreTrue
  <2>2. ended[i] \in Recordable \cup {"noAnswer"}
    BY <2>1
  <2>3. Len(world.path) \in Nat
    BY <1>1, PathType DEF Inv
  <2> QED BY <2>1, <2>2, <2>3, FetchAssumption
       DEF EndIsTrue, Provable, Truthful, Lies, Recordable, FetchAssumption
<1> QED BY <1>1, AlwaysInv, PTL

\* A refusal that is called unanimous, and the exit code that says "out of
\* scope", are the chain's own as soon as one backend is no liar.
THEOREM UnanimousRefusalAlwaysTrue == Spec => []UnanimousRefusalIsTrue
<1>1. ASSUME Inv PROVE UnanimousRefusalIsTrue
  <2> SUFFICES ASSUME phase = "done", NEW i \in DOMAIN Backends, ~Lies(Server(i))
               PROVE  /\ outcome.unanimous = "yes" =>
                           CASE outcome.result = "CustodyUnsupported" ->
                                  \E h \in DOMAIN world.path : world.path[h].burns
                             [] outcome.result = "CustodyHopLimit" -> Len(world.path) > MaxHops + 1
                             [] OTHER -> FALSE
                      /\ outcome.result # "custody" /\ ExitCode = CATEGORY_EXIT_CODES("OUT OF SCOPE") =>
                           \E h \in DOMAIN world.path : world.path[h].burns
    BY DEF UnanimousRefusalIsTrue
  <2>1. ASSUME outcome.unanimous = "yes"
        PROVE  /\ outcome.result \in {"CustodyUnsupported", "CustodyHopLimit"}
               /\ outcome.result = "CustodyUnsupported" =>
                    \E h \in DOMAIN world.path : world.path[h].burns
               /\ outcome.result = "CustodyHopLimit" => Len(world.path) > MaxHops + 1
    <3>1. /\ ended \in Seq(Recordable \cup {"noAnswer"}) /\ i \in DOMAIN ended
          /\ outcome = SharedRefusal(ended)
      BY <1>1, <2>1, Ended
    <3>2. outcome.result \in Recordable /\ ended[i] = outcome.result
      BY <2>1, <3>1, SharedRefusalSays
    <3>3. EndIsTrue(i, outcome.result)
      BY <1>1, <3>1, <3>2 DEF Inv, EndsAreTrue
    <3> QED BY <3>2, <3>3 DEF EndIsTrue, Recordable
  <2>2. ASSUME outcome.result # "custody", ExitCode = CATEGORY_EXIT_CODES("OUT OF SCOPE")
        PROVE  outcome.result = "CustodyUnsupported" /\ outcome.unanimous = "yes"
    <3>1. outcome.result \in {"running", "HEADER_TRUST", "BUILD_FAILED", "CustodyUnsupported",
                              "CustodyHopLimit", "WitnessSectionUnavailable"}
      BY <1>1, <2>2, Ended DEF Recordable
    <3> DEFINE category == refusalReport(outcome.result, "live", outcome.unanimous)
    <3>2. /\ category = "OUT OF SCOPE" =>
               outcome.result = "CustodyUnsupported" /\ outcome.unanimous # "no"
          /\ category \in {"UNPROVEN", "OUT OF SCOPE", "INCOMPLETE", "INVALID"}
      BY <3>1, LiveReports
    <3>3. CATEGORY_EXIT_CODES(category) = CATEGORY_EXIT_CODES("OUT OF SCOPE")
      BY <2>2 DEF ExitCode, failFrom
    <3> HIDE DEF category
    <3>4. category = "OUT OF SCOPE"
      BY <3>2, <3>3, ExitCodeIsOutOfScope, Zenon
    <3>5. /\ ended \in Seq(Recordable \cup {"noAnswer"}) /\ outcome = SharedRefusal(ended)
          /\ outcome.result \in Recordable
      BY <1>1, <3>2, <3>4, Ended DEF Recordable
    <3>6. outcome.unanimous # "unmarked"
      BY <3>5, SharedRefusalSays
    <3>7. outcome.unanimous \in {"unmarked", "yes", "no"}
      BY <1>1 DEF Inv, TypeOK
    <3> QED BY <3>2, <3>4, <3>6, <3>7
  <2> QED BY <2>1, <2>2
<1> QED BY <1>1, AlwaysInv, PTL
=============================================================================
