-------------------------- MODULE HeaderTrustProofs --------------------------
(***************************************************************************)
(* What a quorum is worth, for any attesters, spelled in any way and named *)
(* any number of times: a header they anchor is the chain's at its height, *)
(* unless as many of them lie as it takes; and the depth that is enforced  *)
(* is the chain's, unless as many of them lie as tell the truth.           *)
(*                                                                         *)
(* The argument is one of counting.  Attesters takes the first spelling of *)
(* every server, so what the votes count are servers, each once.           *)
(***************************************************************************)
EXTENDS HeaderTrust, Refusals, FiniteSetTheorems, TLAPS

Voter(i) == ServerOf[Anchors[i]]

\* Every set of naturals that is not empty has a least member.
LEMMA LeastNatural ==
  ASSUME NEW T \in SUBSET Nat, T # {}
  PROVE  \E n \in T : \A m \in T : n <= m
<1>1. IsWellFoundedOn(OpToRel(<, Nat), Nat)
  BY NatLessThanWellFounded
<1>2. PICK n \in T : \A m \in T : ~ (<<m, n>> \in OpToRel(<, Nat))
  BY <1>1, WFMin
<1>3. \A m \in Nat : m < n => <<m, n>> \in OpToRel(<, Nat)
  BY DEF OpToRel
<1>4. \A m \in T : ~ (m < n)
  BY <1>2, <1>3
<1> QED BY <1>4

\* Attesters are no more than the servers they are.
LEMMA VotersAreCounted ==
  ASSUME NEW served, NEW A \in SUBSET Attesters(served), NEW T, IsFiniteSet(T),
         \A i \in A : Voter(i) \in T
  PROVE  IsFiniteSet(A) /\ Cardinality(A) <= Cardinality(T)
<1> DEFINE f == [i \in A |-> Voter(i)]
<1>1. \A i, j \in A : Voter(i) = Voter(j) => i = j
  <2> SUFFICES ASSUME NEW i \in A, NEW j \in A, Voter(i) = Voter(j), i < j
               PROVE  FALSE
    BY TrustAssumption DEF Attesters, TrustAssumption
  <2>1. i \in 1 .. (j - 1)
    BY TrustAssumption DEF Attesters, TrustAssumption
  <2> QED BY <2>1 DEF Attesters, Voter
<1>2. f \in Injection(A, T)
  BY <1>1 DEF Injection, IsInjective
<1> QED BY <1>2, FS_Injection

LEMMA AttestersAreFinite == \A served : IsFiniteSet(Attesters(served))
<1> SUFFICES ASSUME NEW served PROVE IsFiniteSet(Attesters(served))
  OBVIOUS
<1>1. Attesters(served) \in SUBSET (1 .. Len(Anchors)) /\ Len(Anchors) \in Nat
  BY TrustAssumption DEF Attesters, TrustAssumption
<1>2. IsFiniteSet(1 .. Len(Anchors))
  BY <1>1, FS_Interval
<1> QED BY <1>1, <1>2, FS_Subset

\* And no fewer, if every one of the servers is in the list.
LEMMA ServersAreCounted ==
  ASSUME NEW served, NEW A \in SUBSET Attesters(served), NEW T,
         \A s \in T : \E i \in A : Voter(i) = s
  PROVE  IsFiniteSet(A) /\ IsFiniteSet(T) /\ Cardinality(T) <= Cardinality(A)
<1> DEFINE f == [s \in T |-> CHOOSE i \in A : Voter(i) = s]
<1>1. IsFiniteSet(A)
  BY AttestersAreFinite, FS_Subset
<1>2. f \in [T -> A] /\ \A s \in T : Voter(f[s]) = s
  OBVIOUS
<1>3. f \in Injection(T, A)
  BY <1>2 DEF Injection, IsInjective
<1> QED BY <1>1, <1>3, FS_Injection

\* A server that is listed and served nothing is an attester once.
LEMMA ListedIsAttester ==
  ASSUME NEW served, NEW s, s \notin ServersOf(served),
         \E i \in DOMAIN Anchors : ServerOf[Anchors[i]] = s
  PROVE  \E i \in Attesters(served) : Voter(i) = s
<1> DEFINE T == {i \in DOMAIN Anchors : Voter(i) = s}
<1>1. T \in SUBSET Nat /\ T # {}
  BY TrustAssumption DEF TrustAssumption, Voter
<1>2. PICK n \in T : \A m \in T : n <= m
  BY <1>1, LeastNatural
<1>3. \A j \in 1 .. (n - 1) : j \in DOMAIN Anchors /\ j \notin T
  BY <1>2, TrustAssumption DEF TrustAssumption
<1>4. n \in Attesters(served)
  BY <1>2, <1>3 DEF Attesters, Voter
<1> QED BY <1>2, <1>4

-----------------------------------------------------------------------------

\* A header that is anchored is the block of its height, unless as many
\* attesters lie as it takes to anchor one (checkHeader of makeHeaderTrust).
THEOREM QuorumNamesTheBlock ==
  ASSUME NEW block \in Blocks, NEW height \in Heights, NEW served, NEW w, NEW t,
         w.liars \subseteq Servers,
         MayAnchor(block, height, served, w, t),
         Cardinality(LyingAttesters(served, w)) < MinAgreement
  PROVE  block = height
<1>1. CASE Checkpointed(height)
  BY <1>1 DEF MayAnchor
<1>2. CASE ~Checkpointed(height)
  <2> DEFINE A == Attesters(served)
  <2> SUFFICES ASSUME block # height PROVE FALSE
    OBVIOUS
  <2>1. PICK v \in Votes(A, block, height, w, t) : Agreed(v)
    BY <1>2 DEF MayAnchor
  <2>2. DOMAIN v = A /\ \A i \in A : v[i] \in HashAnswers(Voter(i), block, height, w, t)
    BY <2>1 DEF Votes, Voter
  <2>3. \A i \in Saying(v, "agrees") : i \in A /\ Voter(i) \in LyingAttesters(served, w)
    <3> SUFFICES ASSUME NEW i \in Saying(v, "agrees")
                 PROVE  i \in A /\ Voter(i) \in LyingAttesters(served, w)
      OBVIOUS
    <3>1. i \in A /\ "agrees" \in HashAnswers(Voter(i), block, height, w, t)
      BY <2>2 DEF Saying
    <3>2. Voter(i) \in w.liars
      BY <3>1 DEF HashAnswers
    <3> QED BY <3>1, <3>2 DEF LyingAttesters, Attesters, Voter
  <2>4. IsFiniteSet(LyingAttesters(served, w))
    <3>1. LyingAttesters(served, w) \in SUBSET Servers
      BY DEF LyingAttesters
    <3> QED BY <3>1, TrustAssumption, FS_Subset DEF TrustAssumption
  <2>5. /\ Cardinality(Saying(v, "agrees")) <= Cardinality(LyingAttesters(served, w))
        /\ IsFiniteSet(Saying(v, "agrees"))
    BY <2>3, <2>4, VotersAreCounted
  <2>6. Cardinality(Saying(v, "agrees")) >= MinAgreement
    BY <2>1 DEF Agreed
  <2>7. /\ Cardinality(Saying(v, "agrees")) \in Nat
        /\ Cardinality(LyingAttesters(served, w)) \in Nat
    BY <2>4, <2>5, FS_CardinalityType
  <2> QED BY <2>5, <2>6, <2>7, TrustAssumption DEF TrustAssumption
<1> QED BY <1>1, <1>2

Stated(tips) == {i \in DOMAIN tips : tips[i] # NoTip}

\* There is a median, and at most half of the stated tips are below it.
LEMMA MedianHalves ==
  ASSUME NEW A, IsFiniteSet(A), NEW tips \in [A -> Heights \cup {NoTip}],
         Stated(tips) # {}
  PROVE  /\ MedianTip(tips) \in Heights
         /\ Cardinality({i \in Stated(tips) : tips[i] < MedianTip(tips)})
              <= Cardinality(Stated(tips)) \div 2
<1> DEFINE stated == Stated(tips)
           middle == Cardinality(stated) \div 2
           Below(h) == {i \in stated : tips[i] < h}
           UpTo(h) == {i \in stated : tips[i] <= h}
           High == {h \in Heights : Cardinality(UpTo(h)) > middle}
<1>1. IsFiniteSet(stated) /\ Cardinality(stated) \in Nat \ {0}
  <2>1. stated \in SUBSET A
    BY DEF Stated
  <2>2. IsFiniteSet(stated)
    BY <2>1, FS_Subset
  <2> HIDE DEF stated
  <2>3. stated # {}
    BY DEF stated
  <2> QED BY <2>2, <2>3, FS_EmptySet, FS_CardinalityType
<1>2. \A i \in stated : tips[i] \in Heights
  BY DEF Stated
<1>3. Heights \in SUBSET Nat /\ 1 \in Heights /\ MaxHeight \in Heights
  BY TrustAssumption DEF TrustAssumption, Heights
<1>4. MaxHeight \in High
  <2>1. UpTo(MaxHeight) = stated
    BY <1>2 DEF Heights
  <2>2. Cardinality(stated) > middle
    <3> DEFINE n == Cardinality(stated)
    <3> SUFFICES n > n \div 2
      OBVIOUS
    <3>1. n \in Nat \ {0}
      BY <1>1
    <3> HIDE DEF n
    <3> QED BY <3>1
  <2> QED BY <1>3, <2>1, <2>2
<1>5. PICK h \in High : \A g \in High : h <= g
  BY <1>3, <1>4, LeastNatural
<1>6. Cardinality(Below(h)) <= middle
  <2>1. CASE h = 1
    <3>1. Below(h) = {}
      BY <1>2, <2>1 DEF Heights
    <3>2. middle >= 0
      BY <1>1
    <3> QED BY <3>1, <3>2, FS_EmptySet
  <2>2. CASE h # 1
    <3>1. h - 1 \in Heights /\ h - 1 \notin High
      BY <1>5, <2>2, TrustAssumption DEF TrustAssumption, Heights
    <3>2. Below(h) = UpTo(h - 1)
      <4>1. h \in Int /\ \A i \in stated : tips[i] \in Int
        <5> HIDE DEF stated, UpTo, middle
        <5>1. h \in Heights
          OBVIOUS
        <5>2. \A g \in Heights : g \in Int
          BY <1>3
        <5> QED BY <1>2, <5>1, <5>2
      <4>2. \A i \in stated : tips[i] < h <=> tips[i] <= h - 1
        BY <4>1
      <4> HIDE DEF stated
      <4> QED BY <4>2
    <3>3. UpTo(h - 1) \in SUBSET stated
      OBVIOUS
    <3>4. Cardinality(UpTo(h - 1)) \in Nat
      BY <1>1, <3>3, FS_Subset, FS_CardinalityType
    <3>5. ~ (Cardinality(UpTo(h - 1)) > middle)
      BY <3>1
    <3>6. middle \in Int
      BY <1>1
    <3> HIDE DEF Below, UpTo, middle
    <3> QED BY <3>2, <3>4, <3>5, <3>6
  <2> QED BY <2>1, <2>2
<1>7. MedianTip(tips) = CHOOSE g \in Heights : /\ Cardinality(Below(g)) <= middle
                                               /\ Cardinality(UpTo(g)) > middle
  BY DEF MedianTip, Stated
<1>8. h \in Heights /\ Cardinality(UpTo(h)) > middle
  BY <1>5
<1> HIDE DEF Below, UpTo, middle
<1>9. MedianTip(tips) \in Heights /\ Cardinality(Below(MedianTip(tips))) <= middle
  BY <1>6, <1>7, <1>8
<1> QED BY <1>9 DEF Below, middle

\* A depth that is enforced is the chain's, unless as many attesters lie as
\* tell the truth: the median tip is then no higher than the chain's.
THEOREM EnforcedDepthIsReal ==
  ASSUME NEW height \in Heights, NEW served, NEW w, NEW t \in Heights,
         w.liars \subseteq Servers,
         NEW tips \in Tips(Attesters(served), w, t),
         DeepEnough(tips, height),
         Cardinality(LyingAttesters(served, w)) < Cardinality(TruthfulAttesters(served, w))
  PROVE  t - height + 1 >= MinConfirmations
<1> DEFINE A == Attesters(served)
           stated == Stated(tips)
           Liars == {i \in stated : Voter(i) \in w.liars}
           Truthful == {i \in A : Voter(i) \in TruthfulAttesters(served, w)}
           lying == Cardinality(LyingAttesters(served, w))
           telling == Cardinality(TruthfulAttesters(served, w))
<1>1. /\ tips \in [A -> Heights \cup {NoTip}] /\ DOMAIN tips = A
      /\ \A i \in A : tips[i] \in TipAnswers(Voter(i), w, t)
  BY DEF Tips, Voter
<1>2. \A i \in A : /\ i \in DOMAIN Anchors /\ Voter(i) \in Servers
                   /\ Voter(i) \notin ServersOf(served)
  BY TrustAssumption DEF Attesters, Voter, TrustAssumption
<1>3. /\ IsFiniteSet(LyingAttesters(served, w)) /\ lying \in Nat
      /\ IsFiniteSet(TruthfulAttesters(served, w)) /\ telling \in Nat
  <2>1. /\ LyingAttesters(served, w) \in SUBSET Servers
        /\ TruthfulAttesters(served, w) \in SUBSET Servers
    BY DEF LyingAttesters, TruthfulAttesters
  <2> QED BY <2>1, TrustAssumption, FS_Subset, FS_CardinalityType DEF TrustAssumption
<1>4. IsFiniteSet(Liars) /\ Cardinality(Liars) <= lying
  <2>1. Liars \in SUBSET A
    BY <1>1 DEF Stated
  <2>2. \A i \in Liars : Voter(i) \in LyingAttesters(served, w)
    BY <1>2, <2>1 DEF LyingAttesters, Voter
  <2> HIDE DEF Liars
  <2> QED BY <1>3, <2>1, <2>2, VotersAreCounted
<1>5. /\ IsFiniteSet(Truthful) /\ telling <= Cardinality(Truthful)
      /\ Cardinality(Truthful) \in Nat
  <2>1. \A s \in TruthfulAttesters(served, w) : \E i \in A : Voter(i) = s
    BY ListedIsAttester DEF TruthfulAttesters
  <2>2. \A s \in TruthfulAttesters(served, w) : \E i \in Truthful : Voter(i) = s
    BY <2>1
  <2>3. Truthful \in SUBSET A
    OBVIOUS
  <2> HIDE DEF Truthful
  <2> QED BY <2>2, <2>3, ServersAreCounted, FS_CardinalityType
<1>6. \A i \in Truthful : tips[i] = t /\ i \in stated
  <2>1. \A i \in Truthful : i \in A /\ tips[i] \in TipAnswers(Voter(i), w, t)
    BY <1>1
  <2>2. \A i \in Truthful : TipAnswers(Voter(i), w, t) = {t}
    BY DEF TruthfulAttesters, TipAnswers
  <2>3. t # NoTip
    BY DEF Heights, NoTip
  <2> QED BY <1>1, <2>1, <2>2, <2>3 DEF Stated
<1>7. stated \in SUBSET (Liars \cup Truthful)
  <2> SUFFICES ASSUME NEW i \in stated, Voter(i) \notin w.liars
               PROVE  i \in A /\ Voter(i) \in TruthfulAttesters(served, w)
    OBVIOUS
  <2>1. i \in A /\ tips[i] # NoTip /\ tips[i] \in TipAnswers(Voter(i), w, t)
    BY <1>1 DEF Stated
  <2>2. Voter(i) \notin w.down
    BY <2>1 DEF TipAnswers
  <2> QED BY <1>2, <2>1, <2>2 DEF TruthfulAttesters, Voter
<1>8. /\ IsFiniteSet(stated) /\ Cardinality(stated) \in Nat
      /\ Cardinality(stated) <= lying + Cardinality(Truthful)
  <2>1. /\ IsFiniteSet(Liars \cup Truthful)
        /\ Cardinality(Liars \cup Truthful)
             = Cardinality(Liars) + Cardinality(Truthful) - Cardinality(Liars \cap Truthful)
    BY <1>4, <1>5, FS_Union
  <2>2. Cardinality(Liars \cap Truthful) \in Nat
    BY <1>4, FS_Intersection, FS_CardinalityType
  <2>3. /\ IsFiniteSet(stated)
        /\ Cardinality(stated) <= Cardinality(Liars \cup Truthful)
    BY <1>7, <2>1, FS_Subset
  <2>4. /\ Cardinality(stated) \in Nat /\ Cardinality(Liars) \in Nat
        /\ Cardinality(Liars \cup Truthful) \in Nat
    BY <1>4, <2>1, <2>3, FS_CardinalityType
  <2> HIDE DEF stated, Liars, Truthful, lying
  <2> QED BY <1>3, <1>4, <1>5, <2>1, <2>2, <2>3, <2>4
<1>9. Cardinality(stated) \div 2 < Cardinality(Truthful)
  <2> DEFINE n == Cardinality(stated)
             m == Cardinality(Truthful)
  <2>1. n \in Nat /\ m \in Nat /\ lying \in Nat /\ telling \in Nat
    BY <1>3, <1>5, <1>8
  <2>2. n <= lying + m /\ lying < telling /\ telling <= m
    BY <1>5, <1>8
  <2> HIDE DEF n, m, lying, telling
  <2>3. n \div 2 < m
    BY <2>1, <2>2
  <2> QED BY <2>3 DEF n, m
<1>10. /\ MedianTip(tips) \in Heights
       /\ Cardinality({i \in stated : tips[i] < MedianTip(tips)}) <= Cardinality(stated) \div 2
  <2>1. IsFiniteSet(A)
    BY AttestersAreFinite
  <2>2. stated # {}
    BY DEF DeepEnough, Stated
  <2> QED BY <1>1, <2>1, <2>2, MedianHalves
<1>11. MedianTip(tips) <= t
  <2> SUFFICES ASSUME t < MedianTip(tips) PROVE FALSE
    BY <1>10 DEF Heights
  <2> DEFINE Under == {i \in stated : tips[i] < MedianTip(tips)}
  <2>1. Truthful \in SUBSET Under /\ Under \in SUBSET stated
    BY <1>6
  <2>2. Cardinality(Truthful) <= Cardinality(Under) /\ Cardinality(Under) \in Nat
    BY <1>8, <2>1, FS_Subset, FS_CardinalityType
  <2>3. Cardinality(Under) <= Cardinality(stated) \div 2
    BY <1>10
  <2>4. Cardinality(stated) \div 2 \in Int
    BY <1>8
  <2> DEFINE m == Cardinality(Truthful)
             u == Cardinality(Under)
             half == Cardinality(stated) \div 2
  <2>5. m \in Nat /\ u \in Nat /\ half \in Int /\ m <= u /\ u <= half /\ half < m
    BY <1>5, <1>9, <2>2, <2>3, <2>4
  <2> HIDE DEF m, u, half
  <2> QED BY <2>5
<1>12. MedianTip(tips) - height + 1 >= MinConfirmations
  BY DEF DeepEnough
<1> QED BY <1>10, <1>11, <1>12, TrustAssumption DEF TrustAssumption, Heights

-----------------------------------------------------------------------------
(* The exit codes of refusals, for both fetches.                           *)

\* No other category has the exit code of "out of scope".
LEMMA ExitCodeIsOutOfScope ==
  \A category \in {"UNPROVEN", "OUT OF SCOPE", "INCOMPLETE", "INVALID"} :
    CATEGORY_EXIT_CODES(category) = CATEGORY_EXIT_CODES("OUT OF SCOPE")
      => category = "OUT OF SCOPE"
<1>1. /\ CATEGORY_EXIT_CODES("UNPROVEN") = 3 /\ CATEGORY_EXIT_CODES("OUT OF SCOPE") = 4
      /\ CATEGORY_EXIT_CODES("INCOMPLETE") = 5 /\ CATEGORY_EXIT_CODES("INVALID") = 1
  BY DEF CATEGORY_EXIT_CODES
<1>2. 3 # 4 /\ 5 # 4 /\ 1 # 4
  OBVIOUS
<1> QED BY <1>1, <1>2, Zenon

\* A live command says "out of scope" of one error only, and not when the
\* backends disagree.
LEMMA LiveReports ==
  ASSUME NEW error, NEW unanimous
  PROVE  /\ refusalReport(error, "live", unanimous) = "OUT OF SCOPE" =>
              error = "CustodyUnsupported" /\ unanimous # "no"
         /\ refusalReport(error, "live", unanimous)
              \in {"UNPROVEN", "OUT OF SCOPE", "INCOMPLETE", "INVALID"}
<1> DEFINE said == refusalReport(error, "live", unanimous)
           row == REFUSAL_TABLE[error]["live"]
<1>1. CASE error \in DOMAIN REFUSAL_TABLE
  <2>1. DOMAIN REFUSAL_TABLE =
          {"CustodyUnsupported", "EnvelopeIndexUnproven", "CoinbaseHeightUnproven", "SatStepLimit",
           "SatFundingIncomplete", "CustodyHopLimit", "WitnessSectionUnavailable", "SatPosition"}
    BY DEF REFUSAL_TABLE
  <2>2. /\ REFUSAL_TABLE["CustodyUnsupported"]["live"] = "OUT OF SCOPE"
        /\ REFUSAL_TABLE["EnvelopeIndexUnproven"]["live"] = "UNPROVEN"
        /\ REFUSAL_TABLE["CoinbaseHeightUnproven"]["live"] = "UNPROVEN"
        /\ REFUSAL_TABLE["SatStepLimit"]["live"] = "UNPROVEN"
        /\ REFUSAL_TABLE["SatFundingIncomplete"]["live"] = "UNPROVEN"
        /\ REFUSAL_TABLE["CustodyHopLimit"]["live"] = "UNPROVEN"
        /\ REFUSAL_TABLE["WitnessSectionUnavailable"]["live"] = "UNPROVEN"
        /\ REFUSAL_TABLE["SatPosition"]["live"] = "UNPROVEN"
    BY DEF REFUSAL_TABLE, Row
  <2>3. row = IF error = "CustodyUnsupported" THEN "OUT OF SCOPE" ELSE "UNPROVEN"
    BY <1>1, <2>1, <2>2
  <2>4. error \notin DOMAIN WRAPPER_TABLE
    BY <1>1, <2>1 DEF WRAPPER_TABLE
  <2>5. said = IF unanimous = "no" THEN "UNPROVEN" ELSE row
    BY <1>1, <2>4 DEF refusalReport, nonUnanimousCategory
  <2> QED BY <2>3, <2>5
<1>2. CASE error \notin DOMAIN REFUSAL_TABLE /\ error \in DOMAIN WRAPPER_TABLE
  <2>1. WRAPPER_TABLE[error] \in {"INCOMPLETE", "UNPROVEN", "INVALID"}
    BY <1>2 DEF WRAPPER_TABLE
  <2>2. said = WRAPPER_TABLE[error]
    BY <1>2 DEF refusalReport
  <2> QED BY <2>1, <2>2
<1>3. CASE error \notin DOMAIN REFUSAL_TABLE /\ error \notin DOMAIN WRAPPER_TABLE
  BY <1>3 DEF refusalReport
<1> QED BY <1>1, <1>2, <1>3
=============================================================================
