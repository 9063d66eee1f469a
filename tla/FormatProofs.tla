----------------------------- MODULE FormatProofs ----------------------------
(***************************************************************************)
(* What the roots of a block and the output of a commit transaction bind,  *)
(* for blocks and script trees of any size and branches and paths of any   *)
(* nodes: the argument goes level by level, from the root a verifier       *)
(* trusts down to the leaf it is shown.  And what a retarget yields, for   *)
(* digits of any even radix, targets of any length and any limit, and what *)
(* the envelope parser makes of a script of any length.  And what the      *)
(* command line does, whatever is typed.                                   *)
(***************************************************************************)
EXTENDS BlockCommitments, Taproot, CompactBits, Envelope, CommandLine, SequenceTheorems,
        FiniteSetTheorems, WellFoundedInduction, TLAPS

(* ------------------------------- induction ----------------------------- *)

\* A set of naturals that is not empty has a least one.
LEMMA LeastNatural ==
  ASSUME NEW T \in SUBSET Nat, T # {}
  PROVE  \E n \in T : \A m \in T : n <= m
<1>1. IsWellFoundedOn(OpToRel(<, Nat), Nat)
  BY NatLessThanWellFounded
<1>2. PICK n \in T : \A m \in T : ~ (<<m, n>> \in OpToRel(<, Nat))
  BY <1>1, WFMin
<1>3. \A m \in Nat : m < n => <<m, n>> \in OpToRel(<, Nat)
  BY DEF OpToRel
<1>4. \A m \in T : ~ (m < n)
  BY <1>2, <1>3
<1> QED BY <1>4

\* Induction over the naturals, of a set instead of a predicate.
LEMMA InductionBySet ==
  ASSUME NEW S, 0 \in S, \A n \in Nat : n \in S => n + 1 \in S
  PROVE  Nat \subseteq S
<1> DEFINE T == Nat \ S
<1> SUFFICES ASSUME T # {} PROVE FALSE
  OBVIOUS
<1>1. PICK x \in T : \A y \in T : x <= y
  BY LeastNatural
<1>2. x - 1 \in Nat /\ x - 1 + 1 = x
  OBVIOUS
<1>3. x - 1 \in S
  BY <1>1, <1>2
<1> QED BY <1>2, <1>3

(* -------------------------------- halves ------------------------------- *)

\* Twice a half rounded up is the width, or one more.
LEMMA HalvedFacts ==
  \A w \in Nat : Halved(w) \in Nat /\ (2 * Halved(w) = w \/ 2 * Halved(w) = w + 1)
BY DEF Halved

HeightsOf(f, m) ==
  f = [width \in 0 .. m |-> IF width <= 1 THEN 0 ELSE f[Halved(width)] + 1]

\* treeHeight counts: its equation has a solution up to any width,
LEMMA HeightsExist ==
  ASSUME NEW m \in Nat
  PROVE  \E f : HeightsOf(f, m)
<1> DEFINE S == {k \in Nat : \E f : HeightsOf(f, k)}
<1>1. 0 \in S
  <2>1. HeightsOf([width \in 0 .. 0 |-> 0], 0)
    BY DEF HeightsOf
  <2> QED BY <2>1
<1>2. ASSUME NEW k \in Nat, k \in S PROVE k + 1 \in S
  <2>1. PICK g : HeightsOf(g, k)
    BY <1>2
  <2> DEFINE last == IF k + 1 <= 1 THEN 0 ELSE g[Halved(k + 1)] + 1
             f == [width \in 0 .. k + 1 |-> IF width = k + 1 THEN last ELSE g[width]]
  <2>2. ASSUME NEW w \in 0 .. k + 1
        PROVE  f[w] = IF w <= 1 THEN 0 ELSE f[Halved(w)] + 1
    <3>1. w > 1 => Halved(w) \in 0 .. k /\ Halved(w) < w
      BY HalvedFacts
    <3>2. CASE w = k + 1
      <4>1. f[w] = last /\ (w > 1 => f[Halved(w)] = g[Halved(w)])
        BY <3>1, <3>2
      <4> QED BY <3>2, <4>1
    <3>3. CASE w # k + 1
      <4>1. w \in 0 .. k /\ f[w] = g[w] /\ (w > 1 => f[Halved(w)] = g[Halved(w)])
        BY <3>1, <3>3
      <4>2. g[w] = IF w <= 1 THEN 0 ELSE g[Halved(w)] + 1
        BY <2>1, <4>1 DEF HeightsOf
      <4> QED BY <4>1, <4>2
    <3> QED BY <3>2, <3>3
  <2>3. HeightsOf(f, k + 1)
    BY <2>2 DEF HeightsOf
  <2> QED BY <2>3
<1> HIDE DEF S
<1>3. Nat \subseteq S
  BY <1>1, <1>2, InductionBySet
<1> QED BY <1>3 DEF S

\* two solutions agree where both are defined,
LEMMA HeightsAgree ==
  ASSUME NEW m \in Nat, NEW k \in Nat
  PROVE  \A f, g, w : HeightsOf(f, m) /\ HeightsOf(g, k) /\ w \in 0 .. m /\ w \in 0 .. k
           => f[w] = g[w] /\ f[w] \in Nat
<1> SUFFICES ASSUME NEW f, NEW g, HeightsOf(f, m), HeightsOf(g, k)
             PROVE  \A w : w \in 0 .. m /\ w \in 0 .. k => f[w] = g[w] /\ f[w] \in Nat
  OBVIOUS
<1> DEFINE Same(w) == w <= m /\ w <= k => f[w] = g[w] /\ f[w] \in Nat
           S == {n \in Nat : \A w \in 0 .. n : Same(w)}
<1>1. /\ \A w \in 0 .. m : f[w] = IF w <= 1 THEN 0 ELSE f[Halved(w)] + 1
      /\ \A w \in 0 .. k : g[w] = IF w <= 1 THEN 0 ELSE g[Halved(w)] + 1
  BY DEF HeightsOf
<1>2. 0 \in S
  BY <1>1
<1>3. ASSUME NEW n \in Nat, n \in S PROVE n + 1 \in S
  <2>1. Same(n + 1)
    <3> SUFFICES ASSUME n + 1 <= m, n + 1 <= k PROVE f[n + 1] = g[n + 1] /\ f[n + 1] \in Nat
      OBVIOUS
    <3>1. n + 1 > 1 => Halved(n + 1) \in 0 .. n
      BY HalvedFacts
    <3>2. n + 1 > 1 => f[Halved(n + 1)] = g[Halved(n + 1)] /\ f[Halved(n + 1)] \in Nat
      BY <1>3, <3>1
    <3> QED BY <1>1, <3>2
  <2>2. \A w \in 0 .. n + 1 : w \in 0 .. n \/ w = n + 1
    OBVIOUS
  <2> QED BY <1>3, <2>1, <2>2
<1> HIDE DEF S
<1>4. Nat \subseteq S
  BY <1>2, <1>3, InductionBySet
<1>5. m \in S
  BY <1>4
<1> QED BY <1>5 DEF S

\* and treeHeight is read off one.
LEMMA HeightIsOf ==
  ASSUME NEW c \in Nat
  PROVE  \E f : HeightsOf(f, c) /\ treeHeight(c) = f[c]
<1> DEFINE Eqn(f) == f = [width \in 0 .. c |-> IF width <= 1 THEN 0 ELSE f[Halved(width)] + 1]
           h == CHOOSE f : Eqn(f)
<1>1. treeHeight(c) = h[c]
  BY DEF treeHeight
<1>2. \E f : Eqn(f)
  <2>1. PICK f : HeightsOf(f, c)
    BY HeightsExist
  <2>2. Eqn(f)
    BY <2>1 DEF HeightsOf
  <2> QED BY <2>2
<1>3. Eqn(h)
  BY <1>2
<1> HIDE DEF h
<1> QED BY <1>1, <1>3 DEF HeightsOf

\* The height of a tree, level by level.
LEMMA TreeHeight ==
  \A c \in Nat : /\ treeHeight(c) \in Nat
                 /\ treeHeight(c) = IF c <= 1 THEN 0 ELSE treeHeight(Halved(c)) + 1
<1> SUFFICES ASSUME NEW c \in Nat
             PROVE  /\ treeHeight(c) \in Nat
                    /\ treeHeight(c) = IF c <= 1 THEN 0 ELSE treeHeight(Halved(c)) + 1
  OBVIOUS
<1>1. PICK f : HeightsOf(f, c) /\ treeHeight(c) = f[c]
  BY HeightIsOf
<1>2. f[c] = IF c <= 1 THEN 0 ELSE f[Halved(c)] + 1
  BY <1>1 DEF HeightsOf
<1>3. f[c] \in Nat
  BY <1>1, HeightsAgree
<1>4. ASSUME c > 1 PROVE f[Halved(c)] = treeHeight(Halved(c))
  <2>1. Halved(c) \in Nat /\ Halved(c) \in 0 .. c
    BY <1>4, HalvedFacts
  <2> DEFINE k == Halved(c)
  <2> HIDE DEF k
  <2>2. k \in Nat /\ k \in 0 .. c /\ k \in 0 .. k
    BY <2>1 DEF k
  <2>3. PICK g : HeightsOf(g, k) /\ treeHeight(k) = g[k]
    BY <2>2, HeightIsOf
  <2>4. f[k] = g[k]
    BY <1>1, <2>2, <2>3, HeightsAgree
  <2> QED BY <2>3, <2>4 DEF k
<1> QED BY <1>1, <1>2, <1>3, <1>4

(* -------------------------------- levels ------------------------------- *)

IsList(s) == s # << >> /\ \E T : s \in Seq(T)

\* Where a list has its elements.
LEMMA ListFacts ==
  \A s : IsList(s) => Len(s) \in Nat /\ Len(s) >= 1 /\ DOMAIN s = 1 .. Len(s)
BY DEF IsList

\* A level has parents, half as many, each the hash of two of its nodes.
LEMMA ParentsAreList ==
  ASSUME NEW level, IsList(level)
  PROVE  /\ IsList(Parents(level)) /\ Len(Parents(level)) = Halved(Len(level))
         /\ \A i \in 1 .. Halved(Len(level)) :
              Parents(level)[i] = <<level[2 * i - 1], Partner(level, 2 * i)>>
<1> DEFINE n == Halved(Len(level))
           p == Parents(level)
           T == {p[i] : i \in 1 .. n}
<1>1. n \in Nat /\ n >= 1
  <2> DEFINE m == Len(level)
  <2>1. m \in Nat /\ m >= 1
    BY ListFacts
  <2> HIDE DEF m
  <2>2. Halved(m) \in Nat /\ Halved(m) >= 1
    BY <2>1, HalvedFacts
  <2> QED BY <2>2 DEF m
<1>2. p = [i \in 1 .. n |-> <<level[2 * i - 1], Partner(level, 2 * i)>>]
  BY DEF Parents, hashPair
<1> HIDE DEF p, n
<1>3. p \in [1 .. n -> T]
  BY <1>2
<1> HIDE DEF T
<1>4. p \in Seq(T) /\ Len(p) = n
  BY <1>1, <1>3
<1>5. p # << >>
  BY <1>1, <1>4
<1> QED BY <1>2, <1>4, <1>5 DEF IsList, p, n

LevelsOf(f, leaves, m) ==
  f = [h \in 0 .. m |-> IF h = 0 THEN leaves ELSE Parents(f[h - 1])]

\* The equation of Levels has a solution.
LEMMA LevelsExist ==
  ASSUME NEW leaves, NEW m \in Nat
  PROVE  \E f : LevelsOf(f, leaves, m)
<1> DEFINE S == {k \in Nat : \E f : LevelsOf(f, leaves, k)}
<1>1. 0 \in S
  <2>1. LevelsOf([h \in 0 .. 0 |-> leaves], leaves, 0)
    BY DEF LevelsOf
  <2> QED BY <2>1
<1>2. ASSUME NEW k \in Nat, k \in S PROVE k + 1 \in S
  <2>1. PICK g : LevelsOf(g, leaves, k)
    BY <1>2
  <2> DEFINE f == [h \in 0 .. k + 1 |-> IF h = k + 1 THEN Parents(g[k]) ELSE g[h]]
  <2>2. ASSUME NEW h \in 0 .. k + 1
        PROVE  f[h] = IF h = 0 THEN leaves ELSE Parents(f[h - 1])
    <3>1. CASE h = k + 1
      <4>1. f[h] = Parents(g[k]) /\ f[k] = g[k] /\ h - 1 = k
        BY <3>1
      <4> QED BY <3>1, <4>1
    <3>2. CASE h # k + 1
      <4>1. h \in 0 .. k /\ f[h] = g[h] /\ (h # 0 => f[h - 1] = g[h - 1])
        BY <3>2
      <4>2. g[h] = IF h = 0 THEN leaves ELSE Parents(g[h - 1])
        BY <2>1, <4>1 DEF LevelsOf
      <4> QED BY <4>1, <4>2
    <3> QED BY <3>1, <3>2
  <2>3. LevelsOf(f, leaves, k + 1)
    BY <2>2 DEF LevelsOf
  <2> QED BY <2>3
<1> HIDE DEF S
<1>3. Nat \subseteq S
  BY <1>1, <1>2, InductionBySet
<1> QED BY <1>3 DEF S

\* The levels of a tree of a list of leaves: each the parents of the one below,
\* the last of them one node.
LEMMA TreeLevels ==
  ASSUME NEW leaves, IsList(leaves)
  PROVE  LET H == treeHeight(Len(leaves))
             level == Levels(leaves)
         IN  /\ H \in Nat /\ DOMAIN level = 0 .. H /\ level[0] = leaves
             /\ \A h \in Nat : h < H => level[h + 1] = Parents(level[h])
             /\ \A h \in 0 .. H : IsList(level[h]) /\ treeHeight(Len(level[h])) = H - h
             /\ \A h \in Nat : h < H => Len(level[h]) >= 2
             /\ Len(level[H]) = 1
<1> DEFINE H == treeHeight(Len(leaves))
           level == Levels(leaves)
           Eqn(f) == f = [h \in 0 .. H |-> IF h = 0 THEN leaves ELSE Parents(f[h - 1])]
<1>1. H \in Nat
  BY ListFacts, TreeHeight
<1> HIDE DEF H
<1>2. \E f : Eqn(f)
  <2>1. PICK f : LevelsOf(f, leaves, H)
    BY <1>1, LevelsExist
  <2>2. Eqn(f)
    BY <2>1 DEF LevelsOf
  <2> QED BY <2>2
<1>3. level = CHOOSE f : Eqn(f)
  BY DEF Levels, H
<1>4. Eqn(level)
  BY <1>2, <1>3
<1> HIDE DEF level
<1>5. /\ DOMAIN level = 0 .. H /\ level[0] = leaves
      /\ \A h \in Nat : h < H => level[h + 1] = Parents(level[h])
  BY <1>1, <1>4
<1> HIDE DEF Eqn
<1> DEFINE S == {h \in Nat : h <= H => IsList(level[h]) /\ treeHeight(Len(level[h])) = H - h}
<1>6. 0 \in S
  BY <1>1, <1>5 DEF H
<1>7. ASSUME NEW h \in Nat, h \in S PROVE h + 1 \in S
  <2> SUFFICES ASSUME h + 1 <= H
               PROVE  IsList(level[h + 1]) /\ treeHeight(Len(level[h + 1])) = H - (h + 1)
    OBVIOUS
  <2>1. h < H /\ h <= H
    BY <1>1
  <2>2. IsList(level[h]) /\ treeHeight(Len(level[h])) = H - h
    BY <1>7, <2>1
  <2>3. level[h + 1] = Parents(level[h])
    BY <1>5, <2>1
  <2>4. IsList(level[h + 1]) /\ Len(level[h + 1]) = Halved(Len(level[h]))
    BY <2>2, <2>3, ParentsAreList
  <2>5. Len(level[h]) \in Nat
    BY <2>2, ListFacts
  <2>6. treeHeight(Halved(Len(level[h]))) \in Nat
    BY <2>5, TreeHeight, HalvedFacts
  <2>7. treeHeight(Len(level[h])) = treeHeight(Halved(Len(level[h]))) + 1
    BY <1>1, <2>1, <2>2, <2>5, TreeHeight
  <2> QED BY <1>1, <2>2, <2>4, <2>6, <2>7
<1> HIDE DEF S
<1>8. Nat \subseteq S
  BY <1>6, <1>7, InductionBySet
<1>9. \A h \in 0 .. H : IsList(level[h]) /\ treeHeight(Len(level[h])) = H - h
  BY <1>1, <1>8 DEF S
<1>10. \A h \in Nat : h < H => Len(level[h]) >= 2
  <2> SUFFICES ASSUME NEW h \in Nat, h < H PROVE Len(level[h]) >= 2
    OBVIOUS
  <2>1. IsList(level[h]) /\ treeHeight(Len(level[h])) = H - h /\ Len(level[h]) \in Nat
    BY <1>1, <1>9, ListFacts
  <2> QED BY <1>1, <2>1, TreeHeight
<1>11. Len(level[H]) = 1
  <2> DEFINE n == Len(level[H])
  <2>1. IsList(level[H]) /\ treeHeight(n) = 0
    BY <1>1, <1>9
  <2>2. n \in Nat /\ n >= 1
    BY <2>1, ListFacts
  <2> HIDE DEF n
  <2>3. treeHeight(Halved(n)) \in Nat /\ treeHeight(n) = IF n <= 1 THEN 0 ELSE treeHeight(Halved(n)) + 1
    BY <2>2, TreeHeight, HalvedFacts
  <2>4. n = 1
    BY <2>1, <2>2, <2>3
  <2> QED BY <2>4 DEF n
<1> QED BY <1>1, <1>5, <1>9, <1>10, <1>11 DEF H, level

(* --------------------------------- folds ------------------------------- *)

FoldsTo(at, start, branch, m) ==
  at = [h \in 0 .. m |-> IF h = 0 THEN start ELSE FoldLevel(at[h - 1], branch[h])]

\* The equation of verifyMerkleBranch's fold has a solution.
LEMMA FoldsExist ==
  ASSUME NEW start, NEW branch, NEW m \in Nat
  PROVE  \E at : FoldsTo(at, start, branch, m)
<1> DEFINE S == {k \in Nat : \E at : FoldsTo(at, start, branch, k)}
<1>1. 0 \in S
  <2>1. FoldsTo([h \in 0 .. 0 |-> start], start, branch, 0)
    BY DEF FoldsTo
  <2> QED BY <2>1
<1>2. ASSUME NEW k \in Nat, k \in S PROVE k + 1 \in S
  <2>1. PICK g : FoldsTo(g, start, branch, k)
    BY <1>2
  <2> DEFINE f == [h \in 0 .. k + 1 |-> IF h = k + 1 THEN FoldLevel(g[k], branch[k + 1]) ELSE g[h]]
  <2>2. ASSUME NEW h \in 0 .. k + 1
        PROVE  f[h] = IF h = 0 THEN start ELSE FoldLevel(f[h - 1], branch[h])
    <3>1. CASE h = k + 1
      <4>1. f[h] = FoldLevel(g[k], branch[k + 1]) /\ f[k] = g[k] /\ h - 1 = k
        BY <3>1
      <4> QED BY <3>1, <4>1
    <3>2. CASE h # k + 1
      <4>1. h \in 0 .. k /\ f[h] = g[h] /\ (h # 0 => f[h - 1] = g[h - 1])
        BY <3>2
      <4>2. g[h] = IF h = 0 THEN start ELSE FoldLevel(g[h - 1], branch[h])
        BY <2>1, <4>1 DEF FoldsTo
      <4> QED BY <4>1, <4>2
    <3> QED BY <3>1, <3>2
  <2>3. FoldsTo(f, start, branch, k + 1)
    BY <2>2 DEF FoldsTo
  <2> QED BY <2>3
<1> HIDE DEF S
<1>3. Nat \subseteq S
  BY <1>1, <1>2, InductionBySet
<1> QED BY <1>3 DEF S

\* The states of a verification, from the leaf to the end of the branch.
Verification(at, leaf, branch, pos, count) ==
  /\ at[0] = [node |-> leaf, index |-> pos, width |-> count, ok |-> TRUE]
  /\ \A h \in Nat : h < Len(branch) => at[h + 1] = FoldLevel(at[h], branch[h + 1])
  /\ verifyMerkleBranch(leaf, branch, pos, count)
       = IF /\ count > 0 => pos < count /\ Len(branch) = treeHeight(count)
            /\ at[Len(branch)].ok /\ at[Len(branch)].index = 0
         THEN at[Len(branch)].node ELSE NoHash

\* A verification goes through such states.
LEMMA VerifiedBy ==
  ASSUME NEW branch, Len(branch) \in Nat
  PROVE  \A leaf, pos, count : \E at : Verification(at, leaf, branch, pos, count)
<1> TAKE leaf, pos, count
<1> DEFINE start == [node |-> leaf, index |-> pos, width |-> count, ok |-> TRUE]
           m == Len(branch)
           Eqn(f) == f = [h \in 0 .. m |-> IF h = 0 THEN start ELSE FoldLevel(f[h - 1], branch[h])]
           at == CHOOSE f : Eqn(f)
           Accepted(end) == /\ count > 0 => pos < count /\ m = treeHeight(count)
                            /\ end.ok /\ end.index = 0
<1>1. verifyMerkleBranch(leaf, branch, pos, count)
        = IF Accepted(at[m]) THEN at[m].node ELSE NoHash
  BY DEF verifyMerkleBranch
<1>2. \E f : Eqn(f)
  <2> HIDE DEF start, m
  <2>1. m \in Nat
    BY DEF m
  <2>2. PICK f : FoldsTo(f, start, branch, m)
    BY <2>1, FoldsExist
  <2>3. Eqn(f)
    BY <2>2 DEF FoldsTo
  <2> QED BY <2>3
<1>3. Eqn(at)
  BY <1>2
<1> HIDE DEF at
<1>4. at[0] = start /\ \A h \in Nat : h < m => at[h + 1] = FoldLevel(at[h], branch[h + 1])
  <2> HIDE DEF start
  <2>1. m \in Nat
    OBVIOUS
  <2> HIDE DEF m
  <2>2. \A h \in 0 .. m : at[h] = IF h = 0 THEN start ELSE FoldLevel(at[h - 1], branch[h])
    BY <1>3
  <2>3. at[0] = start
    BY <2>1, <2>2
  <2>4. ASSUME NEW h \in Nat, h < m PROVE at[h + 1] = FoldLevel(at[h], branch[h + 1])
    <3>1. h + 1 \in 0 .. m /\ h + 1 # 0 /\ (h + 1) - 1 = h
      BY <2>1, <2>4
    <3> QED BY <2>2, <3>1
  <2> QED BY <2>3, <2>4
<1>5. Verification(at, leaf, branch, pos, count)
  BY <1>1, <1>4 DEF Verification
<1> QED BY <1>5

(* ------------------------------ one level ------------------------------ *)

\* Down a level: a fold that is on the path above, and no further right than
\* the claimed width allows, was on it below.
LEMMA StepDown ==
  ASSUME NEW level, IsList(level), NEW at, NEW sibling,
         at.index \in Nat, at.width \in Nat, at.index < at.width,
         FoldLevel(at, sibling).ok,
         at.index \div 2 < Halved(Len(level)),
         FoldLevel(at, sibling).node = Parents(level)[(at.index \div 2) + 1],
         at.index \div 2 = Halved(Len(level)) - 1 => Halved(at.width) <= Halved(Len(level))
  PROVE  /\ at.ok /\ at.index < Len(level) /\ at.node = level[at.index + 1]
         /\ at.index = Len(level) - 1 => at.width <= Len(level)
<1> DEFINE n == Len(level)
           i == at.index
           w == at.width
           k == (i \div 2) + 1
<1>1. n \in Nat /\ n >= 1 /\ DOMAIN level = 1 .. n
  BY ListFacts
<1>2. /\ at.ok
      /\ FoldLevel(at, sibling).node = IF i % 2 = 1 THEN <<sibling, at.node>> ELSE <<at.node, sibling>>
      /\ w > 0 /\ w % 2 = 0 /\ i \div 2 = w \div 2 - 1 => sibling # at.node
  BY DEF FoldLevel, hashPair
<1>3. /\ i \in Nat /\ w \in Nat /\ i < w /\ k = (i \div 2) + 1
      /\ i \div 2 < Halved(n)
      /\ i \div 2 = Halved(n) - 1 => Halved(w) <= Halved(n)
      /\ FoldLevel(at, sibling).node = Parents(level)[k]
  OBVIOUS
<1> HIDE DEF n, i, w, k
<1>4. /\ Halved(n) \in Nat
      /\ (n % 2 = 0 /\ n = 2 * Halved(n)) \/ (n % 2 = 1 /\ n + 1 = 2 * Halved(n))
  <2>1. Halved(n) \in Nat /\ (2 * Halved(n) = n \/ 2 * Halved(n) = n + 1)
    BY <1>1, HalvedFacts
  <2> QED BY <1>1, <2>1
<1>5. /\ Halved(w) \in Nat
      /\ (w % 2 = 0 /\ w = 2 * Halved(w)) \/ (w % 2 = 1 /\ w + 1 = 2 * Halved(w))
  <2>1. Halved(w) \in Nat /\ (2 * Halved(w) = w \/ 2 * Halved(w) = w + 1)
    BY <1>3, HalvedFacts
  <2> QED BY <1>3, <2>1
<1>6. /\ i \div 2 \in Nat
      /\ (i % 2 = 0 /\ i = 2 * (i \div 2)) \/ (i % 2 = 1 /\ i = 2 * (i \div 2) + 1)
  BY <1>3
<1>7. k \in 1 .. Halved(n) /\ k - 1 = i \div 2 /\ (k = Halved(n) => Halved(w) <= Halved(n))
  BY <1>3, <1>4, <1>6
<1>8. IF i % 2 = 1 THEN sibling = level[2 * k - 1] /\ at.node = Partner(level, 2 * k)
                   ELSE at.node = level[2 * k - 1] /\ sibling = Partner(level, 2 * k)
  <2>1. Parents(level)[k] = <<level[2 * k - 1], Partner(level, 2 * k)>>
    BY <1>7, ParentsAreList DEF n
  <2> QED BY <1>2, <1>3, <2>1
<1>9. Partner(level, 2 * k) = IF 2 * k <= n THEN level[2 * k] ELSE level[n]
  <2>1. 2 * k \in 1 .. n <=> 2 * k <= n
    BY <1>1, <1>4, <1>7
  <2> QED BY <1>1, <2>1 DEF Partner, n
<1>10. w % 2 = 0 /\ k = Halved(w) => sibling # at.node
  <2>1. w % 2 = 0 => w \div 2 = Halved(w)
    BY <1>3, <1>5
  <2>2. w > 0
    BY <1>3
  <2>3. k = Halved(w) => i \div 2 = Halved(w) - 1
    BY <1>5, <1>7
  <2> QED BY <1>2, <2>1, <2>2, <2>3
<1>11. /\ k \in Nat /\ k >= 1 /\ k <= Halved(n) /\ (k = Halved(n) => Halved(w) <= Halved(n))
       /\ i \in Nat /\ w \in Nat /\ i < w
       /\ (i % 2 = 0 /\ i = 2 * k - 2) \/ (i % 2 = 1 /\ i = 2 * k - 1)
  BY <1>3, <1>4, <1>6, <1>7
<1>12. i < n /\ at.node = level[i + 1]
  <2>1. CASE i % 2 = 0
    <3>1. 2 * k - 1 = i + 1 /\ i < n /\ i % 2 # 1
      BY <1>1, <1>4, <1>11, <2>1
    <3> QED BY <1>8, <3>1
  <2>2. CASE i % 2 = 1 /\ 2 * k <= n
    <3>1. 2 * k = i + 1 /\ i < n
      BY <1>1, <1>4, <1>11, <2>2
    <3> QED BY <1>8, <1>9, <2>2, <3>1
  <2>3. CASE i % 2 = 1 /\ 2 * k > n
    <3>1. n = 2 * k - 1 /\ k = Halved(n) /\ i = n
      BY <1>1, <1>4, <1>11, <2>3
    <3>2. w % 2 = 0 /\ Halved(w) = k
      BY <1>1, <1>5, <1>11, <3>1
    <3>3. sibling = level[n] /\ at.node = level[n]
      <4>1. ~ (2 * k <= n)
        BY <1>1, <1>11, <3>1
      <4> QED BY <1>8, <1>9, <2>3, <3>1, <4>1
    <3> QED BY <1>10, <3>2, <3>3
  <2> QED BY <1>1, <1>11, <2>1, <2>2, <2>3
<1>13. i = n - 1 => w <= n
  <2> SUFFICES ASSUME i = n - 1, w > n PROVE FALSE
    BY <1>1, <1>11
  <2>1. k = Halved(n)
    BY <1>1, <1>4, <1>11
  <2>2. n % 2 = 1 /\ w % 2 = 0 /\ Halved(w) = k
    BY <1>1, <1>4, <1>5, <1>11, <2>1
  <2>3. i % 2 # 1 /\ 2 * k - 1 = n /\ ~ (2 * k <= n)
    BY <1>1, <1>4, <1>11, <2>1, <2>2
  <2>4. at.node = level[n] /\ sibling = level[n]
    BY <1>8, <1>9, <2>3
  <2> QED BY <1>10, <2>2, <2>4
<1> QED BY <1>2, <1>12, <1>13 DEF n, i, w

\* Down a level with no width: the node is one of the level.
LEMMA StepAmong ==
  ASSUME NEW level, IsList(level), NEW at, NEW sibling, NEW k \in 1 .. Halved(Len(level)),
         FoldLevel(at, sibling).node = Parents(level)[k]
  PROVE  \E i \in 1 .. Len(level) : at.node = level[i]
<1> DEFINE n == Len(level)
<1>1. n \in Nat /\ n >= 1 /\ DOMAIN level = 1 .. n
  BY ListFacts
<1>2. Parents(level)[k] = <<level[2 * k - 1], Partner(level, 2 * k)>>
  BY ParentsAreList
<1>3. at.node = level[2 * k - 1] \/ at.node = Partner(level, 2 * k)
  BY <1>2 DEF FoldLevel, hashPair
<1>4. Partner(level, 2 * k) = IF 2 * k \in 1 .. n THEN level[2 * k] ELSE level[n]
  BY <1>1 DEF Partner
<1>5. k \in 1 .. Halved(n)
  OBVIOUS
<1> HIDE DEF n
<1>6. 2 * k - 1 \in 1 .. n /\ n \in 1 .. n
  <2>1. Halved(n) \in Nat /\ (2 * Halved(n) = n \/ 2 * Halved(n) = n + 1)
    BY <1>1, HalvedFacts
  <2> QED BY <1>1, <1>5, <2>1
<1> QED BY <1>3, <1>4, <1>6 DEF n

\* Up a level, along the branch that is built.
LEMMA StepUp ==
  ASSUME NEW level, IsList(level), Len(level) >= 2, ~ Mutated(level), NEW at, NEW sibling,
         at.ok, at.width = Len(level), at.index \in Nat, at.index < Len(level),
         at.node = level[at.index + 1],
         sibling = IF at.index % 2 = 1 THEN level[at.index] ELSE Partner(level, at.index + 2)
  PROVE  /\ FoldLevel(at, sibling).ok
         /\ FoldLevel(at, sibling).width = Len(Parents(level))
         /\ FoldLevel(at, sibling).index = at.index \div 2
         /\ FoldLevel(at, sibling).index \in Nat
         /\ FoldLevel(at, sibling).index < Len(Parents(level))
         /\ FoldLevel(at, sibling).node = Parents(level)[FoldLevel(at, sibling).index + 1]
<1> DEFINE n == Len(level)
           i == at.index
           k == (i \div 2) + 1
           next == FoldLevel(at, sibling)
<1>1. n \in Nat /\ n >= 1 /\ DOMAIN level = 1 .. n
  BY ListFacts
<1>2. n % 2 = 0 => level[n] # level[n - 1]
  BY DEF Mutated
<1>3. /\ next.node = IF i % 2 = 1 THEN <<sibling, at.node>> ELSE <<at.node, sibling>>
      /\ next.index = i \div 2 /\ next.width = Halved(n)
      /\ next.ok <=> /\ at.ok
                     /\ n > 0 /\ i = n - 1 /\ n % 2 = 1 => sibling = at.node
                     /\ n > 0 /\ n % 2 = 0 /\ i \div 2 = n \div 2 - 1 => sibling # at.node
  BY DEF FoldLevel, hashPair
<1>4. /\ at.ok /\ at.node = level[i + 1] /\ i < n /\ i \in Nat /\ k = (i \div 2) + 1
      /\ sibling = IF i % 2 = 1 THEN level[i] ELSE Partner(level, i + 2)
  OBVIOUS
<1>5. \A j : Partner(level, j) = IF j \in 1 .. n THEN level[j] ELSE level[n]
  BY <1>1 DEF Partner
<1> HIDE DEF n, i, k, next
<1>6. /\ Halved(n) \in Nat
      /\ (n % 2 = 0 /\ n = 2 * Halved(n)) \/ (n % 2 = 1 /\ n + 1 = 2 * Halved(n))
  <2>1. Halved(n) \in Nat /\ (2 * Halved(n) = n \/ 2 * Halved(n) = n + 1)
    BY <1>1, HalvedFacts
  <2> QED BY <1>1, <2>1
<1>7. /\ i \div 2 \in Nat
      /\ (i % 2 = 0 /\ i = 2 * (i \div 2)) \/ (i % 2 = 1 /\ i = 2 * (i \div 2) + 1)
  BY <1>4
<1>8. k \in 1 .. Halved(n)
  BY <1>1, <1>4, <1>6, <1>7
<1>9. Parents(level)[k] = <<level[2 * k - 1], Partner(level, 2 * k)>> /\ Len(Parents(level)) = Halved(n)
  BY <1>8, ParentsAreList DEF n
<1>10. /\ i \in Nat /\ i < n /\ k \in Nat
       /\ (i % 2 = 0 /\ i = 2 * k - 2) \/ (i % 2 = 1 /\ i = 2 * k - 1)
  <2>1. i \in Nat /\ i < n /\ k = (i \div 2) + 1
    BY <1>4
  <2>2. k \in Nat /\ i \div 2 = k - 1
    BY <1>7, <2>1
  <2>3. CASE i % 2 = 0 /\ i = 2 * (i \div 2)
    <3>1. i = 2 * k - 2
      BY <2>1, <2>2, <2>3
    <3> QED BY <2>1, <2>2, <2>3, <3>1
  <2>4. CASE i % 2 = 1 /\ i = 2 * (i \div 2) + 1
    <3>1. i = 2 * k - 1
      BY <2>1, <2>2, <2>4
    <3> QED BY <2>1, <2>2, <2>4, <3>1
  <2> QED BY <1>7, <2>3, <2>4
<1>11. next.node = Parents(level)[k]
  <2>1. CASE i % 2 = 1
    <3>1. 2 * k = i + 1 /\ 2 * k - 1 = i /\ 2 * k \in 1 .. n
      BY <1>1, <1>10, <2>1
    <3>2. Partner(level, 2 * k) = level[i + 1]
      BY <1>5, <3>1
    <3> QED BY <1>3, <1>4, <1>9, <2>1, <3>1, <3>2
  <2>2. CASE i % 2 = 0
    <3>1. 2 * k = i + 2 /\ 2 * k - 1 = i + 1 /\ i % 2 # 1
      BY <1>10, <2>2
    <3> QED BY <1>3, <1>4, <1>9, <3>1
  <2> QED BY <1>10, <2>1, <2>2
<1>12. ASSUME i = n - 1, n % 2 = 1 PROVE sibling = at.node
  <2>1. i % 2 # 1 /\ ~ (i + 2 \in 1 .. n) /\ i + 1 = n
    BY <1>1, <1>6, <1>10, <1>12
  <2> QED BY <1>4, <1>5, <2>1
<1>13. ASSUME n % 2 = 0, i \div 2 = n \div 2 - 1 PROVE sibling # at.node
  <2>1. n \div 2 = Halved(n)
    BY <1>1, <1>6, <1>13
  <2>2. k = Halved(n)
    <3>1. i \div 2 = Halved(n) - 1
      BY <1>13, <2>1
    <3>2. k = (i \div 2) + 1
      BY <1>4
    <3> QED BY <1>6, <1>7, <3>1, <3>2
  <2>3. n = 2 * Halved(n)
    BY <1>6, <1>13
  <2>4. CASE i % 2 = 1
    <3>1. i = n - 1 /\ i + 1 = n
      BY <1>1, <1>10, <2>2, <2>3, <2>4
    <3> QED BY <1>2, <1>4, <1>13, <2>4, <3>1
  <2>5. CASE i % 2 = 0
    <3>1. i % 2 # 1 /\ i + 1 = n - 1 /\ i + 2 = n /\ i + 2 \in 1 .. n
      BY <1>1, <1>10, <2>2, <2>3, <2>5
    <3>2. sibling = level[n]
      BY <1>4, <1>5, <3>1
    <3> QED BY <1>2, <1>4, <1>13, <3>1, <3>2
  <2> QED BY <1>10, <2>4, <2>5
<1>14. next.ok
  BY <1>3, <1>4, <1>12, <1>13
<1>15. next.index \in Nat /\ next.index < Halved(n) /\ next.index + 1 = k
  BY <1>3, <1>4, <1>6, <1>7, <1>8
<1> QED BY <1>3, <1>9, <1>11, <1>14, <1>15 DEF next, i, n

(* ------------------------------ whole trees ---------------------------- *)

\* A claimed width halves as the fold goes up, and stays ahead of the index.
Paced(at, branch, H) ==
  /\ at[0].index \in Nat /\ at[0].width \in Nat /\ at[0].index < at[0].width
  /\ treeHeight(at[0].width) = H
  /\ \A h \in Nat : h < H => at[h + 1] = FoldLevel(at[h], branch[h + 1])

\* As it is claimed, whatever the branch is made of.
LEMMA WidthHalves ==
  ASSUME NEW H \in Nat
  PROVE  \A at, branch : Paced(at, branch, H) =>
           \A h \in 0 .. H : /\ at[h].index \in Nat /\ at[h].width \in Nat
                               /\ at[h].index < at[h].width /\ treeHeight(at[h].width) = H - h
<1> SUFFICES ASSUME NEW at, NEW branch,
                    at[0].index \in Nat, at[0].width \in Nat, at[0].index < at[0].width,
                    treeHeight(at[0].width) = H,
                    \A h \in Nat : h < H => at[h + 1] = FoldLevel(at[h], branch[h + 1])
             PROVE  \A h \in 0 .. H :
                      /\ at[h].index \in Nat /\ at[h].width \in Nat
                      /\ at[h].index < at[h].width /\ treeHeight(at[h].width) = H - h
  BY DEF Paced
<1> DEFINE Kept(h) == /\ at[h].index \in Nat /\ at[h].width \in Nat
                      /\ at[h].index < at[h].width /\ treeHeight(at[h].width) = H - h
           S == {h \in Nat : h <= H => Kept(h)}
<1>1. 0 \in S
  OBVIOUS
<1>2. ASSUME NEW h \in Nat, h \in S PROVE h + 1 \in S
  <2> SUFFICES ASSUME h + 1 <= H PROVE Kept(h + 1)
    OBVIOUS
  <2>1. h < H /\ h <= H
    OBVIOUS
  <2> DEFINE i == at[h].index
             w == at[h].width
  <2>2. i \in Nat /\ w \in Nat /\ i < w /\ treeHeight(w) = H - h
    BY <1>2, <2>1
  <2>3. at[h + 1].index = i \div 2 /\ at[h + 1].width = Halved(w)
    <3>1. at[h + 1] = FoldLevel(at[h], branch[h + 1])
      BY <2>1
    <3> QED BY <3>1 DEF FoldLevel
  <2> HIDE DEF i, w
  <2>4. Halved(w) \in Nat /\ (2 * Halved(w) = w \/ 2 * Halved(w) = w + 1)
    BY <2>2, HalvedFacts
  <2>5. i \div 2 \in Nat /\ (2 * (i \div 2) = i \/ 2 * (i \div 2) = i - 1)
    BY <2>2
  <2>6. i \div 2 < Halved(w)
    BY <2>2, <2>4, <2>5
  <2>7. treeHeight(Halved(w)) \in Nat /\ treeHeight(w) = IF w <= 1 THEN 0 ELSE treeHeight(Halved(w)) + 1
    BY <2>2, <2>4, TreeHeight
  <2>8. treeHeight(Halved(w)) = H - (h + 1)
    BY <2>1, <2>2, <2>7
  <2> QED BY <2>3, <2>4, <2>5, <2>6, <2>8
<1> HIDE DEF S
<1>3. Nat \subseteq S
  BY <1>1, <1>2, InductionBySet
<1> QED BY <1>3 DEF S

\* Under a count of the tree's depth, a branch that folds to the root is that
\* of the leaf at the claimed place.
LEMMA AcceptedLeaf ==
  ASSUME NEW leaves, IsList(leaves), NEW count \in Nat, count > 0,
         treeHeight(count) = treeHeight(Len(leaves)),
         NEW pos \in Nat, NEW leaf, NEW branch,
         verifyMerkleBranch(leaf, branch, pos, count) = blockHashMerkleRoot(leaves),
         blockHashMerkleRoot(leaves) # NoHash
  PROVE  pos < Len(leaves) /\ leaf = leaves[pos + 1]
<1> DEFINE H == treeHeight(Len(leaves))
           level == Levels(leaves)
           root == blockHashMerkleRoot(leaves)
<1>1. /\ H \in Nat /\ level[0] = leaves
      /\ \A h \in Nat : h < H => level[h + 1] = Parents(level[h])
      /\ \A h \in 0 .. H : IsList(level[h])
      /\ Len(level[H]) = 1
  BY TreeLevels
<1>2. root = level[H][1] /\ treeHeight(count) = H
  BY DEF blockHashMerkleRoot
<1>3. Len(branch) = treeHeight(count) /\ pos < count
  BY DEF verifyMerkleBranch
<1> HIDE DEF H, level, root
<1>4. Len(branch) = H /\ Len(branch) \in Nat
  BY <1>1, <1>2, <1>3
<1>5. PICK at : Verification(at, leaf, branch, pos, count)
  BY <1>4, VerifiedBy
<1>6. at[H].ok /\ at[H].index = 0 /\ at[H].node = root
  BY <1>4, <1>5 DEF root, Verification
<1>7. /\ at[0] = [node |-> leaf, index |-> pos, width |-> count, ok |-> TRUE]
      /\ \A h \in Nat : h < H => at[h + 1] = FoldLevel(at[h], branch[h + 1])
  BY <1>4, <1>5 DEF Verification
<1>8. \A h \in 0 .. H : /\ at[h].index \in Nat /\ at[h].width \in Nat
                        /\ at[h].index < at[h].width /\ treeHeight(at[h].width) = H - h
  <2>1. /\ at[0].index \in Nat /\ at[0].width \in Nat /\ at[0].index < at[0].width
        /\ treeHeight(at[0].width) = H
    BY <1>2, <1>3, <1>7
  <2>2. Paced(at, branch, H)
    BY <1>7, <2>1 DEF Paced
  <2> QED BY <1>1, <2>2, WidthHalves
<1> DEFINE On(h) == /\ at[h].ok /\ at[h].index < Len(level[h])
                    /\ at[h].node = level[h][at[h].index + 1]
                    /\ at[h].index = Len(level[h]) - 1 => at[h].width <= Len(level[h])
           S == {j \in Nat : j <= H => On(H - j)}
<1>9. 0 \in S
  <2>1. On(H)
    <3> DEFINE w == at[H].width
    <3>1. w \in Nat /\ w > 0 /\ treeHeight(w) = 0
      <4>1. H \in 0 .. H /\ H - H = 0
        BY <1>1
      <4>2. at[H].index \in Nat /\ at[H].width \in Nat /\ at[H].index < at[H].width
            /\ treeHeight(at[H].width) = H - H
        BY <1>8, <4>1
      <4> QED BY <4>1, <4>2
    <3> HIDE DEF w
    <3>2. treeHeight(Halved(w)) \in Nat /\ treeHeight(w) = IF w <= 1 THEN 0 ELSE treeHeight(Halved(w)) + 1
      BY <3>1, TreeHeight, HalvedFacts
    <3>3. w <= 1
      BY <3>1, <3>2
    <3> QED BY <1>1, <1>2, <1>6, <3>3 DEF w
  <2> HIDE DEF On
  <2>2. H - 0 = H
    BY <1>1
  <2> QED BY <2>1, <2>2
<1>10. ASSUME NEW j \in Nat, j \in S PROVE j + 1 \in S
  <2> SUFFICES ASSUME j + 1 <= H PROVE On(H - (j + 1))
    OBVIOUS
  <2> DEFINE h == H - (j + 1)
  <2>1. h \in Nat /\ h < H /\ h + 1 = H - j /\ j <= H
    BY <1>1
  <2>2. On(h + 1)
    BY <1>10, <2>1
  <2> HIDE DEF h, S
  <2>3. h \in 0 .. H
    BY <1>1, <2>1
  <2>4. at[h + 1] = FoldLevel(at[h], branch[h + 1]) /\ level[h + 1] = Parents(level[h])
    BY <1>1, <1>7, <2>1
  <2>5. IsList(level[h]) /\ Len(level[h + 1]) = Halved(Len(level[h]))
    BY <1>1, <2>3, <2>4, ParentsAreList
  <2> DEFINE a == at[h]
             l == level[h]
             sibling == branch[h + 1]
  <2>6. a.index \in Nat /\ a.width \in Nat /\ a.index < a.width
    BY <1>8, <2>3
  <2>7. at[h + 1].index = a.index \div 2 /\ at[h + 1].width = Halved(a.width)
    BY <2>4 DEF FoldLevel
  <2>8. /\ FoldLevel(a, sibling).ok
        /\ a.index \div 2 < Halved(Len(l))
        /\ FoldLevel(a, sibling).node = Parents(l)[(a.index \div 2) + 1]
        /\ a.index \div 2 = Halved(Len(l)) - 1 => Halved(a.width) <= Halved(Len(l))
    BY <2>2, <2>4, <2>5, <2>7
  <2>9. IsList(l)
    BY <2>5
  <2> HIDE DEF a, l, sibling
  <2>10. /\ a.ok /\ a.index < Len(l) /\ a.node = l[a.index + 1]
         /\ a.index = Len(l) - 1 => a.width <= Len(l)
    BY <2>6, <2>8, <2>9, StepDown
  <2> QED BY <2>10 DEF a, l, h
<1> HIDE DEF S
<1>11. Nat \subseteq S
  BY <1>9, <1>10, InductionBySet
<1>12. On(0)
  <2>1. H \in S
    BY <1>1, <1>11
  <2> QED BY <1>1, <2>1 DEF S
<1> QED BY <1>1, <1>7, <1>12

\* Without a count, it is that of a leaf of the tree.
LEMMA LeafAmong ==
  ASSUME NEW leaves, IsList(leaves), NEW pos, NEW leaf, NEW branch,
         Len(branch) = treeHeight(Len(leaves)),
         verifyMerkleBranch(leaf, branch, pos, 0) = blockHashMerkleRoot(leaves),
         blockHashMerkleRoot(leaves) # NoHash
  PROVE  \E i \in 1 .. Len(leaves) : leaf = leaves[i]
<1> DEFINE H == treeHeight(Len(leaves))
           level == Levels(leaves)
           root == blockHashMerkleRoot(leaves)
<1>1. /\ H \in Nat /\ level[0] = leaves
      /\ \A h \in Nat : h < H => level[h + 1] = Parents(level[h])
      /\ \A h \in 0 .. H : IsList(level[h])
      /\ Len(level[H]) = 1
  BY TreeLevels
<1>2. root = level[H][1] /\ Len(branch) = H
  BY DEF blockHashMerkleRoot
<1> HIDE DEF H, level, root
<1>3. Len(branch) \in Nat
  BY <1>1, <1>2
<1>4. PICK at : Verification(at, leaf, branch, pos, 0)
  BY <1>3, VerifiedBy
<1>5. /\ at[H].node = root /\ at[0].node = leaf
      /\ \A h \in Nat : h < H => at[h + 1] = FoldLevel(at[h], branch[h + 1])
  BY <1>2, <1>4 DEF root, Verification
<1> DEFINE On(h) == \E i \in 1 .. Len(level[h]) : at[h].node = level[h][i]
           S == {j \in Nat : j <= H => On(H - j)}
<1>6. 0 \in S
  <2>1. On(H)
    BY <1>1, <1>2, <1>5
  <2> QED BY <1>1, <2>1
<1>7. ASSUME NEW j \in Nat, j \in S PROVE j + 1 \in S
  <2> SUFFICES ASSUME j + 1 <= H PROVE On(H - (j + 1))
    OBVIOUS
  <2> DEFINE h == H - (j + 1)
  <2>1. h \in Nat /\ h < H /\ h + 1 = H - j /\ j <= H
    BY <1>1
  <2>2. On(h + 1)
    BY <1>7, <2>1
  <2> HIDE DEF h, S
  <2>3. h \in 0 .. H
    BY <1>1, <2>1
  <2>4. at[h + 1] = FoldLevel(at[h], branch[h + 1]) /\ level[h + 1] = Parents(level[h])
    BY <1>1, <1>5, <2>1
  <2>5. IsList(level[h]) /\ Len(level[h + 1]) = Halved(Len(level[h]))
    BY <1>1, <2>3, <2>4, ParentsAreList
  <2>6. PICK k \in 1 .. Halved(Len(level[h])) :
          FoldLevel(at[h], branch[h + 1]).node = Parents(level[h])[k]
    BY <2>2, <2>4, <2>5
  <2> QED BY <2>5, <2>6, StepAmong DEF h
<1> HIDE DEF S
<1>8. Nat \subseteq S
  BY <1>6, <1>7, InductionBySet
<1>9. On(0)
  <2>1. H \in S
    BY <1>1, <1>8
  <2> QED BY <1>1, <2>1 DEF S
<1> QED BY <1>1, <1>5, <1>9

(* --------------------------- branches that are built ------------------- *)

IndicesOf(f, pos, m) == f = [h \in 0 .. m |-> IF h = 0 THEN pos ELSE f[h - 1] \div 2]

\* The equation of buildMerkleBranch's indices has a solution.
LEMMA IndicesExist ==
  ASSUME NEW pos, NEW m \in Nat
  PROVE  \E f : IndicesOf(f, pos, m)
<1> DEFINE S == {k \in Nat : \E f : IndicesOf(f, pos, k)}
<1>1. 0 \in S
  <2>1. IndicesOf([h \in 0 .. 0 |-> pos], pos, 0)
    BY DEF IndicesOf
  <2> QED BY <2>1
<1>2. ASSUME NEW k \in Nat, k \in S PROVE k + 1 \in S
  <2>1. PICK g : IndicesOf(g, pos, k)
    BY <1>2
  <2> DEFINE f == [h \in 0 .. k + 1 |-> IF h = k + 1 THEN g[k] \div 2 ELSE g[h]]
  <2>2. ASSUME NEW h \in 0 .. k + 1
        PROVE  f[h] = IF h = 0 THEN pos ELSE f[h - 1] \div 2
    <3>1. CASE h = k + 1
      <4>1. f[h] = g[k] \div 2 /\ f[k] = g[k] /\ h - 1 = k
        BY <3>1
      <4> QED BY <3>1, <4>1
    <3>2. CASE h # k + 1
      <4>1. h \in 0 .. k /\ f[h] = g[h] /\ (h # 0 => f[h - 1] = g[h - 1])
        BY <3>2
      <4>2. g[h] = IF h = 0 THEN pos ELSE g[h - 1] \div 2
        BY <2>1, <4>1 DEF IndicesOf
      <4> QED BY <4>1, <4>2
    <3> QED BY <3>1, <3>2
  <2>3. IndicesOf(f, pos, k + 1)
    BY <2>2 DEF IndicesOf
  <2> QED BY <2>3
<1> HIDE DEF S
<1>3. Nat \subseteq S
  BY <1>1, <1>2, InductionBySet
<1> QED BY <1>3 DEF S

Sibling(level, i) == IF i % 2 = 1 THEN level[i] ELSE Partner(level, i + 2)

BuiltAlong(index, leaves, pos) ==
  /\ index[0] = pos
  /\ \A h \in Nat : h < treeHeight(Len(leaves)) =>
       /\ index[h + 1] = index[h] \div 2
       /\ buildMerkleBranch(leaves, pos)[h + 1] = Sibling(Levels(leaves)[h], index[h])

\* A built branch takes one node of every level, the sibling of the path.
LEMMA BuiltBranch ==
  ASSUME NEW leaves, treeHeight(Len(leaves)) \in Nat, NEW pos
  PROVE  /\ Len(buildMerkleBranch(leaves, pos)) = treeHeight(Len(leaves))
         /\ \E index : BuiltAlong(index, leaves, pos)
<1> DEFINE H == treeHeight(Len(leaves))
           levels == Levels(leaves)
           Eqn(f) == f = [h \in 0 .. H |-> IF h = 0 THEN pos ELSE f[h - 1] \div 2]
           index == CHOOSE f : Eqn(f)
           branch == buildMerkleBranch(leaves, pos)
<1>1. branch = [h \in 1 .. H |-> Sibling(levels[h - 1], index[h - 1])]
  BY DEF buildMerkleBranch, Sibling
<1> HIDE DEF H, levels, branch
<1>2. H \in Nat
  BY DEF H
<1>3. \E f : Eqn(f)
  <2>1. PICK f : IndicesOf(f, pos, H)
    BY <1>2, IndicesExist
  <2>2. Eqn(f)
    BY <2>1 DEF IndicesOf
  <2> QED BY <2>2
<1>4. Eqn(index)
  BY <1>3
<1> HIDE DEF index
<1>5. Len(branch) = H
  BY <1>1, <1>2
<1>6. index[0] = pos
  BY <1>2, <1>4
<1>7. ASSUME NEW h \in Nat, h < H
      PROVE  index[h + 1] = index[h] \div 2 /\ branch[h + 1] = Sibling(levels[h], index[h])
  <2>1. h + 1 \in 0 .. H /\ h + 1 \in 1 .. H /\ h + 1 # 0 /\ (h + 1) - 1 = h
    BY <1>2, <1>7
  <2>2. index[h + 1] = index[h] \div 2
    BY <1>4, <2>1
  <2>3. branch[h + 1] = Sibling(levels[h], index[h])
    BY <1>1, <2>1
  <2> QED BY <2>2, <2>3
<1>8. BuiltAlong(index, leaves, pos)
  BY <1>6, <1>7 DEF BuiltAlong, H, branch, levels
<1> QED BY <1>5, <1>8 DEF H, branch

NeverMutated(leaves) ==
  \A h \in 0 .. treeHeight(Len(leaves)) : ~ Mutated(Levels(leaves)[h])

\* The branch that is built for a leaf of a tree without duplicates is accepted.
LEMMA BuiltIsAccepted ==
  ASSUME NEW leaves, IsList(leaves), NeverMutated(leaves), NEW pos \in Nat, pos < Len(leaves)
  PROVE  verifyMerkleBranch(leaves[pos + 1], buildMerkleBranch(leaves, pos), pos, Len(leaves))
           = blockHashMerkleRoot(leaves)
<1> DEFINE H == treeHeight(Len(leaves))
           level == Levels(leaves)
           root == blockHashMerkleRoot(leaves)
           branch == buildMerkleBranch(leaves, pos)
           count == Len(leaves)
           leaf == leaves[pos + 1]
<1>1. /\ H \in Nat /\ level[0] = leaves
      /\ \A h \in Nat : h < H => level[h + 1] = Parents(level[h])
      /\ \A h \in 0 .. H : IsList(level[h])
      /\ \A h \in Nat : h < H => Len(level[h]) >= 2
      /\ Len(level[H]) = 1
  BY TreeLevels
<1>2. root = level[H][1] /\ count \in Nat /\ pos < count /\ treeHeight(count) = H
  BY ListFacts DEF blockHashMerkleRoot
<1>3. \A h \in 0 .. H : ~ Mutated(level[h])
  BY DEF NeverMutated
<1>4. Len(branch) = H
  BY <1>1, BuiltBranch
<1>5. PICK index :
        /\ index[0] = pos
        /\ \A h \in Nat : h < H =>
             /\ index[h + 1] = index[h] \div 2
             /\ branch[h + 1] = Sibling(level[h], index[h])
  <2>1. \E index : BuiltAlong(index, leaves, pos)
    BY <1>1, BuiltBranch
  <2> QED BY <2>1 DEF BuiltAlong
<1>6. leaf = level[0][pos + 1] /\ count = Len(level[0])
  BY <1>1
<1> HIDE DEF H, level, root, branch, count, leaf
<1>7. PICK at : Verification(at, leaf, branch, pos, count)
  BY <1>1, <1>4, VerifiedBy
<1>8. /\ at[0] = [node |-> leaf, index |-> pos, width |-> count, ok |-> TRUE]
      /\ \A h \in Nat : h < H => at[h + 1] = FoldLevel(at[h], branch[h + 1])
  BY <1>1, <1>4, <1>7 DEF Verification
<1> DEFINE On(h) == /\ at[h].ok /\ at[h].width = Len(level[h])
                    /\ at[h].index = index[h] /\ at[h].index \in Nat
                    /\ at[h].index < Len(level[h])
                    /\ at[h].node = level[h][at[h].index + 1]
           S == {h \in Nat : h <= H => On(h)}
<1>9. 0 \in S
  <2>1. On(0)
    BY <1>2, <1>5, <1>6, <1>8
  <2> QED BY <2>1
<1>10. ASSUME NEW h \in Nat, h \in S PROVE h + 1 \in S
  <2> SUFFICES ASSUME h + 1 <= H PROVE On(h + 1)
    OBVIOUS
  <2>1. h < H /\ h <= H /\ h \in 0 .. H
    BY <1>1
  <2>2. On(h)
    BY <1>10, <2>1
  <2> HIDE DEF S
  <2>3. /\ at[h + 1] = FoldLevel(at[h], branch[h + 1]) /\ level[h + 1] = Parents(level[h])
        /\ index[h + 1] = index[h] \div 2 /\ branch[h + 1] = Sibling(level[h], index[h])
    BY <1>1, <1>5, <1>8, <2>1
  <2> DEFINE a == at[h]
             l == level[h]
             sibling == branch[h + 1]
  <2>4. /\ IsList(l) /\ Len(l) >= 2 /\ ~ Mutated(l)
        /\ a.ok /\ a.width = Len(l) /\ a.index \in Nat /\ a.index < Len(l)
        /\ a.node = l[a.index + 1] /\ a.index = index[h]
    BY <1>1, <1>3, <2>1, <2>2
  <2>5. sibling = IF a.index % 2 = 1 THEN l[a.index] ELSE Partner(l, a.index + 2)
    BY <2>2, <2>3 DEF Sibling
  <2> HIDE DEF a, l, sibling
  <2> DEFINE next == FoldLevel(a, sibling)
  <2>6. /\ next.ok /\ next.width = Len(Parents(l))
        /\ next.index = a.index \div 2 /\ next.index \in Nat
        /\ next.index < Len(Parents(l))
        /\ next.node = Parents(l)[next.index + 1]
    <3>1. /\ IsList(l) /\ Len(l) >= 2 /\ ~ Mutated(l)
          /\ a.ok /\ a.width = Len(l) /\ a.index \in Nat /\ a.index < Len(l)
          /\ a.node = l[a.index + 1]
      BY <2>4
    <3> QED BY <3>1, <2>5, StepUp
  <2> HIDE DEF next
  <2>7. at[h + 1] = next /\ level[h + 1] = Parents(l) /\ index[h + 1] = a.index \div 2
    BY <2>3, <2>4 DEF next, a, l, sibling
  <2> QED BY <2>6, <2>7
<1> HIDE DEF S
<1>11. Nat \subseteq S
  BY <1>9, <1>10, InductionBySet
<1>12. On(H)
  <2>1. H \in S /\ H <= H
    BY <1>1, <1>11
  <2> QED BY <2>1 DEF S
<1>13. at[H].ok /\ at[H].index = 0 /\ at[H].node = root
  BY <1>1, <1>2, <1>12
<1> HIDE DEF On
<1>14. verifyMerkleBranch(leaf, branch, pos, count) = root
  BY <1>2, <1>4, <1>7, <1>13 DEF Verification
<1> QED BY <1>14 DEF leaf, branch, count, root

(* ---------------------------- distinct leaves -------------------------- *)

Distinct(s) == \A i, j \in 1 .. Len(s) : s[i] = s[j] => i = j

\* Of distinct nodes the parents are distinct, and no level is mutated.
LEMMA ParentsDistinct ==
  ASSUME NEW level, IsList(level), Distinct(level)
  PROVE  Distinct(Parents(level)) /\ ~ Mutated(level)
<1> DEFINE n == Len(level)
           p == Parents(level)
<1>1. n \in Nat /\ n >= 1
  BY ListFacts
<1>2. /\ Len(p) = Halved(n)
      /\ \A i \in 1 .. Halved(n) : p[i] = <<level[2 * i - 1], Partner(level, 2 * i)>>
  BY ParentsAreList
<1>3. \A i, j \in 1 .. n : level[i] = level[j] => i = j
  BY DEF Distinct
<1>4. ~ Mutated(level)
  <2> SUFFICES ASSUME n % 2 = 0, level[n] = level[n - 1] PROVE FALSE
    BY DEF Mutated
  <2> HIDE DEF n
  <2>1. n \in 1 .. n /\ n - 1 \in 1 .. n
    BY <1>1
  <2>2. n = n - 1
    BY <1>3, <2>1
  <2> QED BY <1>1, <2>2
<1> HIDE DEF n, p
<1>5. Halved(n) \in Nat /\ (2 * Halved(n) = n \/ 2 * Halved(n) = n + 1)
  BY <1>1, HalvedFacts
<1>6. ASSUME NEW i \in 1 .. Halved(n), NEW j \in 1 .. Halved(n), p[i] = p[j] PROVE i = j
  <2>1. level[2 * i - 1] = level[2 * j - 1]
    BY <1>2, <1>6
  <2>2. 2 * i - 1 \in 1 .. n /\ 2 * j - 1 \in 1 .. n
    BY <1>1, <1>5
  <2>3. 2 * i - 1 = 2 * j - 1
    BY <1>3, <2>1, <2>2
  <2> QED BY <2>3
<1> QED BY <1>2, <1>4, <1>6 DEF Distinct, p

\* Distinct leaves have a root, which is that of the block.
LEMMA DistinctHaveRoot ==
  ASSUME NEW leaves, IsList(leaves), Distinct(leaves), \A i \in 1 .. Len(leaves) : leaves[i] # NoHash
  PROVE  /\ NeverMutated(leaves)
         /\ computeMerkleRoot(leaves) = blockHashMerkleRoot(leaves)
         /\ blockHashMerkleRoot(leaves) # NoHash
<1> DEFINE H == treeHeight(Len(leaves))
           level == Levels(leaves)
           root == blockHashMerkleRoot(leaves)
<1>1. /\ H \in Nat /\ DOMAIN level = 0 .. H /\ level[0] = leaves
      /\ \A h \in Nat : h < H => level[h + 1] = Parents(level[h])
      /\ \A h \in 0 .. H : IsList(level[h])
      /\ Len(level[H]) = 1
  BY TreeLevels
<1>2. root = level[H][1]
  BY DEF blockHashMerkleRoot
<1> HIDE DEF H, level, root
<1> DEFINE S == {h \in Nat : h <= H => Distinct(level[h])}
<1>3. 0 \in S
  BY <1>1
<1>4. ASSUME NEW h \in Nat, h \in S PROVE h + 1 \in S
  <2> SUFFICES ASSUME h + 1 <= H PROVE Distinct(level[h + 1])
    OBVIOUS
  <2>1. h < H /\ h <= H /\ h \in 0 .. H
    BY <1>1
  <2> QED BY <1>1, <1>4, <2>1, ParentsDistinct
<1> HIDE DEF S
<1>5. Nat \subseteq S
  BY <1>3, <1>4, InductionBySet
<1>6. \A h \in 0 .. H : ~ Mutated(level[h])
  BY <1>1, <1>5, ParentsDistinct DEF S
<1>7. computeMerkleRoot(leaves) = root
  <2>1. leaves # << >>
    BY DEF IsList
  <2> QED BY <1>1, <1>6, <2>1 DEF computeMerkleRoot, level, root
<1>8. root # NoHash
  <2>1. CASE H = 0
    BY <1>1, <1>2, <2>1
  <2>2. CASE H # 0
    <3>1. H - 1 \in Nat /\ H - 1 < H /\ (H - 1) + 1 = H /\ H - 1 \in 0 .. H
      BY <1>1, <2>2
    <3>2. level[H] = Parents(level[H - 1]) /\ IsList(level[H - 1])
      BY <1>1, <3>1
    <3>3. 1 \in 1 .. Halved(Len(level[H - 1]))
      <4>1. Len(level[H]) = Halved(Len(level[H - 1]))
        BY <3>2, ParentsAreList
      <4> QED BY <1>1, <4>1
    <3>4. \E a, b : level[H][1] = <<a, b>>
      BY <3>2, <3>3, ParentsAreList
    <3> QED BY <1>2, <3>4 DEF NoHash
  <2> QED BY <2>1, <2>2
<1> QED BY <1>6, <1>7, <1>8 DEF NeverMutated, H, level, root

(* ------------------------- a root is of one list ----------------------- *)

\* Lists with the same elements in the same places are one list.
LEMMA ListsEqual ==
  \A a, b : IsList(a) /\ IsList(b) /\ Len(a) = Len(b) /\ (\A i \in 1 .. Len(a) : a[i] = b[i]) => a = b
<1> SUFFICES ASSUME NEW a, NEW b, IsList(a), IsList(b), Len(a) = Len(b),
                    \A i \in 1 .. Len(a) : a[i] = b[i]
             PROVE  a = b
  OBVIOUS
<1>1. PICK T : a \in Seq(T)
  BY DEF IsList
<1>2. PICK U : b \in Seq(U)
  BY DEF IsList
<1>3. a \in Seq(T \cup U) /\ b \in Seq(T \cup U)
  BY <1>1, <1>2
<1> QED BY <1>3, SeqEqual

\* Two levels of the same parents and no duplicated tail are as long,
LEMMA NoLongerSibling ==
  ASSUME NEW a, NEW b, IsList(a), IsList(b), ~ Mutated(a), ~ Mutated(b), Parents(a) = Parents(b)
  PROVE  ~ (Len(a) < Len(b))
<1> DEFINE n == Len(a)
           m == Len(b)
           k == Halved(m)
<1> SUFFICES ASSUME n < m PROVE FALSE
  OBVIOUS
<1>1. n \in Nat /\ n >= 1 /\ DOMAIN a = 1 .. n /\ m \in Nat /\ m >= 1 /\ DOMAIN b = 1 .. m
  BY ListFacts
<1>2. Halved(n) = k
  BY ParentsAreList
<1>3. \A i \in 1 .. k : /\ Parents(a)[i] = <<a[2 * i - 1], Partner(a, 2 * i)>>
                        /\ Parents(b)[i] = <<b[2 * i - 1], Partner(b, 2 * i)>>
  BY <1>2, ParentsAreList
<1>4. m % 2 = 0 => b[m] # b[m - 1]
  BY DEF Mutated
<1>5. \A j : /\ Partner(a, j) = IF j \in 1 .. n THEN a[j] ELSE a[n]
             /\ Partner(b, j) = IF j \in 1 .. m THEN b[j] ELSE b[m]
  BY <1>1 DEF Partner
<1> HIDE DEF n, m
<1>6. /\ k \in Nat /\ (2 * k = m \/ 2 * k = m + 1) /\ (2 * k = n \/ 2 * k = n + 1)
  BY <1>1, <1>2, HalvedFacts
<1> HIDE DEF k
<1>7. m = 2 * k /\ n = 2 * k - 1 /\ m % 2 = 0 /\ k \in 1 .. k
  BY <1>1, <1>6
<1>8. a[2 * k - 1] = b[2 * k - 1] /\ Partner(a, 2 * k) = Partner(b, 2 * k)
  BY <1>3, <1>7
<1>9. Partner(a, 2 * k) = a[n] /\ Partner(b, 2 * k) = b[m]
  <2>1. ~ (2 * k \in 1 .. n) /\ 2 * k \in 1 .. m
    BY <1>1, <1>7
  <2> QED BY <1>5, <1>7, <2>1
<1>10. m - 1 = 2 * k - 1
  BY <1>7
<1> QED BY <1>4, <1>7, <1>8, <1>9, <1>10

\* and the same.
LEMMA ParentsOfOneList ==
  \A a, b : IsList(a) /\ IsList(b) /\ ~ Mutated(a) /\ ~ Mutated(b) /\ Parents(a) = Parents(b) => a = b
<1> SUFFICES ASSUME NEW a, NEW b, IsList(a), IsList(b), ~ Mutated(a), ~ Mutated(b),
                    Parents(a) = Parents(b)
             PROVE  a = b
  OBVIOUS
<1> DEFINE n == Len(a)
<1>1. n \in Nat /\ n >= 1 /\ DOMAIN a = 1 .. n /\ Len(b) \in Nat /\ DOMAIN b = 1 .. Len(b)
  BY ListFacts
<1>2. Len(b) = n
  <2>1. ~ (Len(a) < Len(b))
    BY NoLongerSibling
  <2>2. Parents(b) = Parents(a)
    OBVIOUS
  <2>3. ~ (Len(b) < Len(a))
    BY <2>2, NoLongerSibling
  <2> DEFINE m == Len(b)
  <2>4. n \in Nat /\ m \in Nat /\ ~ (n < m) /\ ~ (m < n)
    BY <1>1, <2>1, <2>3
  <2> HIDE DEF n, m
  <2>5. m = n
    BY <2>4
  <2> QED BY <2>5 DEF m
<1>3. \A i \in 1 .. Halved(n) : /\ Parents(a)[i] = <<a[2 * i - 1], Partner(a, 2 * i)>>
                                /\ Parents(b)[i] = <<b[2 * i - 1], Partner(b, 2 * i)>>
  BY <1>2, ParentsAreList
<1>4. \A j \in 1 .. n : Partner(a, j) = a[j] /\ Partner(b, j) = b[j]
  BY <1>1, <1>2 DEF Partner
<1> HIDE DEF n
<1>5. Halved(n) \in Nat /\ (2 * Halved(n) = n \/ 2 * Halved(n) = n + 1)
  BY <1>1, HalvedFacts
<1>6. ASSUME NEW i \in 1 .. n PROVE a[i] = b[i]
  <2>1. \A k \in 1 .. Halved(n) : a[2 * k - 1] = b[2 * k - 1] /\ Partner(a, 2 * k) = Partner(b, 2 * k)
    BY <1>3
  <2>2. CASE i % 2 = 1
    <3>1. PICK k \in 1 .. Halved(n) : i = 2 * k - 1
      <4> DEFINE k == (i + 1) \div 2
      <4>1. k \in Int /\ 2 * k = i + 1
        BY <2>2
      <4> HIDE DEF k
      <4>2. k \in 1 .. Halved(n) /\ i = 2 * k - 1
        BY <1>1, <1>5, <4>1
      <4> QED BY <4>2
    <3> QED BY <2>1, <3>1
  <2>3. CASE i % 2 = 0
    <3>1. PICK k \in 1 .. Halved(n) : i = 2 * k
      <4> DEFINE k == i \div 2
      <4>1. k \in Int /\ 2 * k = i
        BY <2>3
      <4> HIDE DEF k
      <4>2. k \in 1 .. Halved(n) /\ i = 2 * k
        BY <1>1, <1>5, <4>1
      <4> QED BY <4>2
    <3> QED BY <1>4, <2>1, <3>1
  <2> QED BY <2>2, <2>3
<1> QED BY <1>2, <1>6, ListsEqual DEF n

Ids(s) == \A i \in 1 .. Len(s) : \E x : s[i] = <<x>>

\* Down from one root, the lower tree is met at its leaves: ids, and no hashes.
LEMMA RootOfTaller ==
  ASSUME NEW s, NEW t, IsList(s), IsList(t), NeverMutated(s), NeverMutated(t), Ids(s),
         blockHashMerkleRoot(s) = blockHashMerkleRoot(t),
         treeHeight(Len(s)) <= treeHeight(Len(t))
  PROVE  s = t
<1> DEFINE H == treeHeight(Len(s))
           K == treeHeight(Len(t))
           a == Levels(s)
           b == Levels(t)
<1>1. /\ H \in Nat /\ a[0] = s
      /\ \A h \in Nat : h < H => a[h + 1] = Parents(a[h])
      /\ \A h \in 0 .. H : IsList(a[h])
      /\ Len(a[H]) = 1
  BY TreeLevels
<1>2. /\ K \in Nat /\ b[0] = t
      /\ \A h \in Nat : h < K => b[h + 1] = Parents(b[h])
      /\ \A h \in 0 .. K : IsList(b[h])
      /\ Len(b[K]) = 1
  BY TreeLevels
<1>3. a[H][1] = b[K][1] /\ H <= K
  BY DEF blockHashMerkleRoot
<1>4. (\A h \in 0 .. H : ~ Mutated(a[h])) /\ (\A h \in 0 .. K : ~ Mutated(b[h]))
  BY DEF NeverMutated
<1> HIDE DEF H, K, a, b
<1> DEFINE S == {j \in Nat : j <= H => a[H - j] = b[K - j]}
<1>5. 0 \in S
  <2>1. IsList(a[H]) /\ IsList(b[K])
    BY <1>1, <1>2
  <2>2. \A i \in 1 .. Len(a[H]) : a[H][i] = b[K][i]
    BY <1>1, <1>3
  <2>3. a[H] = b[K]
    BY <1>1, <1>2, <2>1, <2>2, ListsEqual
  <2>4. H - 0 = H /\ K - 0 = K
    BY <1>1, <1>2
  <2> QED BY <2>3, <2>4
<1>6. ASSUME NEW j \in Nat, j \in S PROVE j + 1 \in S
  <2> SUFFICES ASSUME j + 1 <= H PROVE a[H - (j + 1)] = b[K - (j + 1)]
    OBVIOUS
  <2> DEFINE h == H - (j + 1)
             k == K - (j + 1)
  <2>1. /\ h \in Nat /\ h < H /\ h + 1 = H - j /\ h \in 0 .. H
        /\ k \in Nat /\ k < K /\ k + 1 = K - j /\ k \in 0 .. K
    BY <1>1, <1>2, <1>3
  <2>2. a[h + 1] = b[k + 1]
    <3>1. j <= H
      BY <1>1
    <3> QED BY <1>6, <2>1, <3>1
  <2> HIDE DEF h, k, S
  <2>3. Parents(a[h]) = Parents(b[k])
    BY <1>1, <1>2, <2>1, <2>2
  <2>4. IsList(a[h]) /\ IsList(b[k]) /\ ~ Mutated(a[h]) /\ ~ Mutated(b[k])
    BY <1>1, <1>2, <1>4, <2>1
  <2>5. a[h] = b[k]
    BY <2>3, <2>4, ParentsOfOneList
  <2> QED BY <2>5 DEF h, k
<1> HIDE DEF S
<1>7. Nat \subseteq S
  BY <1>5, <1>6, InductionBySet
<1>8. s = b[K - H]
  <2>1. H \in S /\ H <= H /\ H - H = 0
    BY <1>1, <1>7
  <2>2. a[H - H] = b[K - H]
    BY <2>1 DEF S
  <2> QED BY <1>1, <2>1, <2>2
<1>9. H = K
  <2> SUFFICES ASSUME H < K PROVE FALSE
    BY <1>1, <1>2, <1>3
  <2> DEFINE d == K - H - 1
  <2>1. d \in Nat /\ d < K /\ d + 1 = K - H /\ d \in 0 .. K
    BY <1>1, <1>2
  <2>2. b[K - H] = Parents(b[d]) /\ IsList(b[d])
    BY <1>2, <2>1
  <2> HIDE DEF d
  <2>3. s = Parents(b[d])
    BY <1>8, <2>2
  <2>4. Len(s) = Halved(Len(b[d])) /\ Len(s) \in Nat /\ Len(s) >= 1
    BY <2>2, <2>3, ListFacts, ParentsAreList
  <2>5. 1 \in 1 .. Len(s) /\ 1 \in 1 .. Halved(Len(b[d]))
    BY <2>4
  <2>6. PICK x : s[1] = <<x>>
    BY <2>5 DEF Ids
  <2>7. \E y, z : s[1] = <<y, z>>
    BY <2>2, <2>3, <2>5, ParentsAreList
  <2> QED BY <2>6, <2>7
<1> QED BY <1>1, <1>2, <1>8, <1>9

\* Two lists of ids that both have a root do not share it.
LEMMA RootIsOfOne ==
  ASSUME NEW s, NEW t, IsList(s), IsList(t), Ids(s), Ids(t),
         computeMerkleRoot(s) # NoHash, computeMerkleRoot(t) # NoHash,
         computeMerkleRoot(s) = computeMerkleRoot(t)
  PROVE  s = t
<1>1. ASSUME NEW l, IsList(l), computeMerkleRoot(l) # NoHash
      PROVE  /\ NeverMutated(l) /\ computeMerkleRoot(l) = blockHashMerkleRoot(l)
             /\ treeHeight(Len(l)) \in Nat
  <2>1. DOMAIN Levels(l) = 0 .. treeHeight(Len(l)) /\ treeHeight(Len(l)) \in Nat
    BY <1>1, TreeLevels
  <2>2. /\ \A h \in DOMAIN Levels(l) : ~ Mutated(Levels(l)[h])
        /\ computeMerkleRoot(l) = blockHashMerkleRoot(l)
    BY <1>1 DEF computeMerkleRoot
  <2> QED BY <2>1, <2>2 DEF NeverMutated
<1>2. /\ NeverMutated(s) /\ NeverMutated(t) /\ blockHashMerkleRoot(s) = blockHashMerkleRoot(t)
      /\ treeHeight(Len(s)) \in Nat /\ treeHeight(Len(t)) \in Nat
  BY <1>1
<1>3. treeHeight(Len(s)) <= treeHeight(Len(t)) \/ treeHeight(Len(t)) <= treeHeight(Len(s))
  BY <1>2
<1> QED BY <1>2, <1>3, RootOfTaller

(* ------------------------------- the block ----------------------------- *)

BlockTypeOK == blockTxs \in Nat

NonEmptyBlock == blockTxs \in Nat /\ blockTxs >= 1

\* AddTx counts the transactions of a block up from none.
THEOREM BlockIsCounted == BlockSpec => []BlockTypeOK
<1>1. BlockInit => BlockTypeOK
  BY DEF BlockInit, BlockTypeOK
<1>2. BlockTypeOK /\ [AddTx]_blockTxs => BlockTypeOK'
  BY DEF BlockTypeOK, AddTx
<1> QED BY <1>1, <1>2, PTL DEF BlockSpec

\* A list of as many ids as the block has transactions, no two of them equal.
LEMMA ListOfIds ==
  ASSUME NonEmptyBlock, NEW f, \A i \in 1 .. blockTxs : f[i] \in Int,
         \A i, j \in 1 .. blockTxs : f[i] = f[j] => i = j
  PROVE  LET s == [i \in 1 .. blockTxs |-> <<f[i]>>]
         IN  IsList(s) /\ Len(s) = blockTxs /\ Distinct(s) /\ \A i \in 1 .. Len(s) : s[i] # NoHash
<1> DEFINE s == [i \in 1 .. blockTxs |-> <<f[i]>>]
           n == blockTxs
           T == {s[i] : i \in 1 .. n}
<1>1. n \in Nat /\ n >= 1
  BY DEF NonEmptyBlock
<1>2. s \in [1 .. n -> T]
  OBVIOUS
<1>3. \A i \in 1 .. n : s[i] = <<f[i]>>
  OBVIOUS
<1> HIDE DEF s, n, T
<1>4. s \in Seq(T) /\ Len(s) = n
  BY <1>1, <1>2
<1>5. s # << >>
  BY <1>1, <1>4
<1>6. IsList(s)
  BY <1>4, <1>5 DEF IsList
<1>7. Distinct(s)
  <2> SUFFICES ASSUME NEW i \in 1 .. n, NEW j \in 1 .. n, s[i] = s[j] PROVE i = j
    BY <1>4 DEF Distinct
  <2>1. f[i] = f[j]
    BY <1>3
  <2> QED BY <2>1 DEF n
<1>8. \A i \in 1 .. n : s[i] # NoHash
  BY <1>3 DEF NoHash
<1> QED BY <1>4, <1>6, <1>7, <1>8 DEF s, n

\* Txids are such a list;
LEMMA TxidsAreList ==
  ASSUME NonEmptyBlock
  PROVE  /\ IsList(Txids) /\ Len(Txids) = blockTxs /\ Distinct(Txids)
         /\ \A i \in 1 .. Len(Txids) : Txids[i] # NoHash
         /\ \A i \in 1 .. blockTxs : Txids[i] = TxId(i)
<1> DEFINE f == [i \in 1 .. blockTxs |-> 2 * i]
<1>1. /\ \A i \in 1 .. blockTxs : f[i] \in Int
      /\ \A i, j \in 1 .. blockTxs : f[i] = f[j] => i = j
  OBVIOUS
<1>2. Txids = [i \in 1 .. blockTxs |-> <<f[i]>>]
  BY DEF Txids, TxId
<1>3. \A i \in 1 .. blockTxs : Txids[i] = TxId(i)
  BY DEF Txids
<1> HIDE DEF f
<1> QED BY <1>1, <1>2, <1>3, ListOfIds

\* The branches that can be shown have the depth of the tree.
LEMMA BranchesHaveDepth ==
  ASSUME NEW trees, NEW depth \in Nat
  PROVE  \A branch \in Branches(trees, depth) : Len(branch) = depth
<1> DEFINE nodes == [h \in 1 .. depth |->
                       {Forged} \cup UNION {ToSet(Levels(t)[h - 1]) :
                                             t \in {t \in trees : treeHeight(Len(t)) >= h}}]
           T == UNION {nodes[h] : h \in 1 .. depth}
<1>1. \A branch \in Branches(trees, depth) : branch \in [1 .. depth -> T]
  BY DEF Branches
<1> HIDE DEF T
<1> QED BY <1>1

\* What a claim under a count of the tree's depth, or under none, can show.
LEMMA TreeIsPinned ==
  ASSUME NEW leaves, IsList(leaves), NeverMutated(leaves), computeMerkleRoot(leaves) # NoHash,
         computeMerkleRoot(leaves) = blockHashMerkleRoot(leaves),
         NEW pos \in Nat, NEW leaf, NEW branch, NEW count \in Nat,
         verifyMerkleBranch(leaf, branch, pos, count) = computeMerkleRoot(leaves)
  PROVE  /\ count > 0 /\ treeHeight(count) = treeHeight(Len(leaves))
              => pos < Len(leaves) /\ leaf = leaves[pos + 1]
         /\ count = 0 /\ Len(branch) = treeHeight(Len(leaves))
              => \E i \in 1 .. Len(leaves) : leaf = leaves[i]
<1>1. blockHashMerkleRoot(leaves) # NoHash
  OBVIOUS
<1>2. ASSUME count > 0, treeHeight(count) = treeHeight(Len(leaves))
      PROVE  pos < Len(leaves) /\ leaf = leaves[pos + 1]
  BY <1>1, <1>2, AcceptedLeaf
<1>3. ASSUME count = 0, Len(branch) = treeHeight(Len(leaves))
      PROVE  \E i \in 1 .. Len(leaves) : leaf = leaves[i]
  BY <1>1, <1>3, LeafAmong
<1> QED BY <1>2, <1>3

\* The places and counts that are claimed are numbers of the block's depth.
LEMMA PlacesAndCounts ==
  ASSUME NonEmptyBlock
  PROVE  /\ treeHeight(blockTxs) \in Nat
         /\ \A pos \in Places : pos \in Nat
         /\ \A count \in Counts : count \in Nat /\ count > 0 /\ treeHeight(count) = treeHeight(blockTxs)
BY TreeHeight DEF NonEmptyBlock, Places, Counts

\* A merkle root is of one list of the block's ids,
LEMMA OneListOfBlock ==
  ASSUME NonEmptyBlock
  PROVE  RootIsOfOneList
<1> DEFINE Lists == {s \in SeqOf({TxId(1), TxId(2)}, blockTxs) : computeMerkleRoot(s) # NoHash}
<1>1. ASSUME NEW s \in Lists PROVE IsList(s) /\ Ids(s) /\ computeMerkleRoot(s) # NoHash
  <2> DEFINE T == {TxId(1), TxId(2)}
  <2>1. s # << >> /\ computeMerkleRoot(s) # NoHash
    BY DEF computeMerkleRoot
  <2>2. PICK m \in 0 .. blockTxs : s \in [1 .. m -> T]
    BY DEF SeqOf
  <2>3. \A x \in T : \E n : x = <<n>>
    BY DEF TxId
  <2> HIDE DEF T
  <2>4. s \in Seq(T) /\ Len(s) = m
    BY <2>2
  <2> QED BY <2>1, <2>2, <2>3, <2>4 DEF IsList, Ids
<1> HIDE DEF Lists
<1>2. \A s, t \in Lists : computeMerkleRoot(s) = computeMerkleRoot(t) => s = t
  BY <1>1, RootIsOfOne
<1>3. IsInjective([s \in Lists |-> computeMerkleRoot(s)])
  BY <1>2 DEF IsInjective
<1> QED BY <1>3 DEF RootIsOfOneList, Lists

\* so a branch pins the place, once there is a block,
LEMMA BlockPinsPosition ==
  ASSUME NonEmptyBlock
  PROVE  BranchPinsPosition
<1> DEFINE root == computeMerkleRoot(Txids)
<1>1. /\ IsList(Txids) /\ Len(Txids) = blockTxs /\ Distinct(Txids)
      /\ \A i \in 1 .. blockTxs : Txids[i] = TxId(i)
  BY TxidsAreList
<1>2. /\ NeverMutated(Txids) /\ root = blockHashMerkleRoot(Txids) /\ root # NoHash
  BY <1>1, TxidsAreList, DistinctHaveRoot
<1>3. blockTxs \in Nat
  BY DEF NonEmptyBlock
<1> HIDE DEF root
<1>4. ASSUME NEW i \in 1 .. blockTxs
      PROVE  verifyMerkleBranch(TxId(i), buildMerkleBranch(Txids, i - 1), i - 1, blockTxs) = root
  <2>1. i - 1 \in Nat /\ i - 1 < Len(Txids) /\ (i - 1) + 1 = i
    BY <1>1, <1>3
  <2>2. verifyMerkleBranch(Txids[(i - 1) + 1], buildMerkleBranch(Txids, i - 1), i - 1, Len(Txids))
          = blockHashMerkleRoot(Txids)
    BY <1>1, <1>2, <2>1, BuiltIsAccepted
  <2> QED BY <1>1, <1>2, <2>1, <2>2
<1>5. ASSUME NEW branch \in Branches({Txids}, treeHeight(blockTxs)), NEW pos \in Places, NEW leaf
      PROVE  /\ \A count \in Counts :
                  verifyMerkleBranch(leaf, branch, pos, count) = root
                    => pos < blockTxs /\ leaf = TxId(pos + 1)
             /\ verifyMerkleBranch(leaf, branch, pos, 0) = root => leaf \in ToSet(Txids)
  <2>1. pos \in Nat /\ treeHeight(blockTxs) \in Nat
    BY PlacesAndCounts
  <2>2. ASSUME NEW count \in Counts, verifyMerkleBranch(leaf, branch, pos, count) = root
        PROVE  pos < blockTxs /\ leaf = TxId(pos + 1)
    <3>1. count \in Nat /\ count > 0 /\ treeHeight(count) = treeHeight(Len(Txids))
      BY <1>1, PlacesAndCounts
    <3>2. pos < Len(Txids) /\ leaf = Txids[pos + 1]
      BY <1>1, <1>2, <2>1, <2>2, <3>1, TreeIsPinned DEF root
    <3> QED BY <1>1, <1>3, <2>1, <3>2
  <2>3. ASSUME verifyMerkleBranch(leaf, branch, pos, 0) = root
        PROVE  leaf \in ToSet(Txids)
    <3>1. Len(branch) = treeHeight(Len(Txids))
      BY <1>1, <2>1, BranchesHaveDepth
    <3>2. \E i \in 1 .. Len(Txids) : leaf = Txids[i]
      BY <1>1, <1>2, <2>1, <2>3, <3>1, TreeIsPinned DEF root
    <3> QED BY <1>1, <3>2, ListFacts DEF ToSet
  <2> QED BY <2>2, <2>3
<1>6. RootIsOfOneList
  BY OneListOfBlock
<1> QED BY <1>2, <1>4, <1>5, <1>6 DEF BranchPinsPosition, root

\* A root is of one list of transactions (CVE-2012-2459), and verifyMerkleBranch
\* accepts under it, for a count of the tree's depth, nothing but the transaction at
\* the claimed place, and every branch buildMerkleBranch makes: for blocks of any
\* size, not only those a run can hold.
THEOREM BlockAlwaysPinsPosition == BlockSpec => []BranchPinsPosition
<1>1. BlockTypeOK => BranchPinsPosition
  <2>1. CASE blockTxs = 0
    BY <2>1 DEF BranchPinsPosition
  <2>2. CASE blockTxs # 0
    BY <2>2, BlockPinsPosition DEF BlockTypeOK, NonEmptyBlock
  <2> QED BY <2>1, <2>2
<1> QED BY <1>1, BlockIsCounted, PTL

(* -------------------------- the witness commitment --------------------- *)

Zeroed == [Wtxids EXCEPT ![1] = ZERO32]

\* the wtxids are one, the coinbase in them zero.
LEMMA ZeroedIsList ==
  ASSUME NonEmptyBlock
  PROVE  /\ IsList(Zeroed) /\ Len(Zeroed) = blockTxs /\ Distinct(Zeroed)
         /\ \A i \in 1 .. Len(Zeroed) : Zeroed[i] # NoHash
         /\ Zeroed[1] = ZERO32 /\ \A i \in 2 .. blockTxs : Zeroed[i] = WtxId(i)
<1> DEFINE f == [i \in 1 .. blockTxs |-> IF i = 1 THEN 0 ELSE 2 * i + 1]
           s == [i \in 1 .. blockTxs |-> <<f[i]>>]
<1>1. blockTxs \in Nat /\ blockTxs >= 1
  BY DEF NonEmptyBlock
<1>2. /\ \A i \in 1 .. blockTxs : f[i] \in Int
      /\ \A i, j \in 1 .. blockTxs : f[i] = f[j] => i = j
  OBVIOUS
<1>3. \A i \in 1 .. blockTxs : s[i] = IF i = 1 THEN ZERO32 ELSE WtxId(i)
  BY DEF ZERO32, WtxId
<1>4. Zeroed = s
  <2>1. DOMAIN Zeroed = 1 .. blockTxs /\ DOMAIN s = 1 .. blockTxs
    BY DEF Zeroed, Wtxids
  <2>2. \A i \in 1 .. blockTxs : Zeroed[i] = IF i = 1 THEN ZERO32 ELSE WtxId(i)
    BY DEF Zeroed, Wtxids
  <2>3. Zeroed = [i \in 1 .. blockTxs |-> Zeroed[i]]
    BY DEF Zeroed, Wtxids
  <2> HIDE DEF f
  <2> QED BY <1>3, <2>2, <2>3
<1>5. IsList(s) /\ Len(s) = blockTxs /\ Distinct(s) /\ \A i \in 1 .. Len(s) : s[i] # NoHash
  <2> HIDE DEF f
  <2> QED BY <1>2, ListOfIds
<1> HIDE DEF f, s
<1> QED BY <1>1, <1>3, <1>4, <1>5

\* The last commitment of a block's coinbase is that of its wtxids.
LEMMA LastIsCommitment ==
  ASSUME NEW commitments \in Commitments, commitments # << >>
  PROVE  Last(commitments) = hashPair(computeMerkleRoot(Zeroed), Reserved)
<1> DEFINE C(trees) == [i \in DOMAIN trees |->
                          computeWitnessCommitment(computeWitnessRootFromWtxids(trees[i]), Reserved)]
<1>1. commitments = C(<<Wtxids>>) \/ commitments = C(<<ForgedWtxids, Wtxids>>)
  BY DEF Commitments
<1>2. computeWitnessCommitment(computeWitnessRootFromWtxids(Wtxids), Reserved)
        = hashPair(computeMerkleRoot(Zeroed), Reserved)
  BY DEF computeWitnessCommitment, computeWitnessRootFromWtxids, Zeroed
<1>3. CASE commitments = C(<<Wtxids>>)
  <2>1. Len(commitments) = 1
    BY <1>3
  <2>2. commitments[1] = computeWitnessCommitment(computeWitnessRootFromWtxids(Wtxids), Reserved)
    BY <1>3
  <2> QED BY <1>2, <2>1, <2>2 DEF Last
<1>4. CASE commitments = C(<<ForgedWtxids, Wtxids>>)
  <2>1. Len(commitments) = 2
    BY <1>4
  <2>2. commitments[2] = computeWitnessCommitment(computeWitnessRootFromWtxids(Wtxids), Reserved)
    BY <1>4
  <2> QED BY <1>2, <2>1, <2>2 DEF Last
<1> QED BY <1>1, <1>3, <1>4

\* A coinbase that is accepted is the block's.
LEMMA CoinbaseIsBlocks ==
  ASSUME NonEmptyBlock, NEW commitments, NEW coinbase \in Shown(commitments),
         coinbase.coinbase, coinbase.txid = TxId(1)
  PROVE  coinbase.commitments = commitments
<1> DEFINE Genuine == [txid : {TxId(1)}, coinbase : {TRUE}, commitments : {commitments},
                      reserved : {<<>>, <<Reserved>>, <<OtherReserved>>}]
           Another(t) ==
             [txid |-> IF t = 1 THEN Forged ELSE TxId(t), coinbase |-> t = 1, reserved |-> <<Reserved>>,
              commitments |-> <<computeWitnessCommitment(computeWitnessRootFromWtxids(ForgedWtxids),
                                                         Reserved)>>]
<1>1. TxId(1) # Forged
  BY DEF TxId, Forged
<1>2. coinbase \in Genuine \cup {Another(t) : t \in {1, blockTxs}}
  BY DEF Shown
<1>3. \A t : Another(t).txid = (IF t = 1 THEN Forged ELSE TxId(t)) /\ Another(t).coinbase = (t = 1)
  OBVIOUS
<1>4. \A c \in Genuine : c.commitments = commitments
  OBVIOUS
<1> HIDE DEF Genuine, Another
<1>5. coinbase \in Genuine
  <2> SUFFICES ASSUME NEW t, coinbase = Another(t) PROVE FALSE
    BY <1>2
  <2>1. t = 1
    BY <1>3
  <2> QED BY <1>1, <1>3, <2>1
<1> QED BY <1>4, <1>5

\* What is accepted is the witness of the transaction at the claimed place.
LEMMA AnchoredWitness ==
  ASSUME NonEmptyBlock, NEW commitments \in Commitments, NEW section,
         section.coinbase \in Shown(commitments),
         NEW count \in Counts, NEW wtxid, NEW pos \in Places,
         verifyWitnessAnchoring(section, computeMerkleRoot(Txids), count, wtxid, pos)
  PROVE  pos \in 1 .. blockTxs - 1 /\ wtxid = WtxId(pos + 1)
<1> DEFINE coinbase == section.coinbase
           witnessRoot == verifyMerkleBranch(wtxid, section.wtxidBranch, pos, count)
<1>1. /\ coinbase.coinbase
      /\ verifyMerkleBranch(coinbase.txid, section.coinbaseTxidBranch, 0, count)
           = computeMerkleRoot(Txids)
      /\ findWitnessCommitment(coinbase) # NoHash
      /\ pos # 0
      /\ findWitnessCommitment(coinbase)
           = computeWitnessCommitment(witnessRoot, coinbase.reserved[1])
  BY DEF verifyWitnessAnchoring
<1>2. /\ pos \in Nat /\ count \in Nat /\ count > 0 /\ treeHeight(count) = treeHeight(blockTxs)
      /\ blockTxs \in Nat /\ blockTxs >= 1
  BY PlacesAndCounts DEF NonEmptyBlock
<1>3. coinbase.txid = TxId(1)
  <2>1. /\ IsList(Txids) /\ Len(Txids) = blockTxs /\ Distinct(Txids)
        /\ \A i \in 1 .. Len(Txids) : Txids[i] # NoHash
        /\ Txids[1] = TxId(1)
    BY <1>2, TxidsAreList
  <2>2. /\ NeverMutated(Txids) /\ computeMerkleRoot(Txids) = blockHashMerkleRoot(Txids)
        /\ computeMerkleRoot(Txids) # NoHash
    BY <2>1, DistinctHaveRoot
  <2> DEFINE leaf == coinbase.txid
             branch == section.coinbaseTxidBranch
  <2>3. verifyMerkleBranch(leaf, branch, 0, count) = computeMerkleRoot(Txids)
    BY <1>1
  <2> HIDE DEF leaf, branch
  <2>4. treeHeight(count) = treeHeight(Len(Txids)) /\ 0 \in Nat
    BY <1>2, <2>1
  <2>5. leaf = Txids[0 + 1]
    BY <1>2, <2>1, <2>2, <2>3, <2>4, TreeIsPinned
  <2> QED BY <2>1, <2>5 DEF leaf
<1>4. coinbase.commitments = commitments
  BY <1>1, <1>3, CoinbaseIsBlocks
<1>5. findWitnessCommitment(coinbase) = hashPair(computeMerkleRoot(Zeroed), Reserved)
  BY <1>1, <1>4, LastIsCommitment DEF findWitnessCommitment
<1>6. witnessRoot = computeMerkleRoot(Zeroed)
  BY <1>1, <1>5 DEF computeWitnessCommitment, hashPair
<1>7. pos < blockTxs /\ wtxid = Zeroed[pos + 1]
  <2>1. /\ IsList(Zeroed) /\ Len(Zeroed) = blockTxs /\ Distinct(Zeroed)
        /\ \A i \in 1 .. Len(Zeroed) : Zeroed[i] # NoHash
    BY ZeroedIsList
  <2>2. /\ NeverMutated(Zeroed) /\ computeMerkleRoot(Zeroed) = blockHashMerkleRoot(Zeroed)
        /\ computeMerkleRoot(Zeroed) # NoHash
    BY <2>1, DistinctHaveRoot
  <2> DEFINE branch == section.wtxidBranch
  <2>3. verifyMerkleBranch(wtxid, branch, pos, count) = computeMerkleRoot(Zeroed)
    BY <1>6
  <2> HIDE DEF branch
  <2>4. treeHeight(count) = treeHeight(Len(Zeroed))
    BY <1>2, <2>1
  <2>5. pos < Len(Zeroed) /\ wtxid = Zeroed[pos + 1]
    BY <1>2, <2>1, <2>2, <2>3, <2>4, TreeIsPinned
  <2> QED BY <2>1, <2>5
<1>8. pos + 1 \in 2 .. blockTxs /\ pos \in 1 .. blockTxs - 1
  BY <1>1, <1>2, <1>7
<1> QED BY <1>7, <1>8, ZeroedIsList

\* The section that a full block yields is accepted.
LEMMA HonestSection ==
  ASSUME NonEmptyBlock, NEW commitments \in Commitments, commitments # << >>,
         NEW i \in 2 .. blockTxs, NEW section,
         section = [coinbase |-> [txid |-> TxId(1), coinbase |-> TRUE, commitments |-> commitments,
                                  reserved |-> <<Reserved>>],
                    wtxidBranch |-> buildMerkleBranch(Zeroed, i - 1),
                    coinbaseTxidBranch |-> buildMerkleBranch(Txids, 0)]
  PROVE  verifyWitnessAnchoring(section, computeMerkleRoot(Txids), blockTxs, WtxId(i), i - 1)
<1>1. blockTxs \in Nat /\ blockTxs >= 1 /\ i - 1 \in Nat /\ i - 1 # 0 /\ (i - 1) + 1 = i /\ i - 1 < blockTxs
  BY DEF NonEmptyBlock
<1>2. verifyMerkleBranch(TxId(1), buildMerkleBranch(Txids, 0), 0, blockTxs) = computeMerkleRoot(Txids)
  <2>1. /\ IsList(Txids) /\ Len(Txids) = blockTxs /\ Distinct(Txids)
        /\ \A j \in 1 .. Len(Txids) : Txids[j] # NoHash
        /\ Txids[0 + 1] = TxId(1)
    BY <1>1, TxidsAreList
  <2>2. NeverMutated(Txids) /\ computeMerkleRoot(Txids) = blockHashMerkleRoot(Txids)
    BY <2>1, DistinctHaveRoot
  <2>3. 0 \in Nat /\ 0 < Len(Txids)
    BY <1>1, <2>1
  <2>4. verifyMerkleBranch(Txids[0 + 1], buildMerkleBranch(Txids, 0), 0, Len(Txids))
          = blockHashMerkleRoot(Txids)
    BY <2>1, <2>2, <2>3, BuiltIsAccepted
  <2> QED BY <2>1, <2>2, <2>4
<1>3. /\ IsList(Zeroed) /\ Len(Zeroed) = blockTxs /\ Distinct(Zeroed)
      /\ \A j \in 1 .. Len(Zeroed) : Zeroed[j] # NoHash
      /\ Zeroed[1] = ZERO32 /\ Zeroed[(i - 1) + 1] = WtxId(i)
  BY <1>1, ZeroedIsList
<1>4. /\ NeverMutated(Zeroed) /\ computeMerkleRoot(Zeroed) = blockHashMerkleRoot(Zeroed)
      /\ computeMerkleRoot(Zeroed) # NoHash
  BY <1>3, DistinctHaveRoot
<1>5. verifyMerkleBranch(WtxId(i), buildMerkleBranch(Zeroed, i - 1), i - 1, blockTxs)
        = computeMerkleRoot(Zeroed)
  <2>1. verifyMerkleBranch(Zeroed[(i - 1) + 1], buildMerkleBranch(Zeroed, i - 1), i - 1, Len(Zeroed))
          = blockHashMerkleRoot(Zeroed)
    BY <1>1, <1>3, <1>4, BuiltIsAccepted
  <2> QED BY <1>3, <1>4, <2>1
<1>6. i - 1 = 1 => buildMerkleBranch(Zeroed, i - 1)[1] = ZERO32
  <2> SUFFICES ASSUME i - 1 = 1 PROVE buildMerkleBranch(Zeroed, 1)[1] = ZERO32
    OBVIOUS
  <2> DEFINE H == treeHeight(Len(Zeroed))
  <2>1. H \in Nat /\ Levels(Zeroed)[0] = Zeroed
    BY <1>3, TreeLevels
  <2>2. H > 0
    <3>1. 2 <= blockTxs
      BY <1>1
    <3>2. Halved(blockTxs) \in Nat
      BY <1>1, HalvedFacts
    <3>3. treeHeight(blockTxs) = treeHeight(Halved(blockTxs)) + 1 /\ treeHeight(Halved(blockTxs)) \in Nat
      BY <1>1, <3>1, <3>2, TreeHeight
    <3> QED BY <1>3, <3>3
  <2>3. PICK index : BuiltAlong(index, Zeroed, 1)
    BY <2>1, BuiltBranch
  <2> HIDE DEF H
  <2>4. 0 \in Nat /\ 0 < H
    BY <2>1, <2>2
  <2>5. buildMerkleBranch(Zeroed, 1)[0 + 1] = Sibling(Levels(Zeroed)[0], 1)
    BY <2>3, <2>4 DEF BuiltAlong, H
  <2>6. 1 % 2 = 1 /\ 0 + 1 = 1
    OBVIOUS
  <2> QED BY <1>3, <2>1, <2>5, <2>6 DEF Sibling
<1>7. Last(commitments) = hashPair(computeMerkleRoot(Zeroed), Reserved)
  BY LastIsCommitment
<1> DEFINE coinbase == section.coinbase
<1>8. /\ coinbase.coinbase /\ coinbase.txid = TxId(1) /\ Len(coinbase.reserved) = 1
      /\ coinbase.reserved[1] = Reserved
      /\ section.wtxidBranch = buildMerkleBranch(Zeroed, i - 1)
      /\ section.coinbaseTxidBranch = buildMerkleBranch(Txids, 0)
      /\ coinbase.commitments = commitments
  OBVIOUS
<1>9. findWitnessCommitment(coinbase) = hashPair(computeMerkleRoot(Zeroed), Reserved)
  BY <1>7, <1>8 DEF findWitnessCommitment
<1>10. hashPair(computeMerkleRoot(Zeroed), Reserved) # NoHash
  BY DEF hashPair, NoHash
<1> HIDE DEF coinbase
<1> QED BY <1>1, <1>2, <1>4, <1>5, <1>6, <1>8, <1>9, <1>10
     DEF verifyWitnessAnchoring, computeWitnessCommitment, coinbase

\* and, once there is a coinbase, the commitment pins the witness.
LEMMA BlockPinsWitness ==
  ASSUME NonEmptyBlock
  PROVE  CommitmentPinsWitness
<1> DEFINE Section(coinbase, branch) ==
             [coinbase |-> coinbase, wtxidBranch |-> branch,
              coinbaseTxidBranch |-> buildMerkleBranch(Txids, 0)]
           Claims == Places \X (ToSet(Wtxids) \cup {Forged}) \X Counts
<1>1. ASSUME NEW commitments \in Commitments, NEW coinbase \in Shown(commitments), NEW branch,
             NEW claim \in Claims,
             verifyWitnessAnchoring(Section(coinbase, branch), computeMerkleRoot(Txids),
                                    claim[3], claim[2], claim[1])
      PROVE  claim[1] \in 1 .. blockTxs - 1 /\ claim[2] = WtxId(claim[1] + 1)
  <2> DEFINE section == Section(coinbase, branch)
             count == claim[3]
             wtxid == claim[2]
             pos == claim[1]
  <2>1. section.coinbase = coinbase /\ pos \in Places /\ count \in Counts
    OBVIOUS
  <2>2. verifyWitnessAnchoring(section, computeMerkleRoot(Txids), count, wtxid, pos)
    BY <1>1
  <2> HIDE DEF section, count, wtxid, pos
  <2>3. pos \in 1 .. blockTxs - 1 /\ wtxid = WtxId(pos + 1)
    BY <2>1, <2>2, AnchoredWitness
  <2> QED BY <2>3 DEF pos, wtxid
<1>2. ASSUME NEW commitments \in Commitments, commitments # << >>, NEW i \in 2 .. blockTxs
      PROVE  verifyWitnessAnchoring(
               Section([txid |-> TxId(1), coinbase |-> TRUE, commitments |-> commitments,
                        reserved |-> <<Reserved>>], buildMerkleBranch(Zeroed, i - 1)),
               computeMerkleRoot(Txids), blockTxs, WtxId(i), i - 1)
  BY <1>2, HonestSection
<1> HIDE DEF Claims
<1> QED BY <1>1, <1>2 DEF CommitmentPinsWitness, Zeroed, Claims

\* verifyWitnessAnchoring accepts nothing but the witness the block has at the claimed
\* place, whatever coinbase witness, branch and count come with it, and accepts what
\* a full block yields: for blocks of any size.
THEOREM BlockAlwaysPinsWitness == BlockSpec => []CommitmentPinsWitness
<1>1. BlockTypeOK => CommitmentPinsWitness
  <2>1. CASE blockTxs = 0
    BY <2>1 DEF CommitmentPinsWitness
  <2>2. CASE blockTxs # 0
    BY <2>2, BlockPinsWitness DEF BlockTypeOK, NonEmptyBlock
  <2> QED BY <2>1, <2>2
<1> QED BY <1>1, BlockIsCounted, PTL

(* ------------------------------ tree paths ----------------------------- *)

IsPath(path) == \E T : path \in Seq(T)

LeafAt(script, version, path) ==
  [script |-> script, leafVersion |-> version, path |-> path]

RootAt(script, version, path) == tapMerkleRoot(tapLeafHash(script, version), path)

\* A path that folds to the root is that of a leaf of the tree,
Sound(t) ==
  \A script, version, path :
    IsPath(path) /\ RootAt(script, version, path) = t.root
      => LeafAt(script, version, path) \in t.leaves

\* and every leaf has one that does;
Complete(t) ==
  \A l \in t.leaves :
    /\ IsPath(l.path) /\ l = LeafAt(l.script, l.leafVersion, l.path)
    /\ RootAt(l.script, l.leafVersion, l.path) = t.root

\* the root of a tree of several is nobody's leaf.
Alone(t) == \A l \in t.leaves : l.path = << >> => t.leaves = {l}

Faithful(t) == Sound(t) /\ Complete(t) /\ Alone(t)

\* The equation of tapMerkleRoot's nodes, as far as level m.
NodesOf(f, leafHash, path, m) ==
  f = [n \in 0 .. m |-> IF n = 0 THEN leafHash ELSE tapBranch(f[n - 1], path[n])]

\* The equation of tapMerkleRoot's nodes has a solution.
LEMMA NodesExist ==
  ASSUME NEW leafHash, NEW path, NEW m \in Nat
  PROVE  \E f : NodesOf(f, leafHash, path, m)
<1> DEFINE S == {k \in Nat : \E f : NodesOf(f, leafHash, path, k)}
<1>1. 0 \in S
  <2>1. NodesOf([n \in 0 .. 0 |-> leafHash], leafHash, path, 0)
    BY DEF NodesOf
  <2> QED BY <2>1
<1>2. ASSUME NEW k \in Nat, k \in S PROVE k + 1 \in S
  <2>1. PICK g : NodesOf(g, leafHash, path, k)
    BY <1>2
  <2> DEFINE f == [n \in 0 .. k + 1 |->
                     IF n = k + 1 THEN tapBranch(g[k], path[k + 1]) ELSE g[n]]
  <2>2. ASSUME NEW n \in 0 .. k + 1
        PROVE  f[n] = IF n = 0 THEN leafHash ELSE tapBranch(f[n - 1], path[n])
    <3>1. CASE n = k + 1
      <4>1. f[n] = tapBranch(g[k], path[k + 1]) /\ f[k] = g[k] /\ n - 1 = k
        BY <3>1
      <4> QED BY <3>1, <4>1
    <3>2. CASE n # k + 1
      <4>1. n \in 0 .. k /\ f[n] = g[n] /\ (n # 0 => f[n - 1] = g[n - 1])
        BY <3>2
      <4>2. g[n] = IF n = 0 THEN leafHash ELSE tapBranch(g[n - 1], path[n])
        BY <2>1, <4>1 DEF NodesOf
      <4> QED BY <4>1, <4>2
    <3> QED BY <3>1, <3>2
  <2>3. NodesOf(f, leafHash, path, k + 1)
    BY <2>2 DEF NodesOf
  <2> QED BY <2>3
<1> HIDE DEF S
<1>3. Nat \subseteq S
  BY <1>1, <1>2, InductionBySet
<1> QED BY <1>3 DEF S

\* Two solutions agree where both are defined and their paths agree.
LEMMA NodesAgree ==
  ASSUME NEW leafHash, NEW m \in Nat, NEW k \in Nat, m <= k
  PROVE  \A p, q, f, g :
           /\ NodesOf(f, leafHash, p, m) /\ NodesOf(g, leafHash, q, k)
           /\ \A i \in 1 .. m : p[i] = q[i]
           => f[m] = g[m]
<1> SUFFICES ASSUME NEW p, NEW q, NEW f, NEW g,
                    NodesOf(f, leafHash, p, m), NodesOf(g, leafHash, q, k),
                    \A i \in 1 .. m : p[i] = q[i]
             PROVE  f[m] = g[m]
  OBVIOUS
<1> DEFINE S == {n \in Nat : n <= m => f[n] = g[n]}
<1>1. /\ \A n \in 0 .. m : f[n] = IF n = 0 THEN leafHash ELSE tapBranch(f[n - 1], p[n])
      /\ \A n \in 0 .. k : g[n] = IF n = 0 THEN leafHash ELSE tapBranch(g[n - 1], q[n])
  BY DEF NodesOf
<1>2. 0 \in S
  BY <1>1
<1>3. ASSUME NEW n \in Nat, n \in S PROVE n + 1 \in S
  <2> SUFFICES ASSUME n + 1 <= m PROVE f[n + 1] = g[n + 1]
    OBVIOUS
  <2>1. f[n + 1] = tapBranch(f[n], p[n + 1]) /\ g[n + 1] = tapBranch(g[n], q[n + 1])
    BY <1>1
  <2> QED BY <1>3, <2>1
<1> HIDE DEF S
<1>4. Nat \subseteq S
  BY <1>2, <1>3, InductionBySet
<1> QED BY <1>4 DEF S

\* A root is the last node of one.
LEMMA RootIsNode ==
  ASSUME NEW leafHash, NEW path, Len(path) \in Nat
  PROVE  \E f : NodesOf(f, leafHash, path, Len(path)) /\ tapMerkleRoot(leafHash, path) = f[Len(path)]
<1> DEFINE Eqn(f) ==
             f = [n \in 0 .. Len(path) |-> IF n = 0 THEN leafHash ELSE tapBranch(f[n - 1], path[n])]
           h == CHOOSE f : Eqn(f)
<1>1. tapMerkleRoot(leafHash, path) = h[Len(path)]
  BY DEF tapMerkleRoot
<1>2. \E f : Eqn(f)
  <2>1. PICK f : NodesOf(f, leafHash, path, Len(path))
    BY NodesExist
  <2>2. Eqn(f)
    BY <2>1 DEF NodesOf
  <2> QED BY <2>2
<1>3. Eqn(h)
  BY <1>2
<1> HIDE DEF h
<1> QED BY <1>1, <1>3 DEF NodesOf

\* A leaf without a path is the root.
LEMMA RootOfNothing ==
  ASSUME NEW leafHash
  PROVE  tapMerkleRoot(leafHash, << >>) = leafHash
<1>1. Len(<< >>) = 0
  OBVIOUS
<1>2. PICK f : NodesOf(f, leafHash, << >>, 0) /\ tapMerkleRoot(leafHash, << >>) = f[0]
  BY <1>1, RootIsNode
<1> QED BY <1>2 DEF NodesOf

\* A path of one node more hashes once more.
LEMMA RootSteps ==
  \A leafHash, path, x, T :
    path \in Seq(T) /\ x \in T =>
      tapMerkleRoot(leafHash, Append(path, x)) = tapBranch(tapMerkleRoot(leafHash, path), x)
<1>1. ASSUME NEW leafHash, NEW path, NEW x, NEW T, path \in Seq(T), x \in T
      PROVE  tapMerkleRoot(leafHash, Append(path, x)) = tapBranch(tapMerkleRoot(leafHash, path), x)
  <2> DEFINE q == Append(path, x)
             m == Len(path)
  <2>1. /\ m \in Nat /\ Len(q) = m + 1 /\ Len(q) \in Nat /\ q[m + 1] = x
        /\ \A i \in 1 .. m : path[i] = q[i]
    BY <1>1, AppendProperties
  <2> HIDE DEF q
  <2>2. PICK f : NodesOf(f, leafHash, path, m) /\ tapMerkleRoot(leafHash, path) = f[m]
    BY <2>1, RootIsNode
  <2>3. PICK g : NodesOf(g, leafHash, q, m + 1) /\ tapMerkleRoot(leafHash, q) = g[m + 1]
    BY <2>1, RootIsNode
  <2> HIDE DEF m
  <2>4. f[m] = g[m]
    <3>1. m <= m + 1 /\ m + 1 \in Nat
      BY <2>1
    <3> QED BY <2>1, <2>2, <2>3, <3>1, NodesAgree
  <2>5. g[m + 1] = tapBranch(g[m], q[m + 1])
    <3>1. \A n \in 0 .. m + 1 : g[n] = IF n = 0 THEN leafHash ELSE tapBranch(g[n - 1], q[n])
      BY <2>3 DEF NodesOf
    <3>2. m + 1 \in 0 .. m + 1 /\ m + 1 # 0 /\ (m + 1) - 1 = m
      BY <2>1
    <3> QED BY <3>1, <3>2
  <2> QED BY <2>1, <2>2, <2>3, <2>4, <2>5 DEF q
<1> QED BY <1>1

\* Paths: the empty one, one that is longer by a node, and there are no others.
LEMMA EmptyPath == IsPath(<< >>)
BY DEF IsPath

LEMMA LongerPath ==
  ASSUME NEW path, NEW x, IsPath(path)
  PROVE  IsPath(Append(path, x)) /\ Append(path, x) # << >>
<1>1. PICK T : path \in Seq(T)
  BY DEF IsPath
<1>2. path \in Seq(T \cup {x}) /\ x \in T \cup {x}
  BY <1>1
<1>3. Append(path, x) \in Seq(T \cup {x}) /\ Append(path, x) # << >>
  BY <1>2, AppendProperties
<1> QED BY <1>3 DEF IsPath

LEMMA PathCases ==
  ASSUME NEW path, IsPath(path)
  PROVE  path = << >> \/ \E q, x : IsPath(q) /\ path = Append(q, x)
<1>1. PICK T : path \in Seq(T)
  BY DEF IsPath
<1>2. path = << >> \/ \E q \in Seq(T), x \in T : path = Append(q, x)
  BY <1>1, SequenceEmptyOrAppend
<1> QED BY <1>2 DEF IsPath

\* A hash is of what was hashed, the two nodes of a branch in no order.
LEMMA BranchesEqual ==
  \A a, b, c, d : tapBranch(a, b) = tapBranch(c, d) => (a = c /\ b = d) \/ (a = d /\ b = c)
<1>1. \A a, b, c, d : {a, b} = {c, d} => (a = c /\ b = d) \/ (a = d /\ b = c)
  OBVIOUS
<1>2. \A a, b, c, d : tapBranch(a, b) = tapBranch(c, d) => {a, b} = {c, d}
  BY DEF tapBranch
<1> QED BY <1>1, <1>2

\* A branch does not tell its left node from its right.
LEMMA BranchIsUnordered == \A a, b : tapBranch(a, b) = tapBranch(b, a)
<1>1. \A a, b : {a, b} = {b, a}
  OBVIOUS
<1> QED BY <1>1 DEF tapBranch

\* No two leaves have one hash.
LEMMA LeavesEqual ==
  \A s, v, r, w : tapLeafHash(s, v) = tapLeafHash(r, w) => s = r /\ v = w
BY DEF tapLeafHash

\* A branch hashes under a tag that no leaf has.
LEMMA BranchIsNoLeaf == \A a, b, s, v : tapBranch(a, b) # tapLeafHash(s, v)
BY DEF tapBranch, tapLeafHash

\* The root of a script under a path, one level at a time.
LEMMA RootOfPath ==
  \A script, version :
    /\ RootAt(script, version, << >>) = tapLeafHash(script, version)
    /\ \A q, x : IsPath(q) =>
         RootAt(script, version, Append(q, x)) = tapBranch(RootAt(script, version, q), x)
<1> SUFFICES ASSUME NEW script, NEW version
             PROVE  /\ RootAt(script, version, << >>) = tapLeafHash(script, version)
                    /\ \A q, x : IsPath(q) =>
                         RootAt(script, version, Append(q, x))
                           = tapBranch(RootAt(script, version, q), x)
  OBVIOUS
<1>1. RootAt(script, version, << >>) = tapLeafHash(script, version)
  BY RootOfNothing DEF RootAt
<1>2. ASSUME NEW q, NEW x, IsPath(q)
      PROVE  RootAt(script, version, Append(q, x)) = tapBranch(RootAt(script, version, q), x)
  <2>1. PICK U : q \in Seq(U) /\ x \in U
    <3>1. PICK T : q \in Seq(T)
      BY <1>2 DEF IsPath
    <3>2. q \in Seq(T \cup {x}) /\ x \in T \cup {x}
      BY <3>1
    <3> QED BY <3>2
  <2> DEFINE leaf == tapLeafHash(script, version)
  <2> HIDE DEF leaf
  <2>2. tapMerkleRoot(leaf, Append(q, x)) = tapBranch(tapMerkleRoot(leaf, q), x)
    BY <2>1, RootSteps
  <2> QED BY <2>2 DEF RootAt, leaf
<1> QED BY <1>1, <1>2

\* A tree of one leaf is faithful,
LEMMA LeafFaithful ==
  ASSUME NEW script, NEW version
  PROVE  Faithful(Leaf(script, version))
<1> DEFINE t == Leaf(script, version)
<1>1. t.root = tapLeafHash(script, version) /\ t.leaves = {LeafAt(script, version, << >>)}
  BY DEF Leaf, LeafAt
<1> HIDE DEF t
<1>2. Sound(t)
  <2> SUFFICES ASSUME NEW s, NEW v, NEW path, IsPath(path), RootAt(s, v, path) = t.root
               PROVE  LeafAt(s, v, path) \in t.leaves
    BY DEF Sound
  <2>1. path = << >>
    <3> SUFFICES ASSUME NEW q, NEW x, IsPath(q), path = Append(q, x) PROVE FALSE
      BY PathCases
    <3>1. RootAt(s, v, path) = tapBranch(RootAt(s, v, q), x)
      BY RootOfPath
    <3>2. tapBranch(RootAt(s, v, q), x) = tapLeafHash(script, version)
      BY <3>1, <1>1
    <3> QED BY <3>2, BranchIsNoLeaf
  <2>2. RootAt(s, v, path) = tapLeafHash(s, v)
    BY <2>1, RootOfPath
  <2>3. v = version /\ s = script
    <3>1. tapLeafHash(s, v) = tapLeafHash(script, version)
      BY <2>2, <1>1
    <3> QED BY <3>1, LeavesEqual
  <2> QED BY <2>1, <2>3, <1>1
<1>3. Complete(t)
  BY <1>1, RootOfPath, EmptyPath DEF Complete, LeafAt
<1>4. Alone(t)
  BY <1>1 DEF Alone
<1> QED BY <1>2, <1>3, <1>4 DEF Faithful, t

\* The leaves of one side of a branch, all one level further down.
LEMMA BelowLeaf ==
  ASSUME NEW t, NEW x, Complete(t)
  PROVE  /\ \A l \in Below(t.leaves, x) :
              \E k \in t.leaves : l = LeafAt(k.script, k.leafVersion, Append(k.path, x))
         /\ \A s, v, q : LeafAt(s, v, q) \in t.leaves => LeafAt(s, v, Append(q, x)) \in Below(t.leaves, x)
<1>1. \A k \in t.leaves : k = LeafAt(k.script, k.leafVersion, k.path)
  BY DEF Complete
<1>2. \A s, v, q : [LeafAt(s, v, q) EXCEPT !.path = Append(@, x)] = LeafAt(s, v, Append(q, x))
  BY DEF LeafAt
<1>3. ASSUME NEW k \in t.leaves
      PROVE  [k EXCEPT !.path = Append(@, x)] = LeafAt(k.script, k.leafVersion, Append(k.path, x))
  <2> DEFINE s == k.script
             v == k.leafVersion
             q == k.path
  <2>1. k = LeafAt(s, v, q)
    BY <1>1
  <2> HIDE DEF s, v, q
  <2>2. [LeafAt(s, v, q) EXCEPT !.path = Append(@, x)] = LeafAt(s, v, Append(q, x))
    BY <1>2
  <2>3. [k EXCEPT !.path = Append(@, x)] = LeafAt(s, v, Append(q, x))
    BY <2>1, <2>2
  <2> QED BY <2>3 DEF s, v, q
<1>4. \A l \in Below(t.leaves, x) : \E k \in t.leaves : l = [k EXCEPT !.path = Append(@, x)]
  BY DEF Below
<1>5. \A k \in t.leaves : [k EXCEPT !.path = Append(@, x)] \in Below(t.leaves, x)
  BY DEF Below
<1>6. ASSUME NEW s, NEW v, NEW q, LeafAt(s, v, q) \in t.leaves
      PROVE  LeafAt(s, v, Append(q, x)) \in Below(t.leaves, x)
  <2>1. [LeafAt(s, v, q) EXCEPT !.path = Append(@, x)] \in Below(t.leaves, x)
    BY <1>5, <1>6
  <2> QED BY <2>1, <1>2
<1> QED BY <1>3, <1>4, <1>6

\* and so are two faithful trees under a branch.
LEMMA JoinFaithful ==
  ASSUME NEW t, NEW u, Faithful(t), Faithful(u)
  PROVE  Faithful(Join(t, u))
<1> DEFINE j == Join(t, u)
           downT == Below(t.leaves, u.root)
           downU == Below(u.leaves, t.root)
<1>1. j.root = tapBranch(t.root, u.root) /\ j.leaves = downT \cup downU
  BY DEF Join
<1>2. /\ \A l \in downT : \E k \in t.leaves : l = LeafAt(k.script, k.leafVersion, Append(k.path, u.root))
      /\ \A s, v, q : LeafAt(s, v, q) \in t.leaves => LeafAt(s, v, Append(q, u.root)) \in downT
  BY BelowLeaf DEF Faithful
<1>3. /\ \A l \in downU : \E k \in u.leaves : l = LeafAt(k.script, k.leafVersion, Append(k.path, t.root))
      /\ \A s, v, q : LeafAt(s, v, q) \in u.leaves => LeafAt(s, v, Append(q, t.root)) \in downU
  BY BelowLeaf DEF Faithful
<1> HIDE DEF j, downT, downU
<1>4. Sound(j)
  <2> SUFFICES ASSUME NEW s, NEW v, NEW path, IsPath(path), RootAt(s, v, path) = j.root
               PROVE  LeafAt(s, v, path) \in j.leaves
    BY DEF Sound
  <2>1. path # << >>
    <3> SUFFICES ASSUME path = << >> PROVE FALSE
      OBVIOUS
    <3>1. RootAt(s, v, path) = tapLeafHash(s, v)
      BY RootOfPath
    <3>2. tapLeafHash(s, v) = tapBranch(t.root, u.root)
      BY <3>1, <1>1
    <3> QED BY <3>2, BranchIsNoLeaf
  <2>2. PICK q, x : IsPath(q) /\ path = Append(q, x)
    BY <2>1, PathCases
  <2>3. RootAt(s, v, path) = tapBranch(RootAt(s, v, q), x)
    BY <2>2, RootOfPath
  <2>4. \/ RootAt(s, v, q) = t.root /\ x = u.root
        \/ RootAt(s, v, q) = u.root /\ x = t.root
    <3>1. tapBranch(RootAt(s, v, q), x) = tapBranch(t.root, u.root)
      BY <2>3, <1>1
    <3> QED BY <3>1, BranchesEqual
  <2>5. \/ LeafAt(s, v, q) \in t.leaves /\ x = u.root
        \/ LeafAt(s, v, q) \in u.leaves /\ x = t.root
    BY <2>2, <2>4 DEF Faithful, Sound
  <2> QED BY <2>2, <2>5, <1>1, <1>2, <1>3
<1>5. ASSUME NEW l \in j.leaves
      PROVE  /\ IsPath(l.path) /\ l.path # << >>
             /\ l = LeafAt(l.script, l.leafVersion, l.path)
             /\ RootAt(l.script, l.leafVersion, l.path) = j.root
  <2>1. ASSUME NEW a, NEW b, Complete(a), NEW k \in a.leaves,
               l = LeafAt(k.script, k.leafVersion, Append(k.path, b)),
               j.root = tapBranch(a.root, b)
        PROVE  /\ IsPath(l.path) /\ l.path # << >>
               /\ l = LeafAt(l.script, l.leafVersion, l.path)
               /\ RootAt(l.script, l.leafVersion, l.path) = j.root
    <3>1. IsPath(k.path) /\ RootAt(k.script, k.leafVersion, k.path) = a.root
      BY <2>1 DEF Complete
    <3>2. IsPath(Append(k.path, b)) /\ Append(k.path, b) # << >>
      BY <3>1, LongerPath
    <3>3. /\ l.script = k.script /\ l.leafVersion = k.leafVersion /\ l.path = Append(k.path, b)
          /\ l = LeafAt(l.script, l.leafVersion, l.path)
      BY <2>1 DEF LeafAt
    <3>4. RootAt(k.script, k.leafVersion, Append(k.path, b)) = tapBranch(a.root, b)
      BY <3>1, RootOfPath
    <3> QED BY <2>1, <3>2, <3>3, <3>4
  <2>2. CASE l \in downT
    <3>1. PICK k \in t.leaves : l = LeafAt(k.script, k.leafVersion, Append(k.path, u.root))
      BY <2>2, <1>2
    <3>2. Complete(t)
      BY DEF Faithful
    <3> QED BY <2>1, <3>1, <3>2, <1>1
  <2>3. CASE l \in downU
    <3>1. PICK k \in u.leaves : l = LeafAt(k.script, k.leafVersion, Append(k.path, t.root))
      BY <2>3, <1>3
    <3>2. Complete(u)
      BY DEF Faithful
    <3>3. j.root = tapBranch(u.root, t.root)
      <4>1. tapBranch(t.root, u.root) = tapBranch(u.root, t.root)
        BY BranchIsUnordered
      <4> QED BY <4>1, <1>1
    <3> QED BY <2>1, <3>1, <3>2, <3>3
  <2> QED BY <2>2, <2>3, <1>1
<1>6. Complete(j) /\ Alone(j)
  BY <1>5 DEF Complete, Alone
<1> QED BY <1>4, <1>6 DEF Faithful, j

\* A path folds to the root of a script tree exactly if it is that of one of its
\* leaves, and only a tree of one leaf has a leaf without a path, however the tree
\* was grown: what makes verifyScriptPathCommitment's fold mean anything.
THEOREM TreeIsFaithful == TreeSpec => []Faithful(tree)
<1>1. TreeInit => Faithful(tree)
  BY LeafFaithful DEF TreeInit, Leaves
<1>2. Faithful(tree) /\ [GrowTree]_tree => Faithful(tree')
  <2> SUFFICES ASSUME Faithful(tree), GrowTree PROVE Faithful(tree')
    OBVIOUS
  <2>1. PICK grafted \in Leaves \cup {Cherry} : tree' = Join(tree, grafted)
    BY DEF GrowTree
  <2>2. Faithful(grafted)
    <3>1. \A l \in Leaves : Faithful(l)
      BY LeafFaithful DEF Leaves
    <3>2. Faithful(Cherry)
      BY LeafFaithful, JoinFaithful DEF Cherry
    <3> QED BY <3>1, <3>2
  <2>3. Faithful(Join(tree, grafted))
    BY <2>2, JoinFaithful
  <2> QED BY <2>1, <2>3
<1>3. Faithful(tree') => Faithful(tree)'
  BY DEF Faithful, Sound, Complete, Alone
<1> QED BY <1>1, <1>2, <1>3, PTL DEF TreeSpec

\* Every path that is shown is a sequence of nodes.
LEMMA BlocksHavePaths ==
  ASSUME Faithful(tree), NEW witness \in Witnesses, witness # << >>
  PROVE  IsPath(witness[1].block.path)
<1>1. \A l \in tree.leaves : IsPath(l.path)
  BY DEF Faithful, Complete
<1>2. \A path \in BoundedSeq(Known, Deepest) : IsPath(path)
  <2> SUFFICES ASSUME NEW path \in BoundedSeq(Known, Deepest) PROVE IsPath(path)
    OBVIOUS
  <2> DEFINE T == Known
  <2> HIDE DEF T
  <2>1. PICK m \in 0 .. Deepest : path \in [1 .. m -> T]
    BY DEF BoundedSeq, SeqOf, T
  <2>2. path \in Seq(T)
    BY <2>1
  <2> QED BY <2>2 DEF IsPath
<1>3. ASSUME NEW version, NEW path, NEW b \in {Block(version, path)} \cup Spoilt(Block(version, path))
      PROVE  b.path = path
  <2> DEFINE c == Block(version, path)
  <2>1. c.path = path /\ DOMAIN c = {"leafVersion", "outputKeyParity", "internalKey", "path", "whole"}
    BY DEF Block
  <2> HIDE DEF c
  <2>2. /\ [c EXCEPT !.outputKeyParity = 0].path = path
        /\ [c EXCEPT !.internalKey = "off the curve"].path = path
        /\ [c EXCEPT !.internalKey = "another"].path = path
        /\ [c EXCEPT !.whole = FALSE].path = path
    BY <2>1
  <2>3. b \in {c} \cup Spoilt(c)
    BY <1>3 DEF c
  <2> QED BY <2>1, <2>2, <2>3 DEF Spoilt
<1>4. ASSUME NEW b \in Blocks \cup UNION {Spoilt(Block(l.leafVersion, l.path)) : l \in tree.leaves}
      PROVE  IsPath(b.path)
  <2>1. CASE \E path \in BoundedSeq(Known, Deepest) : b = Block(192, path)
    BY <2>1, <1>2 DEF Block
  <2>2. CASE \E l \in tree.leaves : b \in {Block(l.leafVersion, l.path)} \cup Spoilt(Block(l.leafVersion, l.path))
    BY <2>2, <1>1, <1>3
  <2> QED BY <2>1, <2>2 DEF Blocks
<1>5. \E script \in {"ord", "other", "theirs", "forged"},
         block \in Blocks \cup UNION {Spoilt(Block(l.leafVersion, l.path)) : l \in tree.leaves} :
        witness = <<[script |-> script, block |-> block]>>
  BY DEF Witnesses
<1> QED BY <1>4, <1>5

\* What verifies against the output of a tree is a leaf of it, at the depth reported.
LEMMA CommitmentIsLeaf ==
  ASSUME NEW t, Faithful(t), NEW script, NEW block, IsPath(block.path),
         verifyScriptPathCommitment(script, block, Output(t))
  PROVE  /\ LeafAt(script, block.leafVersion, block.path) \in t.leaves
         /\ Len(block.path) \in Nat
         /\ Len(block.path) = 0 => Cardinality(t.leaves) = 1
<1>1. RootAt(script, block.leafVersion, block.path) = t.root
  BY DEF verifyScriptPathCommitment, Output, tapTweak, RootAt
<1>2. LeafAt(script, block.leafVersion, block.path) \in t.leaves
  BY <1>1 DEF Faithful, Sound
<1>3. PICK T : block.path \in Seq(T)
  BY DEF IsPath
<1>4. ASSUME Len(block.path) = 0 PROVE Cardinality(t.leaves) = 1
  <2>1. block.path = << >>
    BY <1>3, <1>4
  <2>2. t.leaves = {LeafAt(script, block.leafVersion, block.path)}
    BY <1>2, <2>1 DEF Faithful, Alone, LeafAt
  <2> QED BY <2>2, FS_Singleton
<1> QED BY <1>2, <1>3, <1>4

\* What a faithful tree commits to is what an envelope is bound to.
LEMMA FaithfulMeansCommitted == Faithful(tree) => EnvelopeIsCommitted
<1> SUFFICES ASSUME Faithful(tree) PROVE EnvelopeIsCommitted
  OBVIOUS
<1>1. ASSUME NEW k \in 1 .. 3, NEW witness \in Witnesses, NEW prevTx \in PrevTxs
      PROVE  LET inputs == [i \in 1 .. 3 |-> [prevTxid |-> Commit, vout |-> i, tapscript |-> witness]]
                 depth  == verifyEnvelopeBinding(inputs, k, [i \in 1 .. 3 |-> prevTx])
             IN  depth # NotBound =>
                   /\ k # 3
                   /\ LET leaves == TreeOf(k).leaves
                      IN  /\ \E l \in leaves : l.script = witness[1].script /\ Len(l.path) = depth
                                                 /\ l.leafVersion = witness[1].block.leafVersion
                          /\ depth = 0 => Cardinality(leaves) = 1
  <2> DEFINE inputs == [i \in 1 .. 3 |-> [prevTxid |-> Commit, vout |-> i, tapscript |-> witness]]
             shown == [i \in 1 .. 3 |-> prevTx]
             depth == verifyEnvelopeBinding(inputs, k, shown)
             script == witness[1].script
             block == witness[1].block
  <2> SUFFICES ASSUME depth # NotBound
               PROVE  /\ k # 3
                      /\ \E l \in TreeOf(k).leaves : l.script = script /\ Len(l.path) = depth
                                                       /\ l.leafVersion = block.leafVersion
                      /\ depth = 0 => Cardinality(TreeOf(k).leaves) = 1
    OBVIOUS
  <2>1. /\ witness # << >> /\ k \in DOMAIN Commit
        /\ verifyScriptPathCommitment(script, block, Commit[k])
        /\ depth = Len(block.path)
    <3>1. inputs[k] = [prevTxid |-> Commit, vout |-> k, tapscript |-> witness] /\ shown[k] = prevTx
      OBVIOUS
    <3> HIDE DEF inputs, shown
    <3>2. /\ prevTx[1] = Commit /\ k \in DOMAIN prevTx[1] /\ witness # << >>
          /\ verifyScriptPathCommitment(script, block, prevTx[1][k])
          /\ depth = Len(block.path)
      BY <3>1 DEF verifyEnvelopeBinding
    <3> QED BY <3>2
  <2> HIDE DEF depth, script, block
  <2>2. k # 3 /\ Commit[k] = Output(TreeOf(k))
    <3>1. CASE k = 1
      BY <3>1 DEF Commit, TreeOf
    <3>2. CASE k = 2
      BY <3>2 DEF Commit, TreeOf
    <3>3. k # 3
      <4> SUFFICES ASSUME k = 3 PROVE FALSE
        OBVIOUS
      <4>1. Commit[k].type = "p2wpkh"
        BY DEF Commit
      <4>2. Commit[k].type = "p2tr"
        BY <2>1 DEF verifyScriptPathCommitment, isP2TR
      <4> QED BY <4>1, <4>2
    <3> QED BY <3>1, <3>2, <3>3
  <2>3. Faithful(TreeOf(k))
    BY LeafFaithful DEF TreeOf, Theirs
  <2>4. IsPath(block.path)
    BY <2>1, BlocksHavePaths DEF block
  <2>5. /\ LeafAt(script, block.leafVersion, block.path) \in TreeOf(k).leaves
        /\ Len(block.path) \in Nat
        /\ Len(block.path) = 0 => Cardinality(TreeOf(k).leaves) = 1
    BY <2>1, <2>2, <2>3, <2>4, CommitmentIsLeaf
  <2> QED BY <2>1, <2>2, <2>5 DEF LeafAt
<1>2. ASSUME NEW l \in tree.leaves
      PROVE  LET witness == <<[script |-> l.script, block |-> Block(l.leafVersion, l.path)]>>
                 inputs  == <<[prevTxid |-> Commit, vout |-> 1, tapscript |-> witness]>>
             IN  verifyEnvelopeBinding(inputs, 1, <<<<Commit>>>>)
                   = IF Len(l.path) <= Deepest THEN Len(l.path) ELSE NotBound
  <2> DEFINE block == Block(l.leafVersion, l.path)
             witness == <<[script |-> l.script, block |-> block]>>
             inputs == <<[prevTxid |-> Commit, vout |-> 1, tapscript |-> witness]>>
             shown == <<<<Commit>>>>
  <2>1. tapMerkleRoot(tapLeafHash(l.script, l.leafVersion), l.path) = tree.root
    BY DEF Faithful, Complete, RootAt
  <2>2. verifyScriptPathCommitment(l.script, block, Output(tree)) <=> Len(l.path) <= Deepest
    BY <2>1 DEF verifyScriptPathCommitment, Block, Output, tapTweak, isP2TR, parseControlBlock
  <2>3. /\ shown[1] = <<Commit>> /\ shown[1][1] = Commit /\ 1 \in DOMAIN Commit
        /\ Commit[1] = Output(tree) /\ shown[1] # << >>
    BY DEF Commit
  <2>4. /\ inputs[1].prevTxid = Commit /\ inputs[1].vout = 1 /\ inputs[1].tapscript = witness
        /\ witness # << >> /\ witness[1].script = l.script /\ witness[1].block = block
        /\ block.path = l.path
    BY DEF Block
  <2> HIDE DEF shown, witness, inputs, block
  <2>5. verifyEnvelopeBinding(inputs, 1, shown)
          = IF Len(l.path) <= Deepest THEN Len(l.path) ELSE NotBound
    BY <2>2, <2>3, <2>4 DEF verifyEnvelopeBinding
  <2> QED BY <2>5 DEF shown, inputs, witness, block
<1> QED BY <1>1, <1>2 DEF EnvelopeIsCommitted

\* verifyEnvelopeBinding binds an envelope only to a script that the tree of the spent
\* output has, at the depth it reports, and every leaf has a witness that binds, up
\* to the depth a control block may have: for trees of any size.
THEOREM EnvelopeAlwaysCommitted == TreeSpec => []EnvelopeIsCommitted
BY TreeIsFaithful, FaithfulMeansCommitted, PTL

(* ------------------------------ arithmetic ----------------------------- *)

\* Products grow with their factors.
LEMMA TimesMonotone ==
  ASSUME NEW a \in Nat, NEW b \in Nat, NEW c \in Nat, a <= b
  PROVE  c * a <= c * b /\ c * a \in Nat /\ c * b \in Nat
<1>1. c * (b - a) \in Nat /\ c * a \in Nat /\ c * b \in Nat
  OBVIOUS
<1>2. c * b = c * a + c * (b - a)
  OBVIOUS
<1> QED BY <1>1, <1>2

\* Division with remainder,
LEMMA DivMod ==
  ASSUME NEW a \in Nat, NEW b \in Nat, b > 0
  PROVE  /\ a \div b \in Nat /\ a % b \in Nat /\ a % b < b
         /\ a = b * (a \div b) + (a % b)
OBVIOUS

\* and that there is only one.
LEMMA DivModUnique ==
  ASSUME NEW b \in Nat, b > 0, NEW q \in Nat, NEW r \in Nat, r < b, NEW a \in Nat, a = b * q + r
  PROVE  a \div b = q /\ a % b = r
<1> DEFINE x == a \div b
           y == a % b
<1>1. x \in Nat /\ y \in Nat /\ y < b /\ a = b * x + y
  BY DivMod
<1> HIDE DEF x, y
<1>2. ~ (q < x)
  <2> SUFFICES ASSUME q < x PROVE FALSE
    OBVIOUS
  <2>1. b * (q + 1) <= b * x
    <3>1. q + 1 \in Nat /\ q + 1 <= x
      BY <1>1
    <3> QED BY <1>1, <3>1, TimesMonotone
  <2>2. b * (q + 1) = b * q + b /\ b * q \in Nat /\ b * x \in Nat
    BY <1>1
  <2> QED BY <1>1, <2>1, <2>2
<1>3. ~ (x < q)
  <2> SUFFICES ASSUME x < q PROVE FALSE
    OBVIOUS
  <2>1. b * (x + 1) <= b * q
    <3>1. x + 1 \in Nat /\ x + 1 <= q
      BY <1>1
    <3> QED BY <1>1, <3>1, TimesMonotone
  <2>2. b * (x + 1) = b * x + b /\ b * q \in Nat /\ b * x \in Nat
    BY <1>1
  <2> QED BY <1>1, <2>1, <2>2
<1>4. x = q
  BY <1>1, <1>2, <1>3
<1>5. y = r
  <2>1. b * q \in Nat /\ a = b * q + y
    BY <1>1, <1>4
  <2> QED BY <1>1, <2>1
<1> QED BY <1>4, <1>5 DEF x, y

(* --------------------------- targets and bits -------------------------- *)

\* Multiplying keeps an order, and loses it with the factor only.
LEMMA LessTimes ==
  ASSUME NEW a \in Nat, NEW b \in Nat, NEW c \in Nat, c > 0, c * a < c * b
  PROVE  a < b
<1> SUFFICES ASSUME b <= a PROVE FALSE
  OBVIOUS
<1>1. c * b <= c * a /\ c * a \in Nat /\ c * b \in Nat
  BY TimesMonotone
<1> QED BY <1>1

\* How a quotient is bounded: by what its multiples are.
LEMMA DivBounds ==
  ASSUME NEW a \in Nat, NEW b \in Nat, b > 0, NEW c \in Nat
  PROVE  /\ a \div b \in Nat /\ b * (a \div b) <= a /\ b * (a \div b) \in Nat
         /\ b * c <= a => c <= a \div b
         /\ a < b * c => a \div b < c
<1> DEFINE q == a \div b
           r == a % b
<1>1. q \in Nat /\ r \in Nat /\ r < b /\ a = b * q + r
  BY DivMod
<1> HIDE DEF q, r
<1>2. b * q \in Nat /\ b * c \in Nat /\ b * (q + 1) = b * q + b /\ q + 1 \in Nat
  BY <1>1
<1>3. b * c <= a => c <= q
  <2> HAVE b * c <= a
  <2>1. b * c < b * (q + 1)
    BY <1>1, <1>2
  <2>2. c < q + 1
    BY <1>2, <2>1, LessTimes
  <2> QED BY <1>1, <2>2
<1>4. a < b * c => q < c
  <2> HAVE a < b * c
  <2>1. b * q < b * c
    BY <1>1, <1>2
  <2> QED BY <1>1, <2>1, LessTimes
<1>5. b * q <= a
  BY <1>1, <1>2
<1> QED BY <1>1, <1>2, <1>3, <1>4, <1>5 DEF q

\* Dividing twice is dividing by the product.
LEMMA DivTwice ==
  ASSUME NEW a \in Nat, NEW b \in Nat, b > 0, NEW c \in Nat, c > 0
  PROVE  (a \div b) \div c = a \div (b * c)
<1> DEFINE q == a \div b
           r == a % b
           p == q \div c
           s == q % c
<1>1. q \in Nat /\ r \in Nat /\ r < b /\ a = b * q + r
  BY DivMod
<1>2. p \in Nat /\ s \in Nat /\ s < c /\ q = c * p + s
  <2> HIDE DEF q
  <2> QED BY <1>1, DivMod
<1> HIDE DEF q, r, p, s
<1> DEFINE d == b * c
           e == b * s + r
<1>3. d \in Nat /\ d > 0 /\ b * s \in Nat /\ e \in Nat
  BY <1>1, <1>2
<1>4. e < d
  <2>1. b * (s + 1) <= b * c
    <3>1. s + 1 \in Nat /\ s + 1 <= c
      BY <1>2
    <3> QED BY <3>1, TimesMonotone
  <2>2. b * (s + 1) = b * s + b
    BY <1>2
  <2> QED BY <1>1, <1>3, <2>1, <2>2
<1>5. a = d * p + e
  <2>1. b * q = b * (c * p) + b * s
    BY <1>1, <1>2
  <2>2. b * (c * p) = d * p
    BY <1>2
  <2>3. d * p \in Nat
    BY <1>2, <1>3
  <2> QED BY <1>1, <1>3, <2>1, <2>2, <2>3
<1> HIDE DEF d, e
<1>6. a \div d = p
  BY <1>2, <1>3, <1>4, <1>5, DivModUnique
<1> QED BY <1>6 DEF d, p, q

\* Dividing what was multiplied.
LEMMA TimesDiv ==
  ASSUME NEW a \in Nat, NEW b \in Nat, b > 0
  PROVE  (a * b) \div b = a
<1>1. a * b \in Nat /\ a * b = b * a + 0 /\ 0 \in Nat
  OBVIOUS
<1> QED BY <1>1, DivModUnique

\* The powers are there, and grow by the radix.
LEMMA PowersRun ==
  ASSUME BitsAssumption
  PROVE  /\ Power[0] = 1
         /\ \A n \in 0 .. TargetDigits + 1 : Power[n] \in Nat /\ Power[n] > 0
         /\ \A n \in 0 .. TargetDigits : Power[n + 1] = Power[n] * Radix
<1> DEFINE N == TargetDigits + 1
           Eqn(f) == f = [digits \in 0 .. TargetDigits + 1 |->
                            IF digits = 0 THEN 1 ELSE f[digits - 1] * Radix]
           Runs(f, k) == /\ f \in [0 .. N -> Nat] /\ f[0] = 1
                         /\ \A n \in 1 .. k : f[n] = f[n - 1] * Radix
           T == {k \in Nat : k <= N => \E f : Runs(f, k)}
<1>1. N \in Nat /\ Radix \in Nat /\ Radix > 0 /\ TargetDigits \in Nat
  BY DEF BitsAssumption
<1>2. Power = CHOOSE f : Eqn(f)
  BY DEF Power
<1> HIDE DEF N
<1>3. 0 \in T
  <2> DEFINE one == [n \in 0 .. N |-> 1]
  <2>1. one \in [0 .. N -> Nat] /\ one[0] = 1 /\ \A n \in 1 .. 0 : FALSE
    BY <1>1
  <2> HIDE DEF one
  <2>2. Runs(one, 0)
    BY <2>1
  <2> HIDE DEF Runs
  <2> QED BY <2>2
<1>4. ASSUME NEW k \in Nat, k \in T PROVE k + 1 \in T
  <2> SUFFICES ASSUME k + 1 <= N PROVE \E f : Runs(f, k + 1)
    <3> HIDE DEF Runs
    <3> QED OBVIOUS
  <2>1. PICK g : Runs(g, k)
    <3>1. k <= N
      BY <1>1
    <3> HIDE DEF Runs
    <3> QED BY <1>4, <3>1
  <2>2. k \in 0 .. N /\ k + 1 \in 0 .. N /\ g \in [0 .. N -> Nat]
    BY <1>1, <2>1
  <2>3. g[k] * Radix \in Nat
    BY <1>1, <2>2
  <2> DEFINE f == [g EXCEPT ![k + 1] = g[k] * Radix]
  <2>4. /\ f \in [0 .. N -> Nat] /\ f[k + 1] = g[k] * Radix
        /\ \A n \in 0 .. k : f[n] = g[n]
    BY <1>1, <2>2, <2>3
  <2> HIDE DEF f
  <2>5. f[0] = 1
    BY <2>1, <2>2, <2>4
  <2>6. ASSUME NEW n \in 1 .. k + 1 PROVE f[n] = f[n - 1] * Radix
    <3>1. n - 1 \in 0 .. k
      BY <2>2
    <3>2. CASE n = k + 1
      <4>1. n - 1 = k
        BY <3>2
      <4> QED BY <2>4, <3>1, <3>2, <4>1
    <3>3. CASE n \in 1 .. k
      <4>1. n \in 0 .. k /\ g[n] = g[n - 1] * Radix
        BY <2>1, <2>2, <3>3
      <4> QED BY <2>4, <3>1, <4>1
    <3> QED BY <2>2, <3>2, <3>3
  <2> QED BY <2>4, <2>5, <2>6
<1>5. PICK f : Runs(f, N)
  <2>1. N \in T
    <3> HIDE DEF T
    <3> QED BY <1>1, <1>3, <1>4, InductionBySet
  <2> HIDE DEF Runs
  <2> QED BY <1>1, <2>1
<1>6. Eqn(f)
  <2>1. \A n \in 0 .. N : f[n] = IF n = 0 THEN 1 ELSE f[n - 1] * Radix
    BY <1>1, <1>5
  <2> QED BY <1>5, <2>1 DEF N
<1>7. Eqn(Power)
  <2> HIDE DEF Eqn
  <2> QED BY <1>2, <1>6
<1>8. Power[0] = 1
  <2>1. 0 \in 0 .. TargetDigits + 1
    BY <1>1
  <2> QED BY <1>7, <2>1
<1>9. \A n \in 0 .. TargetDigits : Power[n + 1] = Power[n] * Radix
  <2> TAKE n \in 0 .. TargetDigits
  <2>1. n + 1 \in 0 .. TargetDigits + 1 /\ n + 1 # 0 /\ (n + 1) - 1 = n
    BY <1>1
  <2> QED BY <1>7, <2>1
<1> DEFINE S == {n \in Nat : n <= N => Power[n] \in Nat /\ Power[n] > 0}
<1>10. 0 \in S
  BY <1>8
<1>11. ASSUME NEW n \in Nat, n \in S PROVE n + 1 \in S
  <2> SUFFICES ASSUME n + 1 <= N PROVE Power[n + 1] \in Nat /\ Power[n + 1] > 0
    OBVIOUS
  <2>1. n \in 0 .. TargetDigits /\ n <= N
    BY <1>1 DEF N
  <2>2. Power[n] \in Nat /\ Power[n] > 0 /\ Power[n + 1] = Power[n] * Radix
    BY <1>9, <1>11, <2>1
  <2> QED BY <1>1, <2>2
<1> HIDE DEF S
<1>12. Nat \subseteq S
  BY <1>10, <1>11, InductionBySet
<1>13. \A n \in 0 .. N : Power[n] \in Nat /\ Power[n] > 0
  BY <1>1, <1>12 DEF S
<1> QED BY <1>8, <1>9, <1>13 DEF N

\* A power is the product of powers that add up to it.
LEMMA PowersAdd ==
  ASSUME BitsAssumption, NEW i \in Nat, NEW j \in Nat, i + j <= TargetDigits + 1
  PROVE  Power[i + j] = Power[i] * Power[j]
<1> DEFINE N == TargetDigits + 1
           S == {n \in Nat : i + n <= N => Power[i + n] = Power[i] * Power[n]}
<1>1. N \in Nat /\ TargetDigits \in Nat /\ Radix \in Nat
  BY DEF BitsAssumption
<1>2. 0 \in S
  <2>1. i \in 0 .. N /\ Power[i] \in Nat /\ Power[0] = 1 /\ i + 0 = i
    <3>1. i \in 0 .. N
      BY <1>1
    <3> QED BY <3>1, PowersRun
  <2> HIDE DEF N
  <2> QED BY <2>1
<1>3. ASSUME NEW n \in Nat, n \in S PROVE n + 1 \in S
  <2> SUFFICES ASSUME i + (n + 1) <= N PROVE Power[i + (n + 1)] = Power[i] * Power[n + 1]
    OBVIOUS
  <2>1. /\ i + n <= N /\ i + n \in 0 .. TargetDigits /\ n \in 0 .. TargetDigits /\ n \in 0 .. N
        /\ i \in 0 .. N /\ (i + n) + 1 = i + (n + 1)
    BY <1>1
  <2>2. Power[i + n] = Power[i] * Power[n]
    BY <1>3, <2>1
  <2>3. Power[(i + n) + 1] = Power[i + n] * Radix /\ Power[n + 1] = Power[n] * Radix
    BY <2>1, PowersRun
  <2>4. Power[i] \in Nat /\ Power[n] \in Nat
    BY <2>1, PowersRun
  <2>5. (Power[i] * Power[n]) * Radix = Power[i] * (Power[n] * Radix)
    BY <1>1, <2>4
  <2> QED BY <2>1, <2>2, <2>3, <2>5
<1> HIDE DEF S
<1>4. j \in S
  BY <1>2, <1>3, InductionBySet
<1> QED BY <1>4 DEF S

\* The first powers, and half of the third.
LEMMA SignIs ==
  ASSUME BitsAssumption
  PROVE  \E half \in Nat :
           /\ half > 0 /\ Radix = 2 * half
           /\ Power[1] = Radix /\ Power[2] = Radix * Radix /\ Power[3] = (Radix * Radix) * Radix
           /\ SignBit = Radix * (Radix * half) /\ Radix * half \in Nat /\ SignBit \in Nat
           /\ Radix * half <= Radix * Radix /\ Radix * Radix <= SignBit /\ SignBit < Power[3]
<1> DEFINE h == Radix \div 2
<1>1. /\ Radix \in Nat /\ Radix > 0 /\ Radix % 2 = 0
      /\ TargetDigits \in Nat /\ TargetDigits >= 3
  BY DEF BitsAssumption
<1>2. h \in Nat /\ Radix = 2 * h
  <2>1. h \in Nat /\ Radix = 2 * h + (Radix % 2)
    BY <1>1, DivMod
  <2> HIDE DEF h
  <2> QED BY <1>1, <2>1
<1> HIDE DEF h
<1>3. h > 0 /\ h <= Radix
  BY <1>1, <1>2
<1>4. Power[1] = Radix /\ Power[2] = Radix * Radix /\ Power[3] = (Radix * Radix) * Radix
  <2>1. 0 \in 0 .. TargetDigits /\ 1 \in 0 .. TargetDigits /\ 2 \in 0 .. TargetDigits
    BY <1>1
  <2>2. Power[0 + 1] = Power[0] * Radix /\ Power[1 + 1] = Power[1] * Radix /\ Power[2 + 1] = Power[2] * Radix
    BY <2>1, PowersRun
  <2>3. Power[0] = 1
    BY PowersRun
  <2> QED BY <1>1, <2>2, <2>3
<1> DEFINE u == Radix * h
           v == Radix * Radix
           w == Radix * u
<1>5. u \in Nat /\ v \in Nat /\ w \in Nat /\ u > 0
  BY <1>1, <1>2, <1>3
<1>6. v = 2 * u
  BY <1>1, <1>2
<1>7. u <= v
  BY <1>5, <1>6
<1>8. v <= w
  <2>1. w = v * h
    BY <1>1, <1>2
  <2>2. v * 1 <= v * h
    BY <1>2, <1>3, <1>5, TimesMonotone
  <2> QED BY <1>5, <2>1, <2>2
<1>9. Power[3] = w * 2 /\ w > 0
  <2>1. (Radix * Radix) * Radix = Radix * v
    BY <1>1
  <2>2. Radix * (2 * u) = w * 2
    BY <1>1, <1>5
  <2>3. w > 0
    BY <1>1, <1>5
  <2> HIDE DEF u, v, w
  <2> QED BY <1>4, <1>6, <2>1, <2>2, <2>3 DEF v
<1>10. SignBit = w
  <2>1. (w * 2) \div 2 = w
    <3> HIDE DEF w
    <3> QED BY <1>5, TimesDiv
  <2> QED BY <1>9, <2>1 DEF SignBit
<1>11. w < Power[3]
  <2> HIDE DEF w
  <2> QED BY <1>5, <1>9
<1> QED BY <1>2, <1>3, <1>4, <1>5, <1>7, <1>8, <1>10, <1>11

\* What can be written: a mantissa without the sign, so many digits up.
Written(t, k, m) ==
  /\ k \in 0 .. TargetDigits - 2 /\ m \in Nat /\ m < SignBit /\ t = m * Power[k]

\* Bits that stand for a target stand for one that can be written.
LEMMA TargetsAreWritten ==
  ASSUME BitsAssumption, NEW bits \in Compact, bitsToTarget(bits) # NoTarget
  PROVE  /\ bitsToTarget(bits) \in Nat /\ bitsToTarget(bits) < Power[TargetDigits]
         /\ \E k, m : Written(bitsToTarget(bits), k, m)
<1> DEFINE e == bits.exponent
           m == bits.mantissa
           t == IF e <= 3 THEN m \div Power[3 - e] ELSE m * Power[e - 3]
<1>1. /\ TargetDigits \in Nat /\ TargetDigits >= 3
      /\ Power[3] \in Nat /\ Power[0] = 1 /\ SignBit \in Nat
  <2>1. TargetDigits \in Nat /\ TargetDigits >= 3
    BY DEF BitsAssumption
  <2>2. 3 \in 0 .. TargetDigits + 1
    BY <2>1
  <2> QED BY <2>1, <2>2, PowersRun, SignIs
<1>2. e \in 0 .. TargetDigits + 1 /\ m \in Nat
  BY <1>1 DEF Compact
<1>3. bitsToTarget(bits) = IF m >= SignBit \/ t >= Power[TargetDigits] THEN NoTarget ELSE t
  BY DEF bitsToTarget
<1> HIDE DEF e, m
<1>4. bitsToTarget(bits) = t /\ ~ (m >= SignBit) /\ ~ (t >= Power[TargetDigits])
  BY <1>3
<1>5. Power[TargetDigits] \in Nat
  <2>1. TargetDigits \in 0 .. TargetDigits + 1
    BY <1>1
  <2> QED BY <2>1, PowersRun
<1>6. CASE e <= 3
  <2> DEFINE b == Power[3 - e]
  <2>1. b \in Nat /\ b > 0
    <3>1. 3 - e \in 0 .. TargetDigits + 1
      BY <1>1, <1>2, <1>6
    <3> QED BY <3>1, PowersRun
  <2>2. t = m \div b
    BY <1>6
  <2> HIDE DEF b, t
  <2>3. t \in Nat /\ b * t <= m /\ b * t \in Nat
    BY <1>2, <2>1, <2>2, DivBounds
  <2>4. t <= b * t
    <3>1. t * 1 <= t * b /\ t * 1 = t /\ t * b = b * t
      <4>1. 1 \in Nat /\ 1 <= b
        BY <2>1
      <4>2. t * 1 <= t * b
        BY <2>1, <2>3, <4>1, TimesMonotone
      <4> QED BY <2>1, <2>3, <4>2
    <3> QED BY <3>1
  <2>5. t < SignBit
    BY <1>1, <1>2, <1>4, <2>3, <2>4
  <2>6. Written(t, 0, t)
    <3>1. 0 \in 0 .. TargetDigits - 2 /\ t = t * 1
      BY <1>1, <2>3
    <3> QED BY <1>1, <2>3, <2>5, <3>1 DEF Written
  <2> QED BY <1>4, <1>5, <2>3, <2>6
<1>7. CASE ~ (e <= 3)
  <2> DEFINE k == e - 3
  <2>1. k \in 0 .. TargetDigits - 2 /\ k \in 0 .. TargetDigits + 1
    BY <1>1, <1>2, <1>7
  <2>2. t = m * Power[k]
    BY <1>7
  <2>3. Power[k] \in Nat
    BY <2>1, PowersRun
  <2> HIDE DEF k, t
  <2>4. t \in Nat
    BY <1>2, <2>2, <2>3
  <2>5. m < SignBit
    BY <1>1, <1>2, <1>4
  <2>6. Written(t, k, m)
    BY <1>2, <2>1, <2>2, <2>5 DEF Written
  <2> QED BY <1>4, <1>5, <2>4, <2>6
<1> QED BY <1>6, <1>7

\* Rounding down to so many digits: the quotient is a mantissa, with a top digit.
RoundedTo(target, t, k, m) ==
  /\ Written(t, k, m) /\ m = target \div Power[k]
  /\ k > 0 => \A u \in Nat : SignBit = Radix * u => u <= m
  /\ k = 0 => m = target

\* The digits of a target.
LEMMA SizeFacts ==
  ASSUME BitsAssumption, NEW target \in Nat, target < Power[TargetDigits]
  PROVE  /\ SizeOf(target) \in 0 .. TargetDigits /\ target < Power[SizeOf(target)]
         /\ SizeOf(target) > 0 => Power[SizeOf(target) - 1] <= target
<1> DEFINE T == {n \in 0 .. TargetDigits : target < Power[n]}
<1>1. TargetDigits \in Nat
  BY DEF BitsAssumption
<1>2. TargetDigits \in T /\ T \in SUBSET Nat
  BY <1>1
<1>3. PICK n \in T : \A i \in T : n <= i
  <2> HIDE DEF T
  <2> QED BY <1>2, LeastNatural
<1>4. SizeOf(target) = n
  <2>1. \A x \in T : (\A y \in T : x <= y) => x = n
    <3> TAKE x \in T
    <3> HAVE \A y \in T : x <= y
    <3>1. x \in Nat /\ n \in Nat
      BY <1>2
    <3> HIDE DEF T
    <3>2. x <= n /\ n <= x
      BY <1>3
    <3> QED BY <3>1, <3>2
  <2>2. SizeOf(target) = Min(T)
    BY DEF SizeOf
  <2> HIDE DEF T
  <2> QED BY <1>3, <2>1, <2>2 DEF Min
<1>5. n \in 0 .. TargetDigits /\ target < Power[n]
  OBVIOUS
<1>6. ASSUME n > 0 PROVE Power[n - 1] <= target
  <2>1. n - 1 \in 0 .. TargetDigits /\ n - 1 \in 0 .. TargetDigits + 1 /\ ~ (n <= n - 1)
    BY <1>1, <1>5, <1>6
  <2>2. ~ (target < Power[n - 1])
    BY <1>3, <2>1
  <2>3. Power[n - 1] \in Nat
    BY <2>1, PowersRun
  <2> QED BY <2>2, <2>3
<1> QED BY <1>4, <1>5, <1>6

\* targetToBits, case by case, read back.
LEMMA ReadsBack ==
  ASSUME BitsAssumption, NEW target \in Nat, target < Power[TargetDigits],
         NEW e \in 0 .. TargetDigits + 1, NEW m \in Nat, m < SignBit, m < Power[3],
         NEW t \in Nat, t <= target,
         t = IF e <= 3 THEN m \div Power[3 - e] ELSE m * Power[e - 3]
  PROVE  /\ [exponent |-> e, mantissa |-> m] \in Compact
         /\ bitsToTarget([exponent |-> e, mantissa |-> m]) = t
<1>1. Power[TargetDigits] \in Nat /\ Power[3] \in Nat /\ SignBit \in Nat
  <2>1. TargetDigits \in 0 .. TargetDigits + 1 /\ 3 \in 0 .. TargetDigits + 1
    BY DEF BitsAssumption
  <2> QED BY <2>1, PowersRun, SignIs
<1>2. ~ (m >= SignBit) /\ ~ (t >= Power[TargetDigits])
  BY <1>1
<1>3. m \in 0 .. Power[3] - 1
  BY <1>1
<1>4. [exponent |-> e, mantissa |-> m] \in Compact
  BY <1>3 DEF Compact
<1>5. bitsToTarget([exponent |-> e, mantissa |-> m]) = t
  BY <1>2 DEF bitsToTarget
<1> QED BY <1>4, <1>5

\* A target of no more than three digits.
LEMMA ShortTarget ==
  ASSUME BitsAssumption, NEW target \in Nat, target < Power[TargetDigits], SizeOf(target) <= 3
  PROVE  /\ targetToBits(target) \in Compact
         /\ \E k, m : RoundedTo(target, bitsToTarget(targetToBits(target)), k, m)
<1> DEFINE n == SizeOf(target)
           D == TargetDigits
           b == Power[3 - n]
           c == Mantissa(target, n)
<1>1. n \in 0 .. D /\ target < Power[n] /\ D \in Nat /\ D >= 3 /\ n <= 3
  BY SizeFacts DEF BitsAssumption
<1>2. c = target * b
  BY DEF Mantissa
<1>3. /\ c >= SignBit => targetToBits(target) = [exponent |-> n + 1, mantissa |-> c \div Radix]
      /\ c < SignBit => targetToBits(target) = [exponent |-> n, mantissa |-> c]
  <2>1. SignBit \in Nat /\ c \in Nat
    <3>1. b \in Nat
      <4>1. 3 - n \in 0 .. D + 1
        BY <1>1
      <4> QED BY <4>1, PowersRun
    <3> QED BY <1>2, <3>1, SignIs
  <2> DEFINE ToBits == IF c >= SignBit THEN [exponent |-> n + 1, mantissa |-> c \div Radix]
                                       ELSE [exponent |-> n, mantissa |-> c]
  <2>2. targetToBits(target) = ToBits
    BY DEF targetToBits
  <2> HIDE DEF c, n
  <2>3. c < SignBit => ~ (c >= SignBit)
    BY <2>1
  <2> QED BY <2>2, <2>3
<1> HIDE DEF n, c
<1>4. /\ b \in Nat /\ b > 0 /\ Power[n] \in Nat /\ Power[n] * b = Power[3] /\ Power[3] \in Nat
      /\ Power[0] = 1 /\ Radix \in Nat /\ Radix > 0
  <2>1. 3 - n \in 0 .. D + 1 /\ n \in 0 .. D + 1 /\ 3 - n \in Nat /\ n \in Nat /\ n + (3 - n) = 3
        /\ 3 <= D + 1 /\ 3 \in 0 .. D + 1
    BY <1>1
  <2>2. Power[n + (3 - n)] = Power[n] * Power[3 - n]
    BY <2>1, PowersAdd
  <2> QED BY <2>1, <2>2, PowersRun DEF BitsAssumption
<1>5. PICK half \in Nat :
           /\ half > 0 /\ Radix = 2 * half
           /\ Power[1] = Radix /\ Power[2] = Radix * Radix /\ Power[3] = (Radix * Radix) * Radix
           /\ SignBit = Radix * (Radix * half) /\ Radix * half \in Nat /\ SignBit \in Nat
           /\ Radix * half <= Radix * Radix /\ Radix * Radix <= SignBit /\ SignBit < Power[3]
  BY SignIs
<1> HIDE DEF b
<1>6. c \in Nat /\ c < Power[3] /\ target <= c
  <2>1. b * target < b * Power[n]
    <3>1. b * (target + 1) <= b * Power[n]
      <4>1. target + 1 \in Nat /\ target + 1 <= Power[n]
        BY <1>1, <1>4
      <4> QED BY <1>4, <4>1, TimesMonotone
    <3>2. b * (target + 1) = b * target + b /\ b * target \in Nat /\ b * Power[n] \in Nat
      BY <1>4
    <3> QED BY <1>4, <3>1, <3>2
  <2>2. b * target = target * b /\ b * Power[n] = Power[n] * b /\ target * b \in Nat
    BY <1>4
  <2>3. target * 1 <= target * b /\ target * 1 = target
    <3>1. 1 \in Nat /\ 1 <= b
      BY <1>4
    <3>2. target * 1 <= target * b
      BY <1>4, <3>1, TimesMonotone
    <3> QED BY <3>2
  <2> QED BY <1>2, <1>4, <2>1, <2>2, <2>3
<1>7. target < SignBit => RoundedTo(target, target, 0, target)
  <2> HAVE target < SignBit
  <2>1. 0 \in 0 .. D - 2 /\ target = target * 1
    BY <1>1
  <2>2. target \div 1 = target
    <3>1. (target * 1) \div 1 = target
      BY TimesDiv
    <3> QED BY <2>1, <3>1
  <2> QED BY <1>4, <2>1, <2>2 DEF RoundedTo, Written
<1>8. CASE c < SignBit
  <2>1. c \div b = target
    BY <1>2, <1>4, TimesDiv
  <2>2. n \in 0 .. D + 1 /\ target <= target
    BY <1>1
  <2>3. target = IF n <= 3 THEN c \div Power[3 - n] ELSE c * Power[n - 3]
    BY <1>1, <2>1 DEF b
  <2>4. /\ [exponent |-> n, mantissa |-> c] \in Compact
        /\ bitsToTarget([exponent |-> n, mantissa |-> c]) = target
    BY <1>6, <1>8, <2>2, <2>3, ReadsBack
  <2>5. target < SignBit
    BY <1>5, <1>6, <1>8
  <2> QED BY <1>3, <1>7, <1>8, <2>4, <2>5
<1>9. CASE c >= SignBit /\ n < 3
  <2> DEFINE d == Power[2 - n]
             m == target * d
  <2>1. /\ 2 - n \in 0 .. D /\ 2 - n \in Nat /\ (2 - n) + 1 = 3 - n /\ n \in Nat /\ n + (2 - n) = 2
        /\ 2 <= D + 1 /\ n + 1 \in 0 .. D + 1 /\ n + 1 <= 3 /\ 3 - (n + 1) = 2 - n
        /\ 2 - n \in 0 .. D + 1
    BY <1>1, <1>9
  <2>2. b = d * Radix /\ d \in Nat /\ d > 0
    <3>1. Power[(2 - n) + 1] = Power[2 - n] * Radix
      BY <2>1, PowersRun
    <3>2. d \in Nat /\ d > 0
      BY <2>1, PowersRun
    <3> QED BY <2>1, <3>1, <3>2 DEF b
  <2>3. Power[n] * d = Radix * Radix
    <3>1. Power[n + (2 - n)] = Power[n] * Power[2 - n]
      BY <2>1, PowersAdd
    <3> QED BY <1>5, <2>1, <3>1
  <2>4. c \div Radix = m /\ m \in Nat
    <3>1. m \in Nat /\ target * (d * Radix) = m * Radix
      BY <1>4, <2>2
    <3> HIDE DEF m
    <3>2. (m * Radix) \div Radix = m
      BY <1>4, <3>1, TimesDiv
    <3> QED BY <1>2, <2>2, <3>1, <3>2
  <2>5. m \div d = target
    BY <2>2, TimesDiv
  <2>6. m < SignBit /\ m < Power[3] /\ target <= m
    <3>1. d * target < d * Power[n]
      <4>1. d * (target + 1) <= d * Power[n]
        <5>1. target + 1 \in Nat /\ target + 1 <= Power[n]
          BY <1>1, <1>4
        <5> QED BY <1>4, <2>2, <5>1, TimesMonotone
      <4>2. d * (target + 1) = d * target + d /\ d * target \in Nat /\ d * Power[n] \in Nat
        BY <1>4, <2>2
      <4> QED BY <2>2, <4>1, <4>2
    <3>2. d * target = m /\ d * Power[n] = Power[n] * d
      BY <1>4, <2>2
    <3>3. target * 1 <= target * d /\ target * 1 = target
      <4>1. 1 \in Nat /\ 1 <= d
        BY <2>2
      <4>2. target * 1 <= target * d
        BY <2>2, <4>1, TimesMonotone
      <4> QED BY <4>2
    <3>4. m < Radix * Radix
      BY <2>3, <3>1, <3>2
    <3>5. Radix * Radix \in Nat
      BY <1>4
    <3> HIDE DEF d
    <3> QED BY <1>4, <1>5, <2>4, <3>3, <3>4, <3>5
  <2> HIDE DEF m
  <2>7. target = IF n + 1 <= 3 THEN m \div Power[3 - (n + 1)] ELSE m * Power[(n + 1) - 3]
    BY <2>1, <2>5
  <2>8. /\ [exponent |-> n + 1, mantissa |-> m] \in Compact
        /\ bitsToTarget([exponent |-> n + 1, mantissa |-> m]) = target
    <3>1. n + 1 \in 0 .. D + 1 /\ target <= target
      BY <2>1
    <3> HIDE DEF d
    <3> QED BY <2>4, <2>6, <2>7, <3>1, ReadsBack
  <2>9. target < SignBit
    <3> HIDE DEF d
    <3> QED BY <1>5, <2>4, <2>6
  <2> QED BY <1>3, <1>7, <1>9, <2>4, <2>8, <2>9
<1>10. CASE c >= SignBit /\ n = 3
  <2> DEFINE m == target \div Radix
             t == m * Radix
  <2>1. c = target
    <3>1. 3 - n = 0
      BY <1>10
    <3> QED BY <1>2, <1>4, <3>1 DEF b
  <2>2. target < Radix * (Radix * Radix) /\ Radix * Radix \in Nat
    <3>1. Radix * (Radix * Radix) = (Radix * Radix) * Radix /\ Radix * Radix \in Nat
      BY <1>4
    <3> QED BY <1>5, <1>6, <2>1, <3>1
  <2>3. m \in Nat /\ m < Radix * Radix
    BY <1>4, <2>2, DivBounds
  <2>4. Radix * m <= target
    BY <1>4, DivBounds
  <2>5. \A u \in Nat : SignBit = Radix * u => u <= m
    <3> TAKE u \in Nat
    <3> HAVE SignBit = Radix * u
    <3>1. Radix * u <= target
      BY <1>10, <2>1
    <3> QED BY <1>4, <3>1, DivBounds
  <2> HIDE DEF m
  <2>6. t \in Nat /\ t <= target
    BY <1>4, <2>3, <2>4
  <2>7. m < SignBit /\ m < Power[3]
    BY <1>4, <1>5, <2>2, <2>3
  <2>8. t = IF n + 1 <= 3 THEN m \div Power[3 - (n + 1)] ELSE m * Power[(n + 1) - 3]
    <3>1. ~ (n + 1 <= 3) /\ (n + 1) - 3 = 1
      BY <1>10
    <3> QED BY <1>5, <3>1
  <2>9. /\ [exponent |-> n + 1, mantissa |-> m] \in Compact
        /\ bitsToTarget([exponent |-> n + 1, mantissa |-> m]) = t
    <3>1. n + 1 \in 0 .. D + 1
      BY <1>1
    <3> HIDE DEF t
    <3> QED BY <2>3, <2>6, <2>7, <2>8, <3>1, ReadsBack
  <2>10. RoundedTo(target, t, 1, m)
    <3>1. 1 \in 0 .. D - 2
      BY <1>1
    <3> QED BY <1>5, <2>3, <2>5, <2>7, <3>1 DEF RoundedTo, Written, m
  <2>11. targetToBits(target) = [exponent |-> n + 1, mantissa |-> m]
    BY <1>3, <1>10, <2>1 DEF m
  <2> QED BY <2>9, <2>10, <2>11
<1>11. n < 3 \/ n = 3
  BY <1>1
<1> QED BY <1>5, <1>6, <1>8, <1>9, <1>10, <1>11

\* A longer one.
LEMMA LongTarget ==
  ASSUME BitsAssumption, NEW target \in Nat, target < Power[TargetDigits], ~ (SizeOf(target) <= 3)
  PROVE  /\ targetToBits(target) \in Compact
         /\ \E k, m : RoundedTo(target, bitsToTarget(targetToBits(target)), k, m)
<1> DEFINE n == SizeOf(target)
           D == TargetDigits
           b == Power[n - 3]
           c == Mantissa(target, n)
<1>1. /\ n \in 0 .. D /\ target < Power[n] /\ D \in Nat /\ D >= 3 /\ ~ (n <= 3)
      /\ n > 0 => Power[n - 1] <= target
  BY SizeFacts DEF BitsAssumption
<1>2. c = target \div b
  BY DEF Mantissa
<1> DEFINE ToBits == IF c >= SignBit THEN [exponent |-> n + 1, mantissa |-> c \div Radix]
                                     ELSE [exponent |-> n, mantissa |-> c]
<1>3. targetToBits(target) = ToBits
  BY DEF targetToBits
<1> HIDE DEF n, c
<1>4. /\ n - 3 \in 0 .. D + 1 /\ n - 3 \in 0 .. D - 2 /\ n - 3 \in Nat /\ n - 3 > 0 /\ n > 0
      /\ (n - 3) + 3 = n /\ (n - 3) + 2 = n - 1 /\ n <= D + 1 /\ n - 1 <= D + 1
      /\ n - 2 \in 0 .. D - 2 /\ (n - 3) + 1 = n - 2 /\ n - 3 \in 0 .. D /\ n - 2 \in 0 .. D + 1
      /\ n \in 0 .. D + 1 /\ n + 1 \in 0 .. D + 1 /\ ~ (n + 1 <= 3) /\ (n + 1) - 3 = n - 2 /\ n - 2 > 0
  BY <1>1
<1>5. PICK half \in Nat :
           /\ half > 0 /\ Radix = 2 * half
           /\ Power[1] = Radix /\ Power[2] = Radix * Radix /\ Power[3] = (Radix * Radix) * Radix
           /\ SignBit = Radix * (Radix * half) /\ Radix * half \in Nat /\ SignBit \in Nat
           /\ Radix * half <= Radix * Radix /\ Radix * Radix <= SignBit /\ SignBit < Power[3]
  BY SignIs
<1>6. /\ b \in Nat /\ b > 0 /\ Power[n] = b * Power[3] /\ Power[n - 1] = b * Power[2]
      /\ Power[n - 2] = b * Radix /\ Power[2] \in Nat /\ Power[3] \in Nat
      /\ Radix \in Nat /\ Radix > 0
  <2>1. 2 \in 0 .. D + 1 /\ 3 \in 0 .. D + 1 /\ 2 \in Nat /\ 3 \in Nat
    BY <1>1
  <2>2. Power[(n - 3) + 3] = Power[n - 3] * Power[3]
    BY <1>4, <2>1, PowersAdd
  <2>3. Power[(n - 3) + 2] = Power[n - 3] * Power[2]
    BY <1>4, <2>1, PowersAdd
  <2>4. Power[(n - 3) + 1] = Power[n - 3] * Radix
    BY <1>4, PowersRun
  <2>5. Power[2] \in Nat /\ Power[3] \in Nat /\ Power[n - 3] \in Nat /\ Power[n - 3] > 0
    BY <1>4, <2>1, PowersRun
  <2> QED BY <1>4, <2>2, <2>3, <2>4, <2>5 DEF BitsAssumption
<1> HIDE DEF b
<1>7. c \in Nat /\ c < Power[3] /\ Power[2] <= c /\ b * c <= target /\ b * c \in Nat
  BY <1>1, <1>2, <1>4, <1>6, DivBounds
<1>8. CASE c < SignBit
  <2> DEFINE t == c * b
  <2>1. t \in Nat /\ t <= target
    BY <1>6, <1>7
  <2>2. t = IF n <= 3 THEN c \div Power[3 - n] ELSE c * Power[n - 3]
    BY <1>1 DEF b
  <2>3. /\ [exponent |-> n, mantissa |-> c] \in Compact
        /\ bitsToTarget([exponent |-> n, mantissa |-> c]) = t
    <3> HIDE DEF t
    <3> QED BY <1>4, <1>7, <1>8, <2>1, <2>2, ReadsBack
  <2>4. targetToBits(target) = [exponent |-> n, mantissa |-> c]
    <3>1. ~ (c >= SignBit)
      BY <1>5, <1>7, <1>8
    <3> QED BY <1>3, <3>1
  <2>5. \A u \in Nat : SignBit = Radix * u => u <= c
    <3> TAKE u \in Nat
    <3> HAVE SignBit = Radix * u
    <3>1. Radix * u <= Radix * c
      <4>1. Radix * (Radix * half) <= Radix * c
        <5>1. Radix * half <= c
          BY <1>5, <1>6, <1>7
        <5> QED BY <1>5, <1>6, <1>7, <5>1, TimesMonotone
      <4> QED BY <1>5, <4>1
    <3>2. ~ (c < u)
      <4> SUFFICES ASSUME c < u PROVE FALSE
        OBVIOUS
      <4>1. Radix * (c + 1) <= Radix * u
        <5>1. c + 1 \in Nat /\ c + 1 <= u
          BY <1>7
        <5> QED BY <1>6, <5>1, TimesMonotone
      <4>2. Radix * (c + 1) = Radix * c + Radix /\ Radix * c \in Nat /\ Radix * u \in Nat
        BY <1>6, <1>7
      <4> QED BY <1>6, <3>1, <4>1, <4>2
    <3> QED BY <1>7, <3>2
  <2>6. RoundedTo(target, t, n - 3, c)
    BY <1>2, <1>4, <1>7, <1>8, <2>5 DEF RoundedTo, Written, b
  <2> QED BY <2>3, <2>4, <2>6
<1>9. CASE c >= SignBit
  <2> DEFINE m == c \div Radix
             t == m * Power[n - 2]
  <2>1. m = target \div Power[n - 2]
    <3>1. (target \div b) \div Radix = target \div (b * Radix)
      BY <1>6, DivTwice
    <3> QED BY <1>2, <1>6, <3>1
  <2>2. c < Radix * (Radix * Radix) /\ Radix * Radix \in Nat
    <3>1. Radix * (Radix * Radix) = (Radix * Radix) * Radix /\ Radix * Radix \in Nat
      BY <1>6
    <3> QED BY <1>5, <1>7, <3>1
  <2>3. m \in Nat /\ m < Radix * Radix
    BY <1>6, <1>7, <2>2, DivBounds
  <2>4. \A u \in Nat : SignBit = Radix * u => u <= m
    <3> TAKE u \in Nat
    <3> HAVE SignBit = Radix * u
    <3>1. Radix * u <= c
      BY <1>9
    <3> QED BY <1>6, <1>7, <3>1, DivBounds
  <2>5. Power[n - 2] \in Nat /\ Power[n - 2] > 0
    BY <1>4, PowersRun
  <2>6. Power[n - 2] * m <= target
    BY <2>1, <2>3, <2>5, DivBounds
  <2> HIDE DEF m
  <2>7. t \in Nat /\ t <= target
    BY <2>3, <2>5, <2>6
  <2>8. m < SignBit /\ m < Power[3]
    BY <1>5, <1>6, <2>2, <2>3
  <2>9. t = IF n + 1 <= 3 THEN m \div Power[3 - (n + 1)] ELSE m * Power[(n + 1) - 3]
    BY <1>4
  <2>10. /\ [exponent |-> n + 1, mantissa |-> m] \in Compact
         /\ bitsToTarget([exponent |-> n + 1, mantissa |-> m]) = t
    <3> HIDE DEF t
    <3> QED BY <1>4, <2>3, <2>7, <2>8, <2>9, ReadsBack
  <2>11. RoundedTo(target, t, n - 2, m)
    BY <1>4, <2>1, <2>3, <2>4, <2>8 DEF RoundedTo, Written
  <2>12. targetToBits(target) = [exponent |-> n + 1, mantissa |-> m]
    BY <1>3, <1>9 DEF m
  <2> QED BY <2>10, <2>11, <2>12
<1> QED BY <1>5, <1>7, <1>8, <1>9

\* targetToBits rounds down to a target that can be written, and reads back as it.
LEMMA RoundsDown ==
  ASSUME BitsAssumption, NEW target \in Nat, target < Power[TargetDigits]
  PROVE  /\ targetToBits(target) \in Compact
         /\ bitsToTarget(targetToBits(target)) \in Nat
         /\ bitsToTarget(targetToBits(target)) <= target
         /\ \E k, m : RoundedTo(target, bitsToTarget(targetToBits(target)), k, m)
<1> DEFINE t == bitsToTarget(targetToBits(target))
<1>1. targetToBits(target) \in Compact /\ \E k, m : RoundedTo(target, t, k, m)
  BY ShortTarget, LongTarget
<1> HIDE DEF t
<1>2. PICK k, m : RoundedTo(target, t, k, m)
  BY <1>1
<1>3. k \in 0 .. TargetDigits - 2 /\ m \in Nat /\ t = m * Power[k] /\ m = target \div Power[k]
  BY <1>2 DEF RoundedTo, Written
<1>4. Power[k] \in Nat /\ Power[k] > 0
  <2>1. k \in 0 .. TargetDigits + 1
    BY <1>3 DEF BitsAssumption
  <2> QED BY <2>1, PowersRun
<1>5. Power[k] * m <= target /\ Power[k] * m \in Nat
  BY <1>3, <1>4, DivBounds
<1>6. t \in Nat /\ t <= target
  BY <1>3, <1>4, <1>5
<1> QED BY <1>1, <1>6 DEF t

\* Nothing between: what can be written and is not above is not above the rounded target.
LEMMA RoundedIsLargest ==
  ASSUME BitsAssumption, NEW target \in Nat, NEW t, NEW k, NEW m, RoundedTo(target, t, k, m),
         NEW s \in Nat, NEW j, NEW l, Written(s, j, l), s <= target
  PROVE  s <= t
<1>1. /\ k \in 0 .. TargetDigits - 2 /\ m \in Nat /\ t = m * Power[k] /\ m = target \div Power[k]
      /\ j \in 0 .. TargetDigits - 2 /\ l \in Nat /\ l < SignBit /\ s = l * Power[j]
  BY DEF RoundedTo, Written
<1>2. /\ k \in 0 .. TargetDigits + 1 /\ k \in Nat /\ j \in 0 .. TargetDigits + 1 /\ j \in Nat
      /\ j \in 0 .. TargetDigits /\ TargetDigits \in Nat
  BY <1>1 DEF BitsAssumption
<1>3. Power[k] \in Nat /\ Power[k] > 0 /\ Power[j] \in Nat /\ Power[j] > 0
  BY <1>2, PowersRun
<1>4. CASE j >= k
  <2> DEFINE p == Power[k]
             r == Power[j - k]
             c == l * r
  <2>1. j - k \in 0 .. TargetDigits + 1 /\ j - k \in Nat /\ k + (j - k) = j /\ j <= TargetDigits + 1
    BY <1>2, <1>4
  <2>2. Power[k + (j - k)] = Power[k] * Power[j - k]
    BY <1>2, <2>1, PowersAdd
  <2>3. r \in Nat /\ Power[j] = p * r
    BY <2>1, <2>2, PowersRun
  <2> HIDE DEF r, p
  <2>4. c \in Nat /\ s = p * c
    <3>1. l * (p * r) = p * (l * r)
      BY <1>1, <1>3, <2>3 DEF p
    <3> QED BY <1>1, <2>3, <3>1
  <2> HIDE DEF c
  <2>5. c <= m
    BY <1>1, <1>3, <2>4, DivBounds DEF p
  <2>6. p * c <= p * m
    BY <1>1, <1>3, <2>4, <2>5, TimesMonotone DEF p
  <2>7. p * m = t
    BY <1>1, <1>3 DEF p
  <2> QED BY <2>4, <2>6, <2>7
<1>5. CASE j < k
  <2>1. PICK half \in Nat : half > 0 /\ SignBit = Radix * (Radix * half) /\ Radix * half \in Nat
    BY SignIs
  <2> DEFINE u == Radix * half
             p == Power[j + 1]
             r == Power[k - (j + 1)]
  <2>2. Radix \in Nat /\ Radix > 0 /\ u \in Nat /\ SignBit = Radix * u
    BY <2>1 DEF BitsAssumption
  <2> HIDE DEF u
  <2>3. u <= m
    BY <1>1, <1>2, <1>5, <2>2 DEF RoundedTo
  <2>4. /\ j + 1 \in 0 .. TargetDigits + 1 /\ k - (j + 1) \in 0 .. TargetDigits + 1
        /\ j + 1 \in Nat /\ k - (j + 1) \in Nat
        /\ (j + 1) + (k - (j + 1)) = k /\ k <= TargetDigits + 1
    BY <1>2, <1>5
  <2>5. Power[(j + 1) + (k - (j + 1))] = p * r
    BY <2>4, PowersAdd
  <2>6. /\ Power[k] = p * r /\ p = Power[j] * Radix
        /\ p \in Nat /\ p > 0 /\ r \in Nat /\ r > 0
    BY <1>2, <2>4, <2>5, PowersRun
  <2> HIDE DEF p, r
  <2>7. l * Power[j] <= SignBit * Power[j] /\ SignBit * Power[j] = u * p
    <3>1. SignBit \in Nat /\ Power[j] * l <= Power[j] * SignBit
      <4>1. SignBit \in Nat /\ l <= SignBit
        BY <1>1, <2>2
      <4> QED BY <1>1, <1>3, <4>1, TimesMonotone
    <3>2. (Radix * u) * Power[j] = u * (Power[j] * Radix)
      BY <1>3, <2>2
    <3>3. Power[j] * l = l * Power[j] /\ Power[j] * SignBit = SignBit * Power[j]
      BY <1>1, <1>3, <3>1
    <3> QED BY <2>2, <2>6, <3>1, <3>2, <3>3
  <2>8. u * p <= u * Power[k]
    <3>1. p * 1 <= p * r /\ p * 1 = p
      <4>1. 1 \in Nat /\ 1 <= r
        BY <2>6
      <4>2. p * 1 <= p * r
        BY <2>6, <4>1, TimesMonotone
      <4> QED BY <2>6, <4>2
    <3>2. p <= Power[k]
      BY <2>6, <3>1
    <3> QED BY <1>3, <2>2, <2>6, <3>2, TimesMonotone
  <2>9. Power[k] * u <= Power[k] * m /\ Power[k] * u = u * Power[k] /\ Power[k] * m = t
    <3>1. Power[k] * u <= Power[k] * m
      BY <1>1, <1>3, <2>2, <2>3, TimesMonotone
    <3> QED BY <1>1, <1>3, <2>2, <3>1
  <2>10. u * p \in Nat /\ u * Power[k] \in Nat /\ t \in Nat
    BY <1>1, <1>3, <2>2, <2>6
  <2> QED BY <1>1, <2>7, <2>8, <2>9, <2>10
<1> QED BY <1>2, <1>4, <1>5

\* The lesser, and the greater, of two numbers.
LEMMA LesserOf ==
  ASSUME NEW a \in Int, NEW b \in Int
  PROVE  Min({a, b}) = IF a <= b THEN a ELSE b
<1>1. CASE a <= b
  <2>1. \A x \in {a, b} : (\A y \in {a, b} : x <= y) => x = a
    BY <1>1
  <2> QED BY <1>1, <2>1 DEF Min
<1>2. CASE ~ (a <= b)
  <2>1. \A x \in {a, b} : (\A y \in {a, b} : x <= y) => x = b
    BY <1>2
  <2>2. \A y \in {a, b} : b <= y
    BY <1>2
  <2> QED BY <1>2, <2>1, <2>2 DEF Min
<1> QED BY <1>1, <1>2

LEMMA GreaterOf ==
  ASSUME NEW a \in Int, NEW b \in Int
  PROVE  Max({a, b}) = IF a >= b THEN a ELSE b
<1>1. CASE a >= b
  <2>1. \A x \in {a, b} : (\A y \in {a, b} : x >= y) => x = a
    BY <1>1
  <2> QED BY <1>1, <2>1 DEF Max
<1>2. CASE ~ (a >= b)
  <2>1. \A x \in {a, b} : (\A y \in {a, b} : x >= y) => x = b
    BY <1>2
  <2>2. \A y \in {a, b} : b >= y
    BY <1>2
  <2> QED BY <1>2, <2>1, <2>2 DEF Max
<1> QED BY <1>1, <1>2

\* A period counts for a quarter of its span at least, and for four times at most.
LEMMA ClampedIs ==
  ASSUME BitsAssumption, NEW timespan \in Int
  PROVE  \E q \in Nat : /\ q > 0 /\ targetTimespan = 4 * q
                        /\ Clamped(timespan) = IF timespan <= q THEN q
                                               ELSE IF timespan >= 16 * q THEN 16 * q ELSE timespan
<1> DEFINE q == targetTimespan \div 4
           r == targetTimespan % 4
<1>1. targetTimespan \in Nat /\ targetTimespan > 0 /\ r = 0
  BY DEF BitsAssumption
<1>2. q \in Nat /\ r \in Nat /\ targetTimespan = 4 * q + r
  BY <1>1, DivMod
<1>3. Clamped(timespan) = Max({q, Min({targetTimespan * 4, timespan})})
  BY DEF Clamped
<1> HIDE DEF q, r
<1>4. q > 0 /\ targetTimespan = 4 * q /\ targetTimespan * 4 = 16 * q /\ 16 * q \in Int /\ q <= 16 * q
  BY <1>1, <1>2
<1>5. Min({targetTimespan * 4, timespan}) = IF 16 * q <= timespan THEN 16 * q ELSE timespan
  BY <1>4, LesserOf
<1> DEFINE least == IF 16 * q <= timespan THEN 16 * q ELSE timespan
<1>6. least \in Int /\ Clamped(timespan) = Max({q, least})
  BY <1>3, <1>4, <1>5
<1>7. Max({q, least}) = IF q >= least THEN q ELSE least
  <2> HIDE DEF least
  <2> QED BY <1>2, <1>6, GreaterOf
<1>8. Clamped(timespan) = IF timespan <= q THEN q
                          ELSE IF timespan >= 16 * q THEN 16 * q ELSE timespan
  BY <1>2, <1>4, <1>6, <1>7
<1> QED BY <1>2, <1>4, <1>8

\* What a period's end may make of the target: no more than the limit, four times the
\* old one, and, if the old one is not fourfold, than the scaled one.
MayFollow(t, target, timespan) ==
  /\ t <= bitsToTarget(powLimitBits)
  /\ t <= 4 * target
  /\ \/ 4 * t <= target
     \/ t * targetTimespan <= target * timespan

\* The clamped product says just that.
LEMMA ScaledBounds ==
  ASSUME BitsAssumption, NEW timespan \in Int, NEW target \in Nat, NEW t \in Nat
  PROVE  /\ Clamped(timespan) \in Nat
         /\ t * targetTimespan <= target * Clamped(timespan) <=>
              t <= 4 * target /\ (4 * t <= target \/ t * targetTimespan <= target * timespan)
<1> DEFINE C == Clamped(timespan)
           Allowed == t <= 4 * target /\ (4 * t <= target \/ t * targetTimespan <= target * timespan)
<1>1. PICK q \in Nat : /\ q > 0 /\ targetTimespan = 4 * q
                       /\ C = IF timespan <= q THEN q
                              ELSE IF timespan >= 16 * q THEN 16 * q ELSE timespan
  BY ClampedIs
<1> HIDE DEF C
<1>2. C \in Nat
  BY <1>1
<1>3. /\ t * targetTimespan = q * (4 * t) /\ q * (4 * t) \in Nat
      /\ target * q = q * target /\ q * target \in Nat
      /\ target * (16 * q) = q * (16 * target) /\ q * (16 * target) \in Nat
      /\ 4 * t \in Nat /\ 16 * target \in Nat /\ 4 * target \in Nat
  BY <1>1
<1>4. q * (4 * t) <= q * target <=> 4 * t <= target
  <2>1. 4 * t <= target => q * (4 * t) <= q * target
    BY <1>3, TimesMonotone
  <2>2. target < 4 * t => q * target < q * (4 * t)
    <3> HAVE target < 4 * t
    <3>1. target + 1 \in Nat /\ target + 1 <= 4 * t
      BY <1>3
    <3>2. q * (target + 1) <= q * (4 * t)
      BY <1>3, <3>1, TimesMonotone
    <3>3. q * (target + 1) = q * target + q
      OBVIOUS
    <3> QED BY <1>1, <1>3, <3>2, <3>3
  <2> QED BY <1>3, <2>1, <2>2
<1>5. q * (4 * t) <= q * (16 * target) <=> t <= 4 * target
  <2>1. t <= 4 * target => q * (4 * t) <= q * (16 * target)
    <3> HAVE t <= 4 * target
    <3>1. 4 * t <= 16 * target
      BY <1>3
    <3> QED BY <1>3, <3>1, TimesMonotone
  <2>2. 4 * target < t => q * (16 * target) < q * (4 * t)
    <3> HAVE 4 * target < t
    <3>1. 16 * target + 1 \in Nat /\ 16 * target + 1 <= 4 * t
      BY <1>3
    <3>2. q * (16 * target + 1) <= q * (4 * t)
      BY <1>3, <3>1, TimesMonotone
    <3>3. q * (16 * target + 1) = q * (16 * target) + q
      OBVIOUS
    <3> QED BY <1>1, <1>3, <3>2, <3>3
  <2> QED BY <1>3, <2>1, <2>2
<1>6. CASE timespan <= q
  <2>1. target * timespan <= q * target /\ target * timespan \in Int
    <3>1. target * (q - timespan) \in Nat /\ target * (q - timespan) = target * q - target * timespan
      <4>1. q - timespan \in Nat
        BY <1>6
      <4> QED BY <4>1
    <3>2. target * timespan \in Int
      OBVIOUS
    <3> QED BY <1>3, <3>1, <3>2
  <2>2. t * targetTimespan <= target * timespan => 4 * t <= target
    BY <1>3, <1>4, <2>1
  <2>3. 4 * t <= target => t <= 4 * target
    OBVIOUS
  <2>4. t * targetTimespan <= target * C <=> 4 * t <= target
    BY <1>1, <1>3, <1>4, <1>6
  <2> QED BY <1>2, <2>2, <2>3, <2>4 DEF C
<1>7. CASE timespan >= 16 * q
  <2>1. q * (16 * target) <= target * timespan /\ target * timespan \in Nat
    <3>1. timespan \in Nat /\ 16 * q \in Nat /\ 16 * q <= timespan
      BY <1>7
    <3>2. target * (16 * q) <= target * timespan /\ target * timespan \in Nat
      BY <3>1, TimesMonotone
    <3> QED BY <1>3, <3>2
  <2>2. t <= 4 * target => t * targetTimespan <= target * timespan
    BY <1>3, <1>5, <2>1
  <2>3. C = 16 * q
    BY <1>1, <1>7
  <2>4. t * targetTimespan <= target * C <=> t <= 4 * target
    BY <1>3, <1>5, <2>3
  <2> QED BY <1>2, <2>2, <2>4 DEF C
<1>8. CASE ~ (timespan <= q) /\ ~ (timespan >= 16 * q)
  <2>1. /\ C = timespan /\ timespan \in Nat /\ q <= timespan
        /\ 16 * q \in Nat /\ timespan <= 16 * q
    BY <1>1, <1>8
  <2>2. /\ target * q <= target * timespan /\ target * timespan \in Nat
        /\ target * timespan <= target * (16 * q)
    BY <2>1, TimesMonotone
  <2>3. 4 * t <= target => t * targetTimespan <= target * timespan
    BY <1>3, <1>4, <2>2
  <2>4. t * targetTimespan <= target * timespan => t <= 4 * target
    BY <1>3, <1>5, <2>2
  <2> QED BY <1>2, <2>1, <2>3, <2>4 DEF C
<1> QED BY <1>6, <1>7, <1>8

\* What calcNextBits makes of bits that stand for a target no easier than the limit:
\* such bits again, of a target that may follow, and the largest that can be written.
LEMMA NextBits ==
  ASSUME BitsAssumption, NEW bits \in Compact, bitsToTarget(bits) # NoTarget, NEW timespan \in Int
  PROVE  LET next == calcNextBits(bits, 1, 1 + timespan)
         IN  /\ next \in Compact /\ bitsToTarget(next) \in Nat
             /\ MayFollow(bitsToTarget(next), bitsToTarget(bits), timespan)
             /\ \A t \in Targets : MayFollow(t, bitsToTarget(bits), timespan)
                                     => t <= bitsToTarget(next)
<1> DEFINE target == bitsToTarget(bits)
           limit == bitsToTarget(powLimitBits)
           C == Clamped(timespan)
           scaled == (target * C) \div targetTimespan
           goal == Min({scaled, limit})
           next == calcNextBits(bits, 1, 1 + timespan)
           t0 == bitsToTarget(next)
<1>1. target \in Nat
  BY TargetsAreWritten
<1>2. limit \in Nat /\ limit < Power[TargetDigits]
  <2>1. powLimitBits \in Compact /\ bitsToTarget(powLimitBits) # NoTarget
    BY DEF BitsAssumption
  <2> HIDE DEF powLimitBits
  <2> QED BY <2>1, TargetsAreWritten
<1>3. C \in Nat
  BY <1>1, ScaledBounds
<1>4. next = targetToBits(goal)
  <2>1. (1 + timespan) - 1 = timespan
    OBVIOUS
  <2>2. next = targetToBits(Min({(target * Clamped((1 + timespan) - 1)) \div targetTimespan, limit}))
    BY DEF calcNextBits
  <2> HIDE DEF next, target, limit
  <2> QED BY <2>1, <2>2
<1>5. targetTimespan \in Nat /\ targetTimespan > 0
  BY DEF BitsAssumption
<1> HIDE DEF target, limit, C
<1>6. target * C \in Nat
  BY <1>1, <1>3
<1>7. scaled \in Nat
  BY <1>5, <1>6, DivBounds
<1> HIDE DEF scaled
<1>8. goal = IF scaled <= limit THEN scaled ELSE limit
  BY <1>2, <1>7, LesserOf
<1> HIDE DEF goal
<1>9. Power[TargetDigits] \in Nat
  <2>1. TargetDigits \in 0 .. TargetDigits + 1
    BY DEF BitsAssumption
  <2> QED BY <2>1, PowersRun
<1>10. goal \in Nat /\ goal <= limit /\ goal <= scaled /\ goal < Power[TargetDigits]
  BY <1>2, <1>7, <1>8, <1>9
<1> HIDE DEF next
<1>11. next \in Compact /\ t0 \in Nat /\ t0 <= goal /\ \E k, m : RoundedTo(goal, t0, k, m)
  BY <1>4, <1>10, RoundsDown
<1>12. ASSUME NEW t \in Nat
       PROVE  t <= goal <=> MayFollow(t, target, timespan)
  <2>1. targetTimespan * t <= target * C => t <= scaled
    BY <1>5, <1>6, DivBounds DEF scaled
  <2>2. t <= scaled => targetTimespan * t <= target * C
    <3> HAVE t <= scaled
    <3>1. targetTimespan * t <= targetTimespan * scaled /\ targetTimespan * t \in Nat
      BY <1>5, <1>7, TimesMonotone
    <3>2. targetTimespan * scaled <= target * C /\ targetTimespan * scaled \in Nat
      BY <1>5, <1>6, DivBounds DEF scaled
    <3> QED BY <1>6, <3>1, <3>2
  <2>3. targetTimespan * t = t * targetTimespan
    BY <1>5
  <2>4. t * targetTimespan <= target * C <=>
          t <= 4 * target /\ (4 * t <= target \/ t * targetTimespan <= target * timespan)
    BY <1>1, ScaledBounds DEF C
  <2>5. t <= goal <=> t <= scaled /\ t <= limit
    BY <1>2, <1>7, <1>8
  <2> QED BY <2>1, <2>2, <2>3, <2>4, <2>5 DEF MayFollow, limit
<1>13. MayFollow(t0, target, timespan)
  <2> HIDE DEF t0
  <2> QED BY <1>11, <1>12
<1>14. ASSUME NEW t \in Targets, MayFollow(t, target, timespan)
       PROVE  t <= t0
  <2>1. PICK b \in Compact : t = bitsToTarget(b) /\ bitsToTarget(b) # NoTarget
    BY DEF Targets
  <2>2. t \in Nat /\ \E j, l : Written(t, j, l)
    BY <2>1, TargetsAreWritten
  <2>3. PICK j, l : Written(t, j, l)
    BY <2>2
  <2>4. t <= goal
    BY <1>12, <1>14, <2>2
  <2>5. PICK k, m : RoundedTo(goal, t0, k, m)
    BY <1>11
  <2> HIDE DEF t0
  <2> QED BY <1>10, <2>2, <2>3, <2>4, <2>5, RoundedIsLargest
<1> QED BY <1>11, <1>13, <1>14 DEF next, target

\* The easier a target, the less work: a block's work falls as its target rises.
LEMMA WorkFalls ==
  ASSUME BitsAssumption, NEW a \in Nat, NEW b \in Nat, a <= b
  PROVE  /\ Power[TargetDigits] \div (b + 1) <= Power[TargetDigits] \div (a + 1)
         /\ Power[TargetDigits] \div (b + 1) \in Nat
         /\ Power[TargetDigits] \div (a + 1) \in Nat
<1> DEFINE P == Power[TargetDigits]
           w == P \div (b + 1)
<1>1. P \in Nat
  <2>1. TargetDigits \in 0 .. TargetDigits + 1
    BY DEF BitsAssumption
  <2> QED BY <2>1, PowersRun
<1> HIDE DEF P
<1>2. a + 1 \in Nat /\ a + 1 > 0 /\ b + 1 \in Nat /\ b + 1 > 0 /\ a + 1 <= b + 1
  OBVIOUS
<1>3. w \in Nat /\ (b + 1) * w <= P /\ (b + 1) * w \in Nat
  BY <1>1, <1>2, DivBounds
<1> HIDE DEF w
<1>4. (a + 1) * w <= P
  <2>1. w * (a + 1) <= w * (b + 1) /\ w * (a + 1) \in Nat
    BY <1>2, <1>3, TimesMonotone
  <2>2. w * (a + 1) = (a + 1) * w /\ w * (b + 1) = (b + 1) * w
    BY <1>3
  <2> QED BY <1>1, <1>3, <2>1, <2>2
<1>5. w <= P \div (a + 1) /\ P \div (a + 1) \in Nat
  BY <1>1, <1>2, <1>3, <1>4, DivBounds
<1> QED BY <1>3, <1>5 DEF w, P

\* The bits a period closes with are ones that stand for a target, no easier than the limit.
BitsTypeOK ==
  closing \in Compact /\ checkPowLimit(closing)

\* They are such bits at the limit and after every period, whatever it took.
THEOREM BitsTyped == BitsSpec => []BitsTypeOK
<1> USE BitsAssumption
<1>1. BitsInit => BitsTypeOK
  <2> SUFFICES ASSUME BitsInit PROVE BitsTypeOK
    OBVIOUS
  <2>1. /\ closing = powLimitBits /\ powLimitBits \in Compact
        /\ bitsToTarget(powLimitBits) # NoTarget
    BY DEF BitsInit, BitsAssumption
  <2> HIDE DEF powLimitBits
  <2>2. bitsToTarget(powLimitBits) \in Nat
    BY <2>1, TargetsAreWritten
  <2> QED BY <2>1, <2>2 DEF BitsTypeOK, checkPowLimit
<1>2. BitsTypeOK /\ [PeriodEnds]_closing => BitsTypeOK'
  <2> SUFFICES ASSUME BitsTypeOK, [PeriodEnds]_closing PROVE BitsTypeOK'
    OBVIOUS
  <2>1. CASE UNCHANGED closing
    BY <2>1 DEF BitsTypeOK
  <2>2. CASE PeriodEnds
    <3>1. PICK timespan \in -1 .. LongestPeriod : closing' = calcNextBits(closing, 1, 1 + timespan)
      BY <2>2 DEF PeriodEnds
    <3>2. timespan \in Int
      BY <3>1
    <3>3. closing \in Compact /\ bitsToTarget(closing) # NoTarget
      BY DEF BitsTypeOK, checkPowLimit
    <3>4. /\ closing' \in Compact /\ bitsToTarget(closing') \in Nat
          /\ MayFollow(bitsToTarget(closing'), bitsToTarget(closing), timespan)
      BY <3>1, <3>2, <3>3, NextBits
    <3>5. bitsToTarget(closing') # NoTarget
      BY <3>4 DEF NoTarget
    <3> QED BY <3>4, <3>5 DEF BitsTypeOK, checkPowLimit, MayFollow
  <2> QED BY <2>1, <2>2
<1> QED BY <1>1, <1>2, PTL DEF BitsSpec

\* A chain that retargets, for any radix, any number of digits and any limit: the next
\* target passes the floor, may follow, is the largest that can be written and may, and a
\* period's blocks count for more work only when they are harder to find, and not for less.
THEOREM RetargetsAlwaysConsensus == BitsSpec => []RetargetsAreConsensus
<1> USE BitsAssumption
<1>1. BitsTypeOK => RetargetsAreConsensus
  <2> SUFFICES ASSUME BitsTypeOK, NEW timespan \in -1 .. LongestPeriod
               PROVE  LET target == bitsToTarget(closing)
                          next   == calcNextBits(closing, 1, 1 + timespan)
                          May(t) == /\ t <= bitsToTarget(powLimitBits)
                                    /\ t <= 4 * target
                                    /\ \/ 4 * t <= target
                                       \/ t * targetTimespan <= target * timespan
                      IN  /\ checkPowLimit(next)
                          /\ May(bitsToTarget(next))
                          /\ \A t \in Targets : May(t) => t <= bitsToTarget(next)
                          /\ bitsToTarget(next) < target => workFromBits(next) >= workFromBits(closing)
                          /\ workFromBits(next) > workFromBits(closing) => bitsToTarget(next) < target
    BY DEF RetargetsAreConsensus
  <2> DEFINE target == bitsToTarget(closing)
             next == calcNextBits(closing, 1, 1 + timespan)
             value == bitsToTarget(next)
  <2>1. timespan \in Int /\ closing \in Compact /\ target # NoTarget
    BY DEF BitsTypeOK, checkPowLimit
  <2>2. /\ next \in Compact /\ value \in Nat
        /\ MayFollow(value, target, timespan)
        /\ \A t \in Targets : MayFollow(t, target, timespan) => t <= value
    BY <2>1, NextBits
  <2>3. target \in Nat
    BY <2>1, TargetsAreWritten
  <2>4. checkPowLimit(next)
    <3>1. value # NoTarget
      BY <2>2 DEF NoTarget
    <3> QED BY <2>2, <3>1 DEF checkPowLimit, MayFollow
  <2>5. /\ workFromBits(next) = Power[TargetDigits] \div (value + 1)
        /\ workFromBits(closing) = Power[TargetDigits] \div (target + 1)
    BY DEF workFromBits
  <2> DEFINE before == workFromBits(closing)
             after == workFromBits(next)
  <2> HIDE DEF value, target, next
  <2>6. value < target => after >= before
    <3> HAVE value < target
    <3>1. /\ Power[TargetDigits] \div (target + 1) <= Power[TargetDigits] \div (value + 1)
          /\ Power[TargetDigits] \div (target + 1) \in Nat
          /\ Power[TargetDigits] \div (value + 1) \in Nat
      BY <2>2, <2>3, WorkFalls
    <3>2. before <= after /\ before \in Nat /\ after \in Nat
      BY <2>5, <3>1
    <3> HIDE DEF before, after
    <3> QED BY <3>2
  <2>7. after > before => value < target
    <3> SUFFICES ASSUME target <= value PROVE ~ (after > before)
      BY <2>2, <2>3
    <3>1. /\ Power[TargetDigits] \div (value + 1) <= Power[TargetDigits] \div (target + 1)
          /\ Power[TargetDigits] \div (target + 1) \in Nat
          /\ Power[TargetDigits] \div (value + 1) \in Nat
      BY <2>2, <2>3, WorkFalls
    <3>2. after <= before /\ before \in Nat /\ after \in Nat
      BY <2>5, <3>1
    <3> HIDE DEF before, after
    <3> QED BY <3>2
  <2> QED BY <2>2, <2>4, <2>6, <2>7 DEF MayFollow, value, target, next
<1>2. BitsSpec => []BitsTypeOK
  BY BitsTyped
<1> QED BY <1>1, <1>2, PTL

(* ------------------------------ the parser ----------------------------- *)

\* What payloads are made of, and what a script is found to carry.
Pushed == {Bytes[op] : op \in DOMAIN Bytes}
Parsed == [payload : Seq(Pushed), pushnum : BOOLEAN, stutter : BOOLEAN]

\* An envelope with this payload, from p up to the instruction before e.
EnvelopeAt(ops, p, e, stutter) ==
  [payload |-> [i \in 1 .. e - p |-> Bytes[ops[p + i - 1]]],
   pushnum |-> \E i \in p .. e - 1 : ops[i] = "OP_2",
   stutter |-> stutter]

\* No opcode that pushes nothing has bytes.
LEMMA BytesFacts ==
  "OP_ENDIF" \notin DOMAIN Bytes /\ "OP_IF" \notin DOMAIN Bytes
BY DEF Bytes

LEMMA EnvelopeTyped ==
  ASSUME NEW ops \in Seq(Instructions), NEW p \in 1 .. Len(ops), NEW e \in p .. Len(ops) + 1,
         \A i \in p .. e - 1 : ops[i] \in DOMAIN Bytes, NEW stutter \in BOOLEAN
  PROVE  EnvelopeAt(ops, p, e, stutter) \in Parsed
<1> DEFINE payload == [i \in 1 .. e - p |-> Bytes[ops[p + i - 1]]]
<1>1. payload \in Seq(Pushed)
  <2>1. e - p \in Nat
    OBVIOUS
  <2>2. ASSUME NEW i \in 1 .. e - p PROVE Bytes[ops[p + i - 1]] \in Pushed
    <3>1. p + i - 1 \in p .. e - 1
      OBVIOUS
    <3> QED BY <3>1 DEF Pushed
  <2> QED BY <2>1, <2>2, IsASeq
<1>2. (\E i \in p .. e - 1 : ops[i] = "OP_2") \in BOOLEAN
  OBVIOUS
<1> HIDE DEF payload
<1>3. EnvelopeAt(ops, p, e, stutter) =
        [payload |-> payload, pushnum |-> \E i \in p .. e - 1 : ops[i] = "OP_2", stutter |-> stutter]
  BY DEF EnvelopeAt, payload
<1> DEFINE num == \E i \in p .. e - 1 : ops[i] = "OP_2"
<1> HIDE DEF num
<1> QED BY <1>1, <1>2, <1>3 DEF Parsed, num

\* An attempt that finds no OP_IF, or no marker after it, gives back what it looked at,
LEMMA NoIf ==
  ASSUME NEW ops \in Seq(Instructions), NEW cursor \in Nat, NEW stutter,
         cursor \in 1 .. Len(ops) => ops[cursor] # "OP_IF"
  PROVE  fromInstructions(ops, cursor, stutter) =
           [cursor |-> cursor, stutter |-> cursor \in 1 .. Len(ops) /\ ops[cursor] = "empty",
            envelope |-> <<>>]
<1>1. DOMAIN ops = 1 .. Len(ops)
  BY LenProperties
<1> QED BY <1>1 DEF fromInstructions

LEMMA NoMarker ==
  ASSUME NEW ops \in Seq(Instructions), NEW cursor \in 1 .. Len(ops), NEW stutter,
         ops[cursor] = "OP_IF", cursor + 1 \in 1 .. Len(ops) => ops[cursor + 1] # "ord"
  PROVE  fromInstructions(ops, cursor, stutter) =
           [cursor |-> cursor + 1,
            stutter |-> cursor + 1 \in 1 .. Len(ops) /\ ops[cursor + 1] = "empty",
            envelope |-> <<>>]
<1>1. DOMAIN ops = 1 .. Len(ops)
  BY LenProperties
<1> QED BY <1>1 DEF fromInstructions

\* one that gets as far as the payload consumes it, to the end of the script,
LEMMA CutShort ==
  ASSUME NEW ops \in Seq(Instructions), NEW cursor \in 1 .. Len(ops), NEW stutter,
         ops[cursor] = "OP_IF", cursor + 1 \in 1 .. Len(ops), ops[cursor + 1] = "ord",
         \A i \in cursor + 2 .. Len(ops) : ops[i] \in DOMAIN Bytes
  PROVE  fromInstructions(ops, cursor, stutter) =
           [cursor |-> Len(ops) + 1, stutter |-> FALSE, envelope |-> <<>>]
<1>1. DOMAIN ops = 1 .. Len(ops)
  BY LenProperties
<1>2. {i \in cursor + 2 .. Len(ops) : ops[i] \notin DOMAIN Bytes} = {}
  OBVIOUS
<1> QED BY <1>1, <1>2 DEF fromInstructions

\* or to the first instruction that is no push.
LEMMA Closed ==
  ASSUME NEW ops \in Seq(Instructions), NEW cursor \in 1 .. Len(ops), NEW stutter,
         ops[cursor] = "OP_IF", cursor + 1 \in 1 .. Len(ops), ops[cursor + 1] = "ord",
         NEW e \in cursor + 2 .. Len(ops), ops[e] \notin DOMAIN Bytes,
         \A i \in cursor + 2 .. e - 1 : ops[i] \in DOMAIN Bytes
  PROVE  fromInstructions(ops, cursor, stutter) =
           [cursor |-> e + 1, stutter |-> FALSE,
            envelope |-> IF ops[e] # "OP_ENDIF" THEN <<>>
                         ELSE <<EnvelopeAt(ops, cursor + 2, e, stutter)>>]
<1> DEFINE p == cursor + 2
           Closes == {i \in p .. Len(ops) : ops[i] \notin DOMAIN Bytes}
           payload == SubSeq(ops, p, e - 1)
<1>1. DOMAIN ops = 1 .. Len(ops) /\ Len(ops) \in Nat
  BY LenProperties
<1>2. e \in Closes /\ Closes # {}
  OBVIOUS
<1>3. Min(Closes) = e
  <2>1. \A y \in Closes : e <= y
    OBVIOUS
  <2>2. \A x \in Closes : (\A y \in Closes : x <= y) => x = e
    <3> TAKE x \in Closes
    <3> HAVE \A y \in Closes : x <= y
    <3>1. x <= e /\ e <= x /\ x \in Nat /\ e \in Nat
      BY <1>2, <2>1
    <3> QED BY <3>1
  <2> HIDE DEF Closes
  <2> QED BY <1>2, <2>1, <2>2 DEF Min
<1>4. /\ Len(payload) = e - p /\ DOMAIN payload = 1 .. e - p /\ e - p \in Nat
      /\ \A i \in 1 .. e - p : payload[i] = ops[p + i - 1]
  <2>1. p \in Int /\ e - 1 \in Int /\ p >= 1 /\ e - 1 <= Len(ops)
    BY <1>1
  <2> HIDE DEF p
  <2>5. \A i \in p .. e - 1 : ops[i] \in Instructions
    <3> SUFFICES ASSUME NEW i \in p .. e - 1 PROVE ops[i] \in Instructions
      OBVIOUS
    <3>1. i \in 1 .. Len(ops)
      BY <1>1, <2>1
    <3> QED BY <3>1, ElementOfSeq
  <2>2. /\ payload \in Seq(Instructions)
        /\ Len(payload) = IF p <= e - 1 THEN (e - 1) - p + 1 ELSE 0
        /\ \A i \in 1 .. (e - 1) - p + 1 : payload[i] = ops[p + i - 1]
    BY <2>1, <2>5, SubSeqProperties
  <2>3. DOMAIN payload = 1 .. Len(payload)
    BY <2>2, LenProperties
  <2> HIDE DEF payload
  <2>6. e - p \in Nat
    BY <1>1 DEF p
  <2>4. Len(payload) = e - p /\ (e - 1) - p + 1 = e - p
    BY <2>1, <2>2, <2>6
  <2> QED BY <2>2, <2>3, <2>4, <2>6
<1>5. [i \in DOMAIN payload |-> Bytes[payload[i]]] = [i \in 1 .. e - p |-> Bytes[ops[p + i - 1]]]
  <2> HIDE DEF payload, p
  <2> QED BY <1>4
<1>6. Contains(payload, "OP_2") = \E i \in p .. e - 1 : ops[i] = "OP_2"
  <2>1. ASSUME NEW j \in 1 .. e - p, payload[j] = "OP_2"
        PROVE  \E i \in p .. e - 1 : ops[i] = "OP_2"
    <3>1. p + j - 1 \in p .. e - 1 /\ ops[p + j - 1] = "OP_2"
      BY <1>4, <2>1
    <3> QED BY <3>1
  <2>2. ASSUME NEW i \in p .. e - 1, ops[i] = "OP_2"
        PROVE  \E j \in 1 .. e - p : payload[j] = "OP_2"
    <3>1. i - p + 1 \in 1 .. e - p /\ p + (i - p + 1) - 1 = i
      OBVIOUS
    <3>2. payload[i - p + 1] = "OP_2"
      BY <1>4, <2>2, <3>1
    <3> QED BY <3>1, <3>2
  <2> HIDE DEF payload, p
  <2> QED BY <1>4, <2>1, <2>2 DEF Contains
<1>7. EnvelopeAt(ops, p, e, stutter) =
        [payload |-> [i \in DOMAIN payload |-> Bytes[payload[i]]],
         pushnum |-> Contains(payload, "OP_2"), stutter |-> stutter]
  <2> HIDE DEF payload, p
  <2> QED BY <1>5, <1>6 DEF EnvelopeAt
<1>8. fromInstructions(ops, cursor, stutter) =
        [cursor |-> Min(Closes) + 1, stutter |-> FALSE,
         envelope |-> IF ops[Min(Closes)] # "OP_ENDIF" THEN <<>>
                      ELSE <<[payload |-> [i \in DOMAIN SubSeq(ops, p, Min(Closes) - 1) |->
                                             Bytes[SubSeq(ops, p, Min(Closes) - 1)[i]]],
                              pushnum |-> Contains(SubSeq(ops, p, Min(Closes) - 1), "OP_2"),
                              stutter |-> stutter]>>]
  <2> DEFINE least == Min(Closes)
  <2>1. cursor \in DOMAIN ops /\ cursor + 1 \in DOMAIN ops
    BY <1>1
  <2> QED BY <1>2, <2>1 DEF fromInstructions
<1>9. ops[e] # "OP_ENDIF" \/ ops[e] = "OP_ENDIF"
  OBVIOUS
<1> HIDE DEF Closes
<1> QED BY <1>3, <1>7, <1>8

\* The instruction at which a payload ends, if there is one.
LEMMA FirstEnd ==
  ASSUME NEW ops \in Seq(Instructions), NEW p \in Nat,
         ~ \A i \in p .. Len(ops) : ops[i] \in DOMAIN Bytes
  PROVE  \E e \in p .. Len(ops) : /\ ops[e] \notin DOMAIN Bytes
                                  /\ \A i \in p .. e - 1 : ops[i] \in DOMAIN Bytes
<1> DEFINE T == {i \in p .. Len(ops) : ops[i] \notin DOMAIN Bytes}
<1>1. Len(ops) \in Nat
  BY LenProperties
<1>2. T \in SUBSET Nat /\ T # {}
  BY <1>1
<1> HIDE DEF T
<1>3. PICK e \in T : \A i \in T : e <= i
  BY <1>2, LeastNatural
<1>4. e \in p .. Len(ops) /\ ops[e] \notin DOMAIN Bytes
  BY DEF T
<1>5. ASSUME NEW i \in p .. e - 1 PROVE ops[i] \in DOMAIN Bytes
  <2>1. i \in p .. Len(ops) /\ ~ (e <= i)
    BY <1>1, <1>4
  <2> QED BY <1>3, <2>1 DEF T
<1> QED BY <1>4, <1>5

\* Whatever an attempt comes to, it does not go back, and finds an envelope or none.
LEMMA AttemptFacts ==
  ASSUME NEW ops \in Seq(Instructions), NEW k \in 1 .. Len(ops) + 1, NEW stutter \in BOOLEAN
  PROVE  LET attempt == fromInstructions(ops, k, stutter)
         IN  /\ attempt.cursor \in k .. Len(ops) + 1 /\ attempt.stutter \in BOOLEAN
             /\ attempt.envelope \in Seq(Parsed)
<1> DEFINE attempt == fromInstructions(ops, k, stutter)
<1>1. Len(ops) \in Nat /\ <<>> \in Seq(Parsed) /\ k \in Nat /\ Len(ops) + 1 \in k .. Len(ops) + 1
  BY LenProperties, EmptySeq
<1>2. CASE k \in 1 .. Len(ops) => ops[k] # "OP_IF"
  <2>1. attempt = [cursor |-> k, stutter |-> k \in 1 .. Len(ops) /\ ops[k] = "empty",
                   envelope |-> <<>>]
    BY <1>1, <1>2, NoIf
  <2>2. (k \in 1 .. Len(ops) /\ ops[k] = "empty") \in BOOLEAN /\ k \in k .. Len(ops) + 1
    BY <1>1
  <2> HIDE DEF attempt
  <2> QED BY <1>1, <2>1, <2>2 DEF attempt
<1>3. CASE k \in 1 .. Len(ops) /\ ops[k] = "OP_IF" /\ (k + 1 \in 1 .. Len(ops) => ops[k + 1] # "ord")
  <2>1. attempt = [cursor |-> k + 1, stutter |-> k + 1 \in 1 .. Len(ops) /\ ops[k + 1] = "empty",
                   envelope |-> <<>>]
    BY <1>3, NoMarker
  <2>2. (k + 1 \in 1 .. Len(ops) /\ ops[k + 1] = "empty") \in BOOLEAN /\ k + 1 \in k .. Len(ops) + 1
    BY <1>1, <1>3
  <2> HIDE DEF attempt
  <2> QED BY <1>1, <2>1, <2>2 DEF attempt
<1>4. CASE /\ k \in 1 .. Len(ops) /\ ops[k] = "OP_IF" /\ k + 1 \in 1 .. Len(ops) /\ ops[k + 1] = "ord"
           /\ \A i \in k + 2 .. Len(ops) : ops[i] \in DOMAIN Bytes
  <2>1. attempt = [cursor |-> Len(ops) + 1, stutter |-> FALSE, envelope |-> <<>>]
    BY <1>4, CutShort
  <2> HIDE DEF attempt
  <2> QED BY <1>1, <2>1 DEF attempt
<1>5. CASE /\ k \in 1 .. Len(ops) /\ ops[k] = "OP_IF" /\ k + 1 \in 1 .. Len(ops) /\ ops[k + 1] = "ord"
           /\ ~ \A i \in k + 2 .. Len(ops) : ops[i] \in DOMAIN Bytes
  <2>1. k + 2 \in Nat
    BY <1>1
  <2>2. PICK e \in k + 2 .. Len(ops) : /\ ops[e] \notin DOMAIN Bytes
                                       /\ \A i \in k + 2 .. e - 1 : ops[i] \in DOMAIN Bytes
    BY <1>5, <2>1, FirstEnd
  <2> DEFINE found == EnvelopeAt(ops, k + 2, e, stutter)
  <2>3. attempt = [cursor |-> e + 1, stutter |-> FALSE,
                   envelope |-> IF ops[e] # "OP_ENDIF" THEN <<>> ELSE <<found>>]
    BY <1>5, <2>2, Closed
  <2>4. found \in Parsed
    <3>1. k + 2 \in 1 .. Len(ops) /\ e \in k + 2 .. Len(ops) + 1
      BY <1>1, <2>2
    <3> QED BY <2>2, <3>1, EnvelopeTyped
  <2> HIDE DEF found, attempt
  <2>5. <<found>> \in Seq(Parsed)
    BY <2>4
  <2>6. e + 1 \in k .. Len(ops) + 1
    BY <1>1, <2>2
  <2>7. /\ attempt.cursor = e + 1 /\ attempt.stutter = FALSE
        /\ attempt.envelope = <<>> \/ attempt.envelope = <<found>>
    BY <2>3
  <2> QED BY <1>1, <2>5, <2>6, <2>7 DEF attempt
<1> QED BY <1>2, <1>3, <1>4, <1>5

\* The parser's scan: what is found from a cursor on.
Attempted(f, ops, k, stuttered) ==
  LET attempt == fromInstructions(ops, k, stuttered)
  IN  attempt.envelope \o
      f[attempt.cursor][IF attempt.envelope = <<>> THEN attempt.stutter ELSE stuttered]

ScannedAt(f, ops, cursor, stuttered) ==
  IF cursor > Len(ops) THEN <<>>
  ELSE IF ops[cursor] # "empty" THEN f[cursor + 1][stuttered]
  ELSE Attempted(f, ops, cursor + 1, stuttered)

ScanOf(f, ops) ==
  f = [cursor \in 1 .. Len(ops) + 1 |-> [stuttered \in BOOLEAN |-> ScannedAt(f, ops, cursor, stuttered)]]

\* It looks at later cursors only.
LEMMA ScanLooksAhead ==
  ASSUME NEW ops \in Seq(Instructions), NEW c \in 1 .. Len(ops) + 1, NEW stuttered \in BOOLEAN,
         NEW f, NEW g, \A i \in c + 1 .. Len(ops) + 1 : f[i] = g[i]
  PROVE  ScannedAt(f, ops, c, stuttered) = ScannedAt(g, ops, c, stuttered)
<1>1. Len(ops) \in Nat
  BY LenProperties
<1>2. CASE c > Len(ops)
  BY <1>2 DEF ScannedAt
<1>3. CASE ~ (c > Len(ops)) /\ ops[c] # "empty"
  <2>1. c + 1 \in c + 1 .. Len(ops) + 1
    BY <1>1, <1>3
  <2>2. f[c + 1] = g[c + 1]
    BY <2>1
  <2> QED BY <1>3, <2>2 DEF ScannedAt
<1>4. CASE ~ (c > Len(ops)) /\ ops[c] = "empty"
  <2> DEFINE attempt == fromInstructions(ops, c + 1, stuttered)
  <2>1. c + 1 \in 1 .. Len(ops) + 1
    BY <1>1, <1>4
  <2>2. attempt.cursor \in c + 1 .. Len(ops) + 1
    BY <2>1, AttemptFacts
  <2>3. f[attempt.cursor] = g[attempt.cursor]
    BY <2>2
  <2>4. Attempted(f, ops, c + 1, stuttered) = Attempted(g, ops, c + 1, stuttered)
    BY <2>3 DEF Attempted
  <2> QED BY <1>4, <2>4 DEF ScannedAt
<1> QED BY <1>2, <1>3, <1>4

LEMMA ScannedTyped ==
  ASSUME NEW ops \in Seq(Instructions), NEW c \in 1 .. Len(ops) + 1, NEW stuttered \in BOOLEAN,
         NEW f, \A i \in c + 1 .. Len(ops) + 1 : f[i] \in [BOOLEAN -> Seq(Parsed)]
  PROVE  ScannedAt(f, ops, c, stuttered) \in Seq(Parsed)
<1>1. Len(ops) \in Nat /\ <<>> \in Seq(Parsed)
  BY LenProperties, EmptySeq
<1>2. CASE c > Len(ops)
  BY <1>1, <1>2 DEF ScannedAt
<1>3. CASE ~ (c > Len(ops)) /\ ops[c] # "empty"
  <2>1. c + 1 \in c + 1 .. Len(ops) + 1
    BY <1>1, <1>3
  <2>2. f[c + 1] \in [BOOLEAN -> Seq(Parsed)]
    BY <2>1
  <2>3. f[c + 1][stuttered] \in Seq(Parsed)
    BY <2>2
  <2> QED BY <1>3, <2>3 DEF ScannedAt
<1>4. CASE ~ (c > Len(ops)) /\ ops[c] = "empty"
  <2> DEFINE attempt == fromInstructions(ops, c + 1, stuttered)
             next == IF attempt.envelope = <<>> THEN attempt.stutter ELSE stuttered
             rest == f[attempt.cursor][next]
  <2>1. c + 1 \in 1 .. Len(ops) + 1
    BY <1>1, <1>4
  <2>2. /\ attempt.cursor \in c + 1 .. Len(ops) + 1 /\ attempt.stutter \in BOOLEAN
        /\ attempt.envelope \in Seq(Parsed)
    BY <2>1, AttemptFacts
  <2>3. f[attempt.cursor] \in [BOOLEAN -> Seq(Parsed)] /\ next \in BOOLEAN
    BY <2>2
  <2>4. rest \in Seq(Parsed)
    <3> HIDE DEF next, attempt
    <3> QED BY <2>3
  <2>5. attempt.envelope \o rest \in Seq(Parsed)
    <3> HIDE DEF rest, attempt
    <3> QED BY <2>2, <2>4, ConcatProperties
  <2>6. Attempted(f, ops, c + 1, stuttered) = attempt.envelope \o rest
    BY DEF Attempted
  <2> QED BY <1>4, <2>5, <2>6 DEF ScannedAt
<1> QED BY <1>2, <1>3, <1>4

LEMMA ScanExists ==
  ASSUME NEW ops \in Seq(Instructions)
  PROVE  \E f \in [1 .. Len(ops) + 1 -> [BOOLEAN -> Seq(Parsed)]] : ScanOf(f, ops)
<1> DEFINE N == Len(ops) + 1
           F == [BOOLEAN -> Seq(Parsed)]
           AllAt(f, c) == [stuttered \in BOOLEAN |-> ScannedAt(f, ops, c, stuttered)]
           Upto(f, k) == f \in [1 .. N -> F] /\ \A c \in 1 .. N : c > N - k => f[c] = AllAt(f, c)
           S == {k \in Nat : k <= N => \E f : Upto(f, k)}
<1>1. N \in Nat /\ N >= 1
  BY LenProperties
<1>2. 0 \in S
  <2> DEFINE none == [c \in 1 .. N |-> [stuttered \in BOOLEAN |-> <<>>]]
  <2>1. none \in [1 .. N -> F]
    <3>1. <<>> \in Seq(Parsed)
      BY EmptySeq
    <3>2. [stuttered \in BOOLEAN |-> <<>>] \in F
      BY <3>1
    <3> HIDE DEF F, N
    <3> QED BY <3>2
  <2>2. \A c \in 1 .. N : ~ (c > N - 0)
    BY <1>1
  <2> HIDE DEF none, F, N, AllAt
  <2> QED BY <2>1, <2>2
<1>3. ASSUME NEW k \in Nat, k \in S PROVE k + 1 \in S
  <2> SUFFICES ASSUME k + 1 <= N PROVE \E f : Upto(f, k + 1)
    <3> HIDE DEF Upto, N
    <3> QED OBVIOUS
  <2>1. k <= N
    BY <1>1
  <2>2. PICK g : Upto(g, k)
    <3> HIDE DEF Upto, N
    <3> QED BY <1>3, <2>1
  <2> DEFINE c0 == N - k
             f == [g EXCEPT ![c0] = AllAt(g, c0)]
  <2>3. c0 \in 1 .. N /\ c0 \in 1 .. Len(ops) + 1
    BY <1>1
  <2>4. g \in [1 .. N -> F]
    BY <2>2
  <2>5. AllAt(g, c0) \in F
    <3>1. \A i \in c0 + 1 .. Len(ops) + 1 : g[i] \in [BOOLEAN -> Seq(Parsed)]
      <4> TAKE i \in c0 + 1 .. Len(ops) + 1
      <4>1. i \in 1 .. N
        BY <1>1, <2>3
      <4> QED BY <2>4, <4>1
    <3>2. \A stuttered \in BOOLEAN : ScannedAt(g, ops, c0, stuttered) \in Seq(Parsed)
      <4> HIDE DEF c0
      <4> QED BY <2>3, <3>1, ScannedTyped
    <3> QED BY <3>2
  <2>6. /\ f \in [1 .. N -> F] /\ f[c0] = AllAt(g, c0)
        /\ \A c \in 1 .. N : c # c0 => f[c] = g[c]
    <3> HIDE DEF c0, F, N, AllAt
    <3> QED BY <2>3, <2>4, <2>5
  <2> HIDE DEF f
  <2>7. ASSUME NEW c \in 1 .. N, c > N - (k + 1) PROVE f[c] = AllAt(f, c)
    <3>1. c >= c0 /\ c \in 1 .. Len(ops) + 1
      BY <1>1, <2>7
    <3>2. \A i \in c + 1 .. Len(ops) + 1 : f[i] = g[i]
      <4> TAKE i \in c + 1 .. Len(ops) + 1
      <4>1. i \in 1 .. N /\ i # c0
        BY <1>1, <2>3, <3>1
      <4> QED BY <2>6, <4>1
    <3>3. \A stuttered \in BOOLEAN :
            ScannedAt(f, ops, c, stuttered) = ScannedAt(g, ops, c, stuttered)
      BY <3>1, <3>2, ScanLooksAhead
    <3>4. AllAt(f, c) = AllAt(g, c)
      BY <3>3
    <3>5. f[c] = AllAt(g, c)
      <4>1. CASE c = c0
        <5> HIDE DEF c0, AllAt
        <5> QED BY <2>6, <4>1
      <4>2. CASE c # c0
        <5>1. c > N - k
          BY <1>1, <3>1, <4>2
        <5>2. g[c] = AllAt(g, c)
          BY <2>2, <5>1
        <5> HIDE DEF c0, AllAt
        <5> QED BY <2>6, <4>2, <5>2
      <4> QED BY <4>1, <4>2
    <3> HIDE DEF AllAt
    <3> QED BY <3>4, <3>5
  <2> HIDE DEF F, N, AllAt
  <2> QED BY <2>6, <2>7
<1>4. N \in S
  <2> HIDE DEF S, N
  <2> QED BY <1>1, <1>2, <1>3, InductionBySet
<1>5. PICK f : Upto(f, N)
  <2> HIDE DEF Upto, N
  <2> QED BY <1>4
<1>6. f \in [1 .. N -> F] /\ \A c \in 1 .. N : f[c] = AllAt(f, c)
  <2>1. \A c \in 1 .. N : c > N - N
    BY <1>1
  <2> HIDE DEF F, N, AllAt
  <2> QED BY <1>5, <2>1
<1>7. ScanOf(f, ops)
  <2>1. f = [c \in 1 .. N |-> AllAt(f, c)]
    <3> HIDE DEF F, N, AllAt
    <3> QED BY <1>6
  <2> QED BY <2>1 DEF ScanOf
<1> QED BY <1>6, <1>7

\* What the parser makes of a script: nothing of one that is cut, else where its scan begins.
LEMMA ParsedByScan ==
  ASSUME NEW ops \in Seq(Instructions), ~ Contains(ops, "cut")
  PROVE  \E f : /\ parseEnvelopesFromScript(ops) = f[1][FALSE]
                /\ \A c \in 1 .. Len(ops) + 1, stuttered \in BOOLEAN :
                     /\ f[c][stuttered] = ScannedAt(f, ops, c, stuttered)
                     /\ f[c][stuttered] \in Seq(Parsed)
<1> DEFINE f == CHOOSE f : ScanOf(f, ops)
<1>1. parseEnvelopesFromScript(ops) = f[1][FALSE]
  <2>1. parseEnvelopesFromScript(ops) =
          (CHOOSE scan : scan = [cursor \in 1 .. Len(ops) + 1 |-> [stuttered \in BOOLEAN |->
             IF cursor > Len(ops) THEN <<>>
             ELSE IF ops[cursor] # "empty" THEN scan[cursor + 1][stuttered]
             ELSE fromInstructions(ops, cursor + 1, stuttered).envelope \o
                  scan[fromInstructions(ops, cursor + 1, stuttered).cursor]
                      [IF fromInstructions(ops, cursor + 1, stuttered).envelope = <<>>
                       THEN fromInstructions(ops, cursor + 1, stuttered).stutter
                       ELSE stuttered]]])[1][FALSE]
    BY DEF parseEnvelopesFromScript
  <2> QED BY <2>1 DEF ScanOf, ScannedAt, Attempted
<1>2. PICK g \in [1 .. Len(ops) + 1 -> [BOOLEAN -> Seq(Parsed)]] : ScanOf(g, ops)
  BY ScanExists
<1>3. ScanOf(f, ops)
  <2> HIDE DEF ScanOf
  <2> QED BY <1>2
<1> HIDE DEF f
<1> DEFINE AllAt(h, c) == [stuttered \in BOOLEAN |-> ScannedAt(h, ops, c, stuttered)]
<1>4. \A c \in 1 .. Len(ops) + 1 : f[c] = AllAt(f, c)
  <2>1. f = [c \in 1 .. Len(ops) + 1 |-> AllAt(f, c)]
    BY <1>3 DEF ScanOf
  <2> HIDE DEF AllAt
  <2> QED BY <2>1
<1>5. \A c \in 1 .. Len(ops) + 1, stuttered \in BOOLEAN :
        f[c][stuttered] = ScannedAt(f, ops, c, stuttered)
  BY <1>4
<1> DEFINE N == Len(ops) + 1
           S == {k \in Nat : k <= N => \A c \in 1 .. N : c > N - k =>
                    f[c] \in [BOOLEAN -> Seq(Parsed)]}
<1>6. N \in Nat
  BY LenProperties
<1>7. 0 \in S
  <2>1. \A c \in 1 .. N : ~ (c > N - 0)
    BY <1>6
  <2> HIDE DEF N
  <2> QED BY <2>1
<1>8. ASSUME NEW k \in Nat, k \in S PROVE k + 1 \in S
  <2> SUFFICES ASSUME k + 1 <= N, NEW c \in 1 .. N, c > N - (k + 1)
               PROVE  f[c] \in [BOOLEAN -> Seq(Parsed)]
    <3> HIDE DEF N
    <3> QED OBVIOUS
  <2>1. \A i \in c + 1 .. Len(ops) + 1 : f[i] \in [BOOLEAN -> Seq(Parsed)]
    <3> TAKE i \in c + 1 .. Len(ops) + 1
    <3>1. i \in 1 .. N /\ i > N - k /\ k <= N
      BY <1>6
    <3> QED BY <1>8, <3>1
  <2>2. c \in 1 .. Len(ops) + 1
    OBVIOUS
  <2>3. \A stuttered \in BOOLEAN : ScannedAt(f, ops, c, stuttered) \in Seq(Parsed)
    <3> HIDE DEF N
    <3> QED BY <2>1, <2>2, ScannedTyped
  <2>4. AllAt(f, c) \in [BOOLEAN -> Seq(Parsed)]
    BY <2>3
  <2> HIDE DEF AllAt, N
  <2> QED BY <1>4, <2>2, <2>4
<1>9. N \in S
  <2> HIDE DEF S, N
  <2> QED BY <1>6, <1>7, <1>8, InductionBySet
<1>10. \A c \in 1 .. N : f[c] \in [BOOLEAN -> Seq(Parsed)]
  <2>1. N <= N /\ \A c \in 1 .. N : c > N - N
    BY <1>6
  <2> HIDE DEF N
  <2> QED BY <1>9, <2>1
<1>11. \A c \in 1 .. Len(ops) + 1, stuttered \in BOOLEAN : f[c][stuttered] \in Seq(Parsed)
  BY <1>10
<1> QED BY <1>1, <1>5, <1>11

(* ------------------------------ the reader ----------------------------- *)

Readers == [at : {"scan", "IF", "ord", "payload"}, stuttered : BOOLEAN, stutter : BOOLEAN,
            payload : Seq(Pushed), num : BOOLEAN, found : Seq(Parsed)]

ReaderOf(at, stuttered, stutter, payload, num, found) ==
  [at |-> at, stuttered |-> stuttered, stutter |-> stutter, payload |-> payload, num |-> num,
   found |-> found]

\* What the reader does with an instruction, by where it is,
LEMMA ReadScanning ==
  ASSUME NEW r \in Readers, NEW op \in Instructions, r.at = "scan"
  PROVE  Read(r, op) = ReaderOf(IF op = "empty" THEN "IF" ELSE "scan", r.stuttered, r.stuttered,
                                r.payload, r.num, r.found)
BY DEF Read, Readers, ReaderOf

LEMMA ReadProbe ==
  ASSUME NEW r \in Readers, NEW op \in Instructions, r.at = "IF", op = "OP_IF"
  PROVE  Read(r, op) = ReaderOf("ord", r.stuttered, r.stutter, r.payload, r.num, r.found)
BY DEF Read, Readers, ReaderOf

LEMMA ReadMarker ==
  ASSUME NEW r \in Readers, NEW op \in Instructions, r.at = "ord", op = "ord"
  PROVE  Read(r, op) = ReaderOf("payload", r.stuttered, r.stutter, <<>>, FALSE, r.found)
BY DEF Read, Readers, ReaderOf

LEMMA ReadFailed ==
  ASSUME NEW r \in Readers, NEW op \in Instructions,
         (r.at = "IF" /\ op # "OP_IF") \/ (r.at = "ord" /\ op # "ord")
  PROVE  Read(r, op) = ReaderOf(IF op = "empty" THEN "IF" ELSE "scan", op = "empty", op = "empty",
                                r.payload, r.num, r.found)
BY DEF Read, Readers, ReaderOf

LEMMA ReadPush ==
  ASSUME NEW r \in Readers, NEW op \in Instructions, r.at = "payload", op \in DOMAIN Bytes
  PROVE  Read(r, op) = ReaderOf("payload", r.stuttered, r.stutter, Append(r.payload, Bytes[op]),
                                r.num \/ op = "OP_2", r.found)
BY BytesFacts DEF Read, Readers, ReaderOf

LEMMA ReadEnd ==
  ASSUME NEW r \in Readers, NEW op \in Instructions, r.at = "payload", op = "OP_ENDIF"
  PROVE  Read(r, op) = ReaderOf("scan", r.stuttered, r.stutter, r.payload, r.num,
                                Append(r.found, [payload |-> r.payload, pushnum |-> r.num,
                                                 stutter |-> r.stutter]))
BY BytesFacts DEF Read, Readers, ReaderOf

LEMMA ReadDisallowed ==
  ASSUME NEW r \in Readers, NEW op \in Instructions, r.at = "payload",
         op \notin DOMAIN Bytes, op # "OP_ENDIF"
  PROVE  Read(r, op) = ReaderOf("scan", FALSE, r.stutter, r.payload, r.num, r.found)
BY DEF Read, Readers, ReaderOf

\* and that it stays a reader.
LEMMA ReaderIs ==
  ASSUME NEW at \in {"scan", "IF", "ord", "payload"}, NEW stuttered \in BOOLEAN,
         NEW stutter \in BOOLEAN, NEW payload \in Seq(Pushed), NEW num \in BOOLEAN,
         NEW found \in Seq(Parsed)
  PROVE  ReaderOf(at, stuttered, stutter, payload, num, found) \in Readers
BY DEF ReaderOf, Readers

LEMMA ReaderTyped ==
  ASSUME NEW r \in Readers, NEW op \in Instructions
  PROVE  Read(r, op) \in Readers
<1>1. /\ r.stuttered \in BOOLEAN /\ r.stutter \in BOOLEAN /\ r.payload \in Seq(Pushed)
      /\ r.num \in BOOLEAN /\ r.found \in Seq(Parsed)
      /\ r.at \in {"scan", "IF", "ord", "payload"}
  BY DEF Readers
<1>2. /\ "scan" \in {"scan", "IF", "ord", "payload"} /\ "ord" \in {"scan", "IF", "ord", "payload"}
      /\ "payload" \in {"scan", "IF", "ord", "payload"}
  OBVIOUS
<1> DEFINE no == FALSE
           empty == op = "empty"
           next == IF empty THEN "IF" ELSE "scan"
<1>3. no \in BOOLEAN /\ empty \in BOOLEAN /\ next \in {"scan", "IF", "ord", "payload"}
  OBVIOUS
<1>4. CASE r.at = "scan"
  <2>1. Read(r, op) = ReaderOf(next, r.stuttered, r.stuttered, r.payload, r.num, r.found)
    BY <1>4, ReadScanning
  <2> HIDE DEF next
  <2> QED BY <1>1, <1>3, <2>1, ReaderIs
<1>5. CASE r.at = "IF" /\ op = "OP_IF"
  <2>1. Read(r, op) = ReaderOf("ord", r.stuttered, r.stutter, r.payload, r.num, r.found)
    BY <1>5, ReadProbe
  <2> QED BY <1>1, <1>2, <2>1, ReaderIs
<1>6. CASE r.at = "ord" /\ op = "ord"
  <2> DEFINE nothing == <<>>
  <2>1. Read(r, op) = ReaderOf("payload", r.stuttered, r.stutter, nothing, no, r.found)
    BY <1>6, ReadMarker
  <2>2. nothing \in Seq(Pushed)
    BY EmptySeq
  <2> HIDE DEF no, nothing
  <2> QED BY <1>1, <1>2, <1>3, <2>1, <2>2, ReaderIs
<1>7. CASE (r.at = "IF" /\ op # "OP_IF") \/ (r.at = "ord" /\ op # "ord")
  <2>1. Read(r, op) = ReaderOf(next, empty, empty, r.payload, r.num, r.found)
    BY <1>7, ReadFailed
  <2> HIDE DEF next, empty
  <2> QED BY <1>1, <1>3, <2>1, ReaderIs
<1>8. CASE r.at = "payload" /\ op \in DOMAIN Bytes
  <2> DEFINE payload == Append(r.payload, Bytes[op])
             num == r.num \/ op = "OP_2"
  <2>1. Read(r, op) = ReaderOf("payload", r.stuttered, r.stutter, payload, num, r.found)
    BY <1>8, ReadPush
  <2>2. payload \in Seq(Pushed)
    <3>1. Bytes[op] \in Pushed
      BY <1>8 DEF Pushed
    <3> QED BY <1>1, <3>1, AppendProperties
  <2>3. num \in BOOLEAN
    OBVIOUS
  <2> HIDE DEF payload, num
  <2> QED BY <1>1, <1>2, <2>1, <2>2, <2>3, ReaderIs
<1>9. CASE r.at = "payload" /\ op = "OP_ENDIF"
  <2> DEFINE envelope == [payload |-> r.payload, pushnum |-> r.num, stutter |-> r.stutter]
             found == Append(r.found, envelope)
  <2>1. Read(r, op) = ReaderOf("scan", r.stuttered, r.stutter, r.payload, r.num, found)
    BY <1>9, ReadEnd
  <2>2. envelope \in Parsed
    BY <1>1 DEF Parsed
  <2> HIDE DEF envelope
  <2>3. found \in Seq(Parsed)
    BY <1>1, <2>2, AppendProperties
  <2> HIDE DEF found
  <2> QED BY <1>1, <1>2, <2>1, <2>3, ReaderIs
<1>10. CASE r.at = "payload" /\ op \notin DOMAIN Bytes /\ op # "OP_ENDIF"
  <2>1. Read(r, op) = ReaderOf("scan", no, r.stutter, r.payload, r.num, r.found)
    BY <1>10, ReadDisallowed
  <2> HIDE DEF no
  <2> QED BY <1>1, <1>2, <1>3, <2>1, ReaderIs
<1> QED BY <1>1, <1>4, <1>5, <1>6, <1>7, <1>8, <1>9, <1>10

\* The reader as it goes through a script.
Progress(h, ops) == /\ h[0] = Started
                    /\ \A n \in 1 .. Len(ops) : h[n] = Read(h[n - 1], ops[n])

LEMMA StartedTyped == Started \in Readers
<1>1. <<>> \in Seq(Pushed) /\ <<>> \in Seq(Parsed)
  BY EmptySeq
<1> QED BY <1>1 DEF Started, Readers

LEMMA ProgressTyped ==
  ASSUME NEW ops \in Seq(Instructions), NEW h, Progress(h, ops)
  PROVE  \A n \in 0 .. Len(ops) : h[n] \in Readers
<1> DEFINE S == {n \in Nat : n <= Len(ops) => h[n] \in Readers}
<1>1. 0 \in S
  BY StartedTyped DEF Progress
<1>2. ASSUME NEW n \in Nat, n \in S PROVE n + 1 \in S
  <2> SUFFICES ASSUME n + 1 <= Len(ops) PROVE h[n + 1] \in Readers
    OBVIOUS
  <2>1. Len(ops) \in Nat
    BY LenProperties
  <2>2. n + 1 \in 1 .. Len(ops) /\ (n + 1) - 1 = n /\ n <= Len(ops)
    BY <2>1
  <2>3. h[n + 1] = Read(h[n], ops[n + 1]) /\ h[n] \in Readers /\ ops[n + 1] \in Instructions
    BY <1>2, <2>2, ElementOfSeq DEF Progress
  <2> QED BY <2>3, ReaderTyped
<1>3. Nat \subseteq S
  <2> HIDE DEF S
  <2> QED BY <1>1, <1>2, InductionBySet
<1> QED BY <1>3

LEMMA ReadAllIsProgress ==
  ASSUME NEW ops \in Seq(Instructions)
  PROVE  \E h : Progress(h, ops) /\ ReadAll(ops) = h[Len(ops)]
<1> DEFINE N == Len(ops)
           ReadOf(h) == h = [n \in 0 .. Len(ops) |-> IF n = 0 THEN Started ELSE Read(h[n - 1], ops[n])]
           Upto(h, k) == /\ h \in [0 .. N -> Readers] /\ h[0] = Started
                         /\ \A n \in 1 .. k : h[n] = Read(h[n - 1], ops[n])
           S == {k \in Nat : k <= N => \E h : Upto(h, k)}
           f == CHOOSE h : ReadOf(h)
<1>1. N \in Nat
  BY LenProperties
<1>2. 0 \in S
  <2> DEFINE h == [n \in 0 .. N |-> Started]
  <2>1. h \in [0 .. N -> Readers] /\ h[0] = Started
    BY <1>1, StartedTyped
  <2> HIDE DEF h
  <2>2. Upto(h, 0)
    BY <2>1
  <2> HIDE DEF Upto
  <2> QED BY <2>2
<1>3. ASSUME NEW k \in Nat, k \in S PROVE k + 1 \in S
  <2> SUFFICES ASSUME k + 1 <= N PROVE \E h : Upto(h, k + 1)
    <3> HIDE DEF Upto, N
    <3> QED OBVIOUS
  <2>1. k <= N /\ k + 1 \in 0 .. N /\ k \in 0 .. N /\ k + 1 \in 1 .. Len(ops)
    BY <1>1
  <2>2. PICK g : Upto(g, k)
    <3> HIDE DEF Upto, N
    <3> QED BY <1>3, <2>1
  <2> DEFINE h == [g EXCEPT ![k + 1] = Read(g[k], ops[k + 1])]
  <2>3. Read(g[k], ops[k + 1]) \in Readers
    <3>1. g[k] \in Readers /\ ops[k + 1] \in Instructions
      BY <2>1, <2>2, ElementOfSeq
    <3> QED BY <3>1, ReaderTyped
  <2>4. /\ h \in [0 .. N -> Readers] /\ h[k + 1] = Read(g[k], ops[k + 1])
        /\ \A n \in 0 .. k : h[n] = g[n]
    <3> HIDE DEF N
    <3> QED BY <1>1, <2>1, <2>2, <2>3
  <2> HIDE DEF h
  <2>5. h[0] = Started
    BY <2>2, <2>4
  <2>6. ASSUME NEW n \in 1 .. k + 1 PROVE h[n] = Read(h[n - 1], ops[n])
    <3>1. n - 1 \in 0 .. k
      OBVIOUS
    <3>2. CASE n = k + 1
      <4>1. n - 1 = k
        BY <3>2
      <4> QED BY <2>4, <3>1, <3>2, <4>1
    <3>3. CASE n \in 1 .. k
      <4>1. n \in 0 .. k /\ g[n] = Read(g[n - 1], ops[n])
        BY <2>2, <3>3
      <4> QED BY <2>4, <3>1, <4>1
    <3> QED BY <3>2, <3>3
  <2> QED BY <2>4, <2>5, <2>6
<1>4. N \in S
  <2> HIDE DEF S, N
  <2> QED BY <1>1, <1>2, <1>3, InductionBySet
<1>5. PICK g : Upto(g, N)
  <2> HIDE DEF Upto, N
  <2> QED BY <1>1, <1>4
<1>6. ReadOf(g)
  <2>1. g \in [0 .. N -> Readers] /\ g[0] = Started /\ \A n \in 1 .. N : g[n] = Read(g[n - 1], ops[n])
    BY <1>5
  <2>2. \A n \in 0 .. N : g[n] = IF n = 0 THEN Started ELSE Read(g[n - 1], ops[n])
    <3> TAKE n \in 0 .. N
    <3>1. n = 0 \/ n \in 1 .. N
      BY <1>1
    <3> QED BY <2>1, <3>1
  <2> HIDE DEF N
  <2>3. g = [n \in 0 .. N |-> IF n = 0 THEN Started ELSE Read(g[n - 1], ops[n])]
    BY <2>1, <2>2
  <2> QED BY <2>3 DEF N
<1>7. ReadOf(f)
  <2> HIDE DEF ReadOf
  <2> QED BY <1>6
<1>8. ReadAll(ops) = f[Len(ops)]
  BY DEF ReadAll
<1> HIDE DEF f
<1>9. Progress(f, ops)
  <2>1. \A n \in 0 .. N : f[n] = IF n = 0 THEN Started ELSE Read(f[n - 1], ops[n])
    BY <1>7
  <2>2. 0 \in 0 .. N
    BY <1>1
  <2>3. ASSUME NEW n \in 1 .. N PROVE f[n] = Read(f[n - 1], ops[n])
    <3>1. n \in 0 .. N /\ n # 0
      BY <1>1
    <3> QED BY <2>1, <3>1
  <2> QED BY <2>1, <2>2, <2>3 DEF Progress
<1> QED BY <1>8, <1>9

\* Two accounts of the reader's progress agree as far as their scripts do.
LEMMA ProgressAgrees ==
  ASSUME NEW ops, NEW more, Len(ops) \in Nat, Len(more) \in Nat, Len(ops) <= Len(more),
         \A n \in 1 .. Len(ops) : ops[n] = more[n],
         NEW g, NEW h, Progress(g, ops), Progress(h, more)
  PROVE  \A n \in 0 .. Len(ops) : g[n] = h[n]
<1> DEFINE S == {n \in Nat : n <= Len(ops) => g[n] = h[n]}
<1>1. 0 \in S
  BY DEF Progress
<1>2. ASSUME NEW n \in Nat, n \in S PROVE n + 1 \in S
  <2> SUFFICES ASSUME n + 1 <= Len(ops) PROVE g[n + 1] = h[n + 1]
    OBVIOUS
  <2>1. n + 1 \in 1 .. Len(ops) /\ n + 1 \in 1 .. Len(more) /\ (n + 1) - 1 = n /\ n <= Len(ops)
    OBVIOUS
  <2>2. g[n + 1] = Read(g[n], ops[n + 1]) /\ h[n + 1] = Read(h[n], more[n + 1])
    BY <2>1 DEF Progress
  <2> QED BY <1>2, <2>1, <2>2
<1>3. Nat \subseteq S
  <2> HIDE DEF S
  <2> QED BY <1>1, <1>2, InductionBySet
<1> QED BY <1>3

LEMMA ReadAllSteps ==
  /\ ReadAll(<<>>) = Started
  /\ \A ops \in Seq(Instructions), op \in Instructions :
       ReadAll(Append(ops, op)) = Read(ReadAll(ops), op)
<1>1. ReadAll(<<>>) = Started
  <2>1. <<>> \in Seq(Instructions) /\ Len(<<>>) = 0
    BY EmptySeq
  <2> QED BY <2>1, ReadAllIsProgress DEF Progress
<1>2. ASSUME NEW ops \in Seq(Instructions), NEW op \in Instructions
      PROVE  ReadAll(Append(ops, op)) = Read(ReadAll(ops), op)
  <2> DEFINE more == Append(ops, op)
  <2>1. /\ more \in Seq(Instructions) /\ Len(more) = Len(ops) + 1 /\ Len(ops) \in Nat
        /\ \A n \in 1 .. Len(ops) : more[n] = ops[n]
        /\ more[Len(ops) + 1] = op
    BY AppendProperties, LenProperties
  <2> HIDE DEF more
  <2>2. PICK g : Progress(g, ops) /\ ReadAll(ops) = g[Len(ops)]
    BY ReadAllIsProgress
  <2>3. PICK h : Progress(h, more) /\ ReadAll(more) = h[Len(more)]
    BY <2>1, ReadAllIsProgress
  <2>4. g[Len(ops)] = h[Len(ops)]
    <3>1. Len(ops) \in 0 .. Len(ops) /\ Len(ops) <= Len(more) /\ Len(more) \in Nat
      BY <2>1
    <3> QED BY <2>1, <2>2, <2>3, <3>1, ProgressAgrees
  <2>5. Len(ops) + 1 \in 1 .. Len(more) /\ (Len(ops) + 1) - 1 = Len(ops)
    BY <2>1
  <2>6. h[Len(ops) + 1] = Read(h[Len(ops)], more[Len(ops) + 1])
    BY <2>3, <2>5 DEF Progress
  <2> QED BY <2>1, <2>2, <2>3, <2>4, <2>6 DEF more
<1> QED BY <1>1, <1>2

(* --------------------------- reader and parser ------------------------- *)

Scanned(f, ops) ==
  \A c \in 1 .. Len(ops) + 1, stuttered \in BOOLEAN :
    f[c][stuttered] = ScannedAt(f, ops, c, stuttered) /\ f[c][stuttered] \in Seq(Parsed)

\* The parser's scan, step by step.
LEMMA ScanSteps ==
  ASSUME NEW ops \in Seq(Instructions), NEW f, Scanned(f, ops), NEW stuttered \in BOOLEAN
  PROVE  /\ f[Len(ops) + 1][stuttered] = <<>>
         /\ \A c \in 1 .. Len(ops) :
              /\ ops[c] # "empty" => f[c][stuttered] = f[c + 1][stuttered]
              /\ ops[c] = "empty" => f[c][stuttered] = Attempted(f, ops, c + 1, stuttered)
<1>1. Len(ops) \in Nat
  BY LenProperties
<1>2. f[Len(ops) + 1][stuttered] = <<>>
  <2>1. Len(ops) + 1 \in 1 .. Len(ops) + 1 /\ Len(ops) + 1 > Len(ops)
    BY <1>1
  <2>2. f[Len(ops) + 1][stuttered] = ScannedAt(f, ops, Len(ops) + 1, stuttered)
    BY <2>1 DEF Scanned
  <2> QED BY <2>1, <2>2 DEF ScannedAt
<1>3. ASSUME NEW c \in 1 .. Len(ops)
      PROVE  /\ ops[c] # "empty" => f[c][stuttered] = f[c + 1][stuttered]
             /\ ops[c] = "empty" => f[c][stuttered] = Attempted(f, ops, c + 1, stuttered)
  <2>1. c \in 1 .. Len(ops) + 1 /\ ~ (c > Len(ops))
    BY <1>1
  <2>2. f[c][stuttered] = ScannedAt(f, ops, c, stuttered)
    BY <2>1 DEF Scanned
  <2> QED BY <2>1, <2>2 DEF ScannedAt
<1> QED BY <1>2, <1>3

\* Where an attempt fails the scan goes on,
LEMMA Resumes ==
  ASSUME NEW ops \in Seq(Instructions), NEW f, Scanned(f, ops),
         NEW k \in 1 .. Len(ops) + 1, NEW stuttered \in BOOLEAN,
         NEW cursor \in 1 .. Len(ops) + 1, NEW stutter \in BOOLEAN,
         fromInstructions(ops, k, stuttered) =
           [cursor |-> cursor, stutter |-> stutter, envelope |-> <<>>]
  PROVE  Attempted(f, ops, k, stuttered) = f[cursor][stutter]
<1> DEFINE attempt == fromInstructions(ops, k, stuttered)
<1>1. Attempted(f, ops, k, stuttered) =
        attempt.envelope \o
        f[attempt.cursor][IF attempt.envelope = <<>> THEN attempt.stutter ELSE stuttered]
  BY DEF Attempted
<1> HIDE DEF attempt
<1>2. attempt.envelope = <<>> /\ attempt.cursor = cursor /\ attempt.stutter = stutter
  BY DEF attempt
<1>3. Attempted(f, ops, k, stuttered) = <<>> \o f[cursor][stutter]
  BY <1>1, <1>2
<1>4. f[cursor][stutter] \in Seq(Parsed)
  BY DEF Scanned
<1> QED BY <1>3, <1>4, ConcatEmptySeq

\* and an envelope is added to what was found.
LEMMA AppendThenMore ==
  ASSUME NEW S, NEW seq \in Seq(S), NEW elt \in S, NEW rest \in Seq(S)
  PROVE  Append(seq, elt) \o rest = seq \o (<<elt>> \o rest)
<1> DEFINE one == <<elt>>
<1>1. Append(seq, elt) = seq \o one /\ one \in Seq(S)
  BY AppendIsConcat
<1> HIDE DEF one
<1>2. (seq \o one) \o rest = seq \o (one \o rest)
  BY <1>1, ConcatAssociative
<1> QED BY <1>1, <1>2 DEF one

\* A payload, as far as it was read.
Within(r, ops, p, c) ==
  /\ ops[p - 2] = "OP_IF" /\ ops[p - 1] = "ord" /\ \A i \in p .. c - 1 : ops[i] \in DOMAIN Bytes
  /\ r.payload = [i \in 1 .. c - p |-> Bytes[ops[p + i - 1]]]
  /\ r.num = \E i \in p .. c - 1 : ops[i] = "OP_2"

\* What the reader has found before it reads at c, and what the parser finds from where
\* the reader's attempt began, is all that the parser finds.
Follows(r, ops, f, c) ==
  /\ r \in Readers
  /\ r.at = "scan" => r.found \o f[c][r.stuttered] = f[1][FALSE]
  /\ r.at # "scan" => r.stutter = r.stuttered
  /\ r.at = "IF" => r.found \o Attempted(f, ops, c, r.stuttered) = f[1][FALSE]
  /\ r.at = "ord" => /\ c - 1 \in 1 .. Len(ops) /\ ops[c - 1] = "OP_IF"
                     /\ r.found \o Attempted(f, ops, c - 1, r.stuttered) = f[1][FALSE]
  /\ r.at = "payload" =>
       \E p \in 3 .. c : /\ Within(r, ops, p, c)
                         /\ r.found \o Attempted(f, ops, p - 2, r.stuttered) = f[1][FALSE]

\* From the scan, or after a probe that failed: the scan goes on at c.
LEMMA FollowsScan ==
  ASSUME NEW ops \in Seq(Instructions), NEW f, Scanned(f, ops), NEW c \in 1 .. Len(ops),
         NEW r \in Readers, NEW s \in Readers,
         s.found = r.found, s.stutter = s.stuttered,
         s.at = IF ops[c] = "empty" THEN "IF" ELSE "scan",
         r.found \o f[c][s.stuttered] = f[1][FALSE]
  PROVE  Follows(s, ops, f, c + 1)
<1>1. s.stuttered \in BOOLEAN
  BY DEF Readers
<1>2. CASE ops[c] = "empty"
  <2>1. s.at = "IF" /\ f[c][s.stuttered] = Attempted(f, ops, c + 1, s.stuttered)
    BY <1>1, <1>2, ScanSteps
  <2> QED BY <2>1 DEF Follows
<1>3. CASE ops[c] # "empty"
  <2>1. s.at = "scan" /\ f[c][s.stuttered] = f[c + 1][s.stuttered]
    BY <1>1, <1>3, ScanSteps
  <2> QED BY <2>1 DEF Follows
<1> QED BY <1>2, <1>3

\* The fields of a reader.
LEMMA ReaderFields ==
  ASSUME NEW at, NEW stuttered, NEW stutter, NEW payload, NEW num, NEW found, NEW r,
         r = ReaderOf(at, stuttered, stutter, payload, num, found)
  PROVE  /\ r.at = at /\ r.stuttered = stuttered /\ r.stutter = stutter /\ r.payload = payload
         /\ r.num = num /\ r.found = found
BY DEF ReaderOf

\* Each instruction keeps the two together,
LEMMA FollowsScanning ==
  ASSUME NEW ops \in Seq(Instructions), NEW f, Scanned(f, ops), NEW c \in 1 .. Len(ops),
         NEW r, Follows(r, ops, f, c), r.at = "scan"
  PROVE  Follows(Read(r, ops[c]), ops, f, c + 1)
<1> DEFINE s == Read(r, ops[c])
           next == IF ops[c] = "empty" THEN "IF" ELSE "scan"
<1>1. r \in Readers /\ ops[c] \in Instructions /\ r.found \o f[c][r.stuttered] = f[1][FALSE]
  BY ElementOfSeq DEF Follows
<1>2. s \in Readers
  BY <1>1, ReaderTyped
<1>3. s = ReaderOf(next, r.stuttered, r.stuttered, r.payload, r.num, r.found)
  BY <1>1, ReadScanning
<1> HIDE DEF s, next
<1>4. s.at = next /\ s.stuttered = r.stuttered /\ s.stutter = r.stuttered /\ s.found = r.found
  BY <1>3, ReaderFields
<1>5. Follows(s, ops, f, c + 1)
  BY <1>1, <1>2, <1>4, FollowsScan DEF next
<1> QED BY <1>5 DEF s

LEMMA FollowsProbe ==
  ASSUME NEW ops \in Seq(Instructions), NEW f, Scanned(f, ops), NEW c \in 1 .. Len(ops),
         NEW r, Follows(r, ops, f, c), r.at = "IF"
  PROVE  Follows(Read(r, ops[c]), ops, f, c + 1)
<1> DEFINE s == Read(r, ops[c])
           empty == ops[c] = "empty"
           next == IF empty THEN "IF" ELSE "scan"
<1>1. /\ r \in Readers /\ ops[c] \in Instructions /\ r.stuttered \in BOOLEAN
      /\ r.stutter = r.stuttered /\ r.found \o Attempted(f, ops, c, r.stuttered) = f[1][FALSE]
  BY ElementOfSeq DEF Follows, Readers
<1>2. s \in Readers
  BY <1>1, ReaderTyped
<1>3. Len(ops) \in Nat /\ c \in 1 .. Len(ops) + 1
  BY LenProperties
<1>4. CASE ops[c] = "OP_IF"
  <2>1. s = ReaderOf("ord", r.stuttered, r.stutter, r.payload, r.num, r.found)
    BY <1>1, <1>4, ReadProbe
  <2> HIDE DEF s
  <2>2. s.at = "ord" /\ s.stuttered = r.stuttered /\ s.stutter = r.stuttered /\ s.found = r.found
    BY <1>1, <2>1, ReaderFields
  <2>3. (c + 1) - 1 = c
    OBVIOUS
  <2>4. Follows(s, ops, f, c + 1)
    BY <1>1, <1>2, <1>4, <2>2, <2>3 DEF Follows
  <2> QED BY <2>4 DEF s
<1>5. CASE ops[c] # "OP_IF"
  <2>1. s = ReaderOf(next, empty, empty, r.payload, r.num, r.found)
    BY <1>1, <1>5, ReadFailed
  <2>2. empty \in BOOLEAN /\ (empty <=> c \in 1 .. Len(ops) /\ ops[c] = "empty")
    OBVIOUS
  <2>3. fromInstructions(ops, c, r.stuttered) =
          [cursor |-> c, stutter |-> c \in 1 .. Len(ops) /\ ops[c] = "empty", envelope |-> <<>>]
    BY <1>3, <1>5, NoIf
  <2>4. fromInstructions(ops, c, r.stuttered) = [cursor |-> c, stutter |-> empty, envelope |-> <<>>]
    BY <2>3
  <2> HIDE DEF s, next, empty
  <2>5. Attempted(f, ops, c, r.stuttered) = f[c][empty]
    BY <1>1, <1>3, <2>2, <2>4, Resumes
  <2>6. s.at = next /\ s.stuttered = empty /\ s.stutter = empty /\ s.found = r.found
    BY <2>1, ReaderFields
  <2>7. r.found \o f[c][s.stuttered] = f[1][FALSE]
    BY <1>1, <2>5, <2>6
  <2>8. s.at = IF ops[c] = "empty" THEN "IF" ELSE "scan"
    BY <2>6 DEF next, empty
  <2>9. Follows(s, ops, f, c + 1)
    BY <1>1, <1>2, <2>6, <2>7, <2>8, FollowsScan
  <2> QED BY <2>9 DEF s
<1> QED BY <1>4, <1>5

LEMMA FollowsMarker ==
  ASSUME NEW ops \in Seq(Instructions), NEW f, Scanned(f, ops), NEW c \in 1 .. Len(ops),
         NEW r, Follows(r, ops, f, c), r.at = "ord"
  PROVE  Follows(Read(r, ops[c]), ops, f, c + 1)
<1> DEFINE s == Read(r, ops[c])
           empty == ops[c] = "empty"
           next == IF empty THEN "IF" ELSE "scan"
           k == c - 1
<1>1. /\ r \in Readers /\ ops[c] \in Instructions /\ r.stuttered \in BOOLEAN
      /\ r.stutter = r.stuttered /\ k \in 1 .. Len(ops) /\ ops[k] = "OP_IF"
      /\ r.found \o Attempted(f, ops, k, r.stuttered) = f[1][FALSE]
  BY ElementOfSeq DEF Follows, Readers
<1>2. s \in Readers
  BY <1>1, ReaderTyped
<1>3. /\ Len(ops) \in Nat /\ c \in 1 .. Len(ops) + 1 /\ k \in 1 .. Len(ops) + 1
      /\ k + 1 = c /\ k = c - 1
  BY <1>1, LenProperties
<1> HIDE DEF k
<1>4. CASE ops[c] = "ord"
  <2> DEFINE p == c + 1
             no == FALSE
             nothing == <<>>
  <2>1. s = ReaderOf("payload", r.stuttered, r.stutter, nothing, no, r.found)
    BY <1>1, <1>4, ReadMarker
  <2> HIDE DEF s, nothing, no
  <2>2. /\ s.at = "payload" /\ s.stuttered = r.stuttered /\ s.stutter = r.stuttered
        /\ s.found = r.found /\ s.payload = nothing /\ s.num = no
    BY <1>1, <2>1, ReaderFields
  <2>3. p \in 3 .. c + 1 /\ p - 2 = k /\ p - 1 = c /\ p - p = 0
    BY <1>1, <1>3
  <2>4. nothing = [i \in 1 .. p - p |-> Bytes[ops[p + i - 1]]]
    <3>1. 1 .. p - p = {}
      BY <2>3
    <3> HIDE DEF p
    <3> QED BY <3>1 DEF nothing
  <2>5. \A i \in p .. p - 1 : FALSE
    BY <2>3
  <2>6. no = \E i \in p .. p - 1 : ops[i] = "OP_2"
    BY <2>5 DEF no
  <2>7. Within(s, ops, p, p)
    <3> HIDE DEF p
    <3> QED BY <1>1, <1>4, <2>2, <2>3, <2>4, <2>5, <2>6 DEF Within
  <2>8. Follows(s, ops, f, p)
    <3>1. r.found \o Attempted(f, ops, p - 2, r.stuttered) = f[1][FALSE]
      BY <1>1, <2>3
    <3> HIDE DEF p
    <3>2. p \in 3 .. p
      BY <2>3
    <3> QED BY <1>2, <2>2, <2>7, <3>1, <3>2 DEF Follows
  <2> QED BY <2>8 DEF s
<1>5. CASE ops[c] # "ord"
  <2>1. s = ReaderOf(next, empty, empty, r.payload, r.num, r.found)
    BY <1>1, <1>5, ReadFailed
  <2>2. empty \in BOOLEAN /\ (empty <=> k + 1 \in 1 .. Len(ops) /\ ops[k + 1] = "empty")
    BY <1>3
  <2>3. fromInstructions(ops, k, r.stuttered) =
          [cursor |-> k + 1, stutter |-> k + 1 \in 1 .. Len(ops) /\ ops[k + 1] = "empty",
           envelope |-> <<>>]
    <3>1. k + 1 \in 1 .. Len(ops) => ops[k + 1] # "ord"
      BY <1>3, <1>5
    <3> QED BY <1>1, <3>1, NoMarker
  <2>4. fromInstructions(ops, k, r.stuttered) = [cursor |-> c, stutter |-> empty, envelope |-> <<>>]
    BY <1>3, <2>3
  <2> HIDE DEF s, next, empty
  <2>5. Attempted(f, ops, k, r.stuttered) = f[c][empty]
    BY <1>1, <1>3, <2>2, <2>4, Resumes
  <2>6. s.at = next /\ s.stuttered = empty /\ s.stutter = empty /\ s.found = r.found
    BY <2>1, ReaderFields
  <2>7. r.found \o f[c][s.stuttered] = f[1][FALSE]
    BY <1>1, <2>5, <2>6
  <2>8. s.at = IF ops[c] = "empty" THEN "IF" ELSE "scan"
    BY <2>6 DEF next, empty
  <2>9. Follows(s, ops, f, c + 1)
    BY <1>1, <1>2, <2>6, <2>7, <2>8, FollowsScan
  <2> QED BY <2>9 DEF s
<1> QED BY <1>4, <1>5

LEMMA FollowsPush ==
  ASSUME NEW ops \in Seq(Instructions), NEW f, Scanned(f, ops), NEW c \in 1 .. Len(ops),
         NEW r, Follows(r, ops, f, c), r.at = "payload", ops[c] \in DOMAIN Bytes
  PROVE  Follows(Read(r, ops[c]), ops, f, c + 1)
<1> DEFINE s == Read(r, ops[c])
           longer == Append(r.payload, Bytes[ops[c]])
           num == r.num \/ ops[c] = "OP_2"
<1>1. /\ r \in Readers /\ ops[c] \in Instructions /\ r.stuttered \in BOOLEAN
      /\ r.stutter = r.stuttered /\ r.payload \in Seq(Pushed)
  BY ElementOfSeq DEF Follows, Readers
<1>2. PICK p \in 3 .. c : /\ Within(r, ops, p, c)
                          /\ r.found \o Attempted(f, ops, p - 2, r.stuttered) = f[1][FALSE]
  BY DEF Follows
<1>3. s \in Readers
  BY <1>1, ReaderTyped
<1>4. s = ReaderOf("payload", r.stuttered, r.stutter, longer, num, r.found)
  BY <1>1, ReadPush
<1> HIDE DEF s, longer, num
<1>5. /\ s.at = "payload" /\ s.stuttered = r.stuttered /\ s.stutter = r.stuttered
      /\ s.found = r.found /\ s.payload = longer /\ s.num = num
  BY <1>1, <1>4, ReaderFields
<1>6. /\ c - p \in Nat /\ (c + 1) - p = (c - p) + 1 /\ p + ((c - p) + 1) - 1 = c
      /\ p \in 3 .. c + 1 /\ (c + 1) - 1 = c /\ c \in p .. c
      /\ \A i \in p .. c : i = c \/ i \in p .. c - 1
      /\ \A i \in p .. c - 1 : i \in p .. c
  OBVIOUS
<1> DEFINE At(i) == Bytes[ops[p + i - 1]]
<1>7. longer = [i \in 1 .. (c + 1) - p |-> At(i)]
  <2>1. r.payload = [i \in 1 .. c - p |-> At(i)]
    BY <1>2 DEF Within
  <2>2. Bytes[ops[c]] \in Pushed
    BY DEF Pushed
  <2>3. At((c - p) + 1) = Bytes[ops[c]]
    BY <1>6
  <2> HIDE DEF At
  <2>4. Len(r.payload) = c - p
    <3>1. DOMAIN r.payload = 1 .. c - p /\ DOMAIN r.payload = 1 .. Len(r.payload) /\ Len(r.payload) \in Nat
      BY <1>1, <2>1, LenProperties
    <3> QED BY <1>6, <3>1
  <2>5. /\ longer \in Seq(Pushed) /\ Len(longer) = (c - p) + 1
        /\ \A i \in 1 .. c - p : longer[i] = r.payload[i]
        /\ longer[(c - p) + 1] = Bytes[ops[c]]
    BY <1>1, <2>2, <2>4, AppendProperties DEF longer
  <2>6. \A i \in 1 .. (c + 1) - p : longer[i] = At(i)
    <3> TAKE i \in 1 .. (c + 1) - p
    <3>1. CASE i = (c - p) + 1
      BY <2>3, <2>5, <3>1
    <3>2. CASE i \in 1 .. c - p
      BY <2>1, <2>5, <3>2
    <3> QED BY <1>6, <3>1, <3>2
  <2>7. DOMAIN longer = 1 .. (c + 1) - p /\ longer = [i \in DOMAIN longer |-> longer[i]]
    BY <1>6, <2>5, LenProperties
  <2> QED BY <2>6, <2>7
<1>8. num = \E i \in p .. (c + 1) - 1 : ops[i] = "OP_2"
  <2>1. r.num = \E i \in p .. c - 1 : ops[i] = "OP_2"
    BY <1>2 DEF Within
  <2> QED BY <1>6, <2>1 DEF num
<1>9. Within(s, ops, p, c + 1)
  <2>1. /\ ops[p - 2] = "OP_IF" /\ ops[p - 1] = "ord"
        /\ \A i \in p .. c - 1 : ops[i] \in DOMAIN Bytes
    BY <1>2 DEF Within
  <2>2. \A i \in p .. (c + 1) - 1 : ops[i] \in DOMAIN Bytes
    BY <1>6, <2>1
  <2> QED BY <1>5, <1>7, <1>8, <2>1, <2>2 DEF Within
<1>10. Follows(s, ops, f, c + 1)
  BY <1>2, <1>3, <1>5, <1>6, <1>9 DEF Follows
<1> QED BY <1>10 DEF s

\* The end of a payload, which gives an envelope or gives it up.
LEMMA FollowsEnd ==
  ASSUME NEW ops \in Seq(Instructions), NEW f, Scanned(f, ops), NEW c \in 1 .. Len(ops),
         NEW r, Follows(r, ops, f, c), r.at = "payload", ops[c] \notin DOMAIN Bytes
  PROVE  Follows(Read(r, ops[c]), ops, f, c + 1)
<1> DEFINE s == Read(r, ops[c])
           no == FALSE
<1>1. /\ r \in Readers /\ ops[c] \in Instructions /\ r.stuttered \in BOOLEAN
      /\ r.stutter = r.stuttered /\ r.payload \in Seq(Pushed) /\ r.num \in BOOLEAN
      /\ r.found \in Seq(Parsed)
  BY ElementOfSeq DEF Follows, Readers
<1>2. PICK p \in 3 .. c : /\ Within(r, ops, p, c)
                          /\ r.found \o Attempted(f, ops, p - 2, r.stuttered) = f[1][FALSE]
  BY DEF Follows
<1> DEFINE k == p - 2
           envelope == EnvelopeAt(ops, p, c, r.stuttered)
<1>3. s \in Readers
  BY <1>1, ReaderTyped
<1>4. /\ Len(ops) \in Nat /\ k \in 1 .. Len(ops) /\ k \in 1 .. Len(ops) + 1 /\ k + 1 \in 1 .. Len(ops)
      /\ k + 1 = p - 1 /\ k + 2 = p /\ c \in p .. Len(ops) /\ c + 1 \in 1 .. Len(ops) + 1
  BY LenProperties
<1>5. /\ ops[k] = "OP_IF" /\ ops[k + 1] = "ord" /\ \A i \in k + 2 .. c - 1 : ops[i] \in DOMAIN Bytes
  BY <1>2, <1>4 DEF Within
<1>6. fromInstructions(ops, k, r.stuttered) =
        [cursor |-> c + 1, stutter |-> no,
         envelope |-> IF ops[c] # "OP_ENDIF" THEN <<>> ELSE <<envelope>>]
  <2>1. fromInstructions(ops, k, r.stuttered) =
          [cursor |-> c + 1, stutter |-> FALSE,
           envelope |-> IF ops[c] # "OP_ENDIF" THEN <<>>
                        ELSE <<EnvelopeAt(ops, k + 2, c, r.stuttered)>>]
    <3> HIDE DEF k
    <3>1. c \in k + 2 .. Len(ops)
      BY <1>4
    <3> QED BY <1>1, <1>4, <1>5, <3>1, Closed
  <2> QED BY <1>4, <2>1
<1>7. no \in BOOLEAN
  OBVIOUS
<1>8. CASE ops[c] = "OP_ENDIF"
  <2> DEFINE closed == [payload |-> r.payload, pushnum |-> r.num, stutter |-> r.stutter]
             found == Append(r.found, closed)
             rest == f[c + 1][r.stuttered]
  <2>1. s = ReaderOf("scan", r.stuttered, r.stutter, r.payload, r.num, found)
    BY <1>1, <1>8, ReadEnd
  <2>2. closed = envelope
    BY <1>1, <1>2 DEF Within, EnvelopeAt
  <2>3. closed \in Parsed
    BY <1>1 DEF Parsed
  <2>4. rest \in Seq(Parsed)
    BY <1>1, <1>4 DEF Scanned
  <2> HIDE DEF s, closed, envelope, k
  <2>5. fromInstructions(ops, k, r.stuttered) =
          [cursor |-> c + 1, stutter |-> no, envelope |-> <<envelope>>]
    BY <1>6, <1>8
  <2> HIDE DEF no
  <2>6. r.found \o Attempted(f, ops, k, r.stuttered) = Append(r.found, envelope) \o rest
    <3> DEFINE next == c + 1
    <3>1. next \in 1 .. Len(ops) + 1 /\ rest = f[next][r.stuttered] /\ envelope \in Parsed
      BY <1>4, <2>2, <2>3
    <3>2. /\ fromInstructions(ops, k, r.stuttered).envelope = <<envelope>>
          /\ fromInstructions(ops, k, r.stuttered).cursor = next
      BY <2>5
    <3> HIDE DEF next
    <3>3. <<envelope>> # <<>>
      OBVIOUS
    <3>4. Attempted(f, ops, k, r.stuttered) = <<envelope>> \o rest
      BY <3>1, <3>2, <3>3 DEF Attempted
    <3> HIDE DEF rest
    <3>5. r.found \o (<<envelope>> \o rest) = Append(r.found, envelope) \o rest
      <4> DEFINE before == r.found
      <4>1. before \in Seq(Parsed)
        BY <1>1
      <4>2. rest \in Seq(Parsed)
        BY <2>4
      <4>3. envelope \in Parsed
        BY <3>1
      <4> HIDE DEF before
      <4>4. before \o (<<envelope>> \o rest) = Append(before, envelope) \o rest
        BY <4>1, <4>2, <4>3, AppendThenMore
      <4> QED BY <4>4 DEF before
    <3> QED BY <3>4, <3>5
  <2>7. found = Append(r.found, envelope)
    BY <2>2
  <2> HIDE DEF rest, found
  <2>8. s.at = "scan" /\ s.stuttered = r.stuttered /\ s.found = found
    BY <2>1, ReaderFields
  <2>9. s.found \o rest = f[1][FALSE]
    BY <1>2, <2>6, <2>7, <2>8 DEF k
  <2>10. Follows(s, ops, f, c + 1)
    BY <1>3, <2>8, <2>9 DEF Follows, rest
  <2> QED BY <2>10 DEF s
<1>9. CASE ops[c] # "OP_ENDIF"
  <2>1. s = ReaderOf("scan", no, r.stutter, r.payload, r.num, r.found)
    BY <1>1, <1>9, ReadDisallowed
  <2> HIDE DEF s, k, envelope
  <2>2. fromInstructions(ops, k, r.stuttered) = [cursor |-> c + 1, stutter |-> no, envelope |-> <<>>]
    BY <1>6, <1>9
  <2> HIDE DEF no
  <2>3. Attempted(f, ops, k, r.stuttered) = f[c + 1][no]
    BY <1>1, <1>4, <1>7, <2>2, Resumes
  <2>4. s.at = "scan" /\ s.stuttered = no /\ s.found = r.found
    BY <2>1, ReaderFields
  <2>5. s.found \o f[c + 1][s.stuttered] = f[1][FALSE]
    BY <1>2, <2>3, <2>4 DEF k
  <2>6. Follows(s, ops, f, c + 1)
    BY <1>3, <2>4, <2>5 DEF Follows
  <2> QED BY <2>6 DEF s
<1> QED BY <1>8, <1>9

LEMMA FollowsRead ==
  ASSUME NEW ops \in Seq(Instructions), NEW f, Scanned(f, ops), NEW c \in 1 .. Len(ops),
         NEW r, Follows(r, ops, f, c)
  PROVE  Follows(Read(r, ops[c]), ops, f, c + 1)
<1>1. r.at \in {"scan", "IF", "ord", "payload"}
  BY DEF Follows, Readers
<1> QED BY <1>1, FollowsScanning, FollowsProbe, FollowsMarker, FollowsPush, FollowsEnd

\* and at the end of the script the parser finds no more.
LEMMA NoneIsLeft ==
  ASSUME NEW ops \in Seq(Instructions), NEW f, Scanned(f, ops),
         NEW r, Follows(r, ops, f, Len(ops) + 1)
  PROVE  r.found = f[1][FALSE]
<1> DEFINE no == FALSE
           c == Len(ops) + 1
<1>1. /\ r \in Readers /\ r.stuttered \in BOOLEAN /\ r.found \in Seq(Parsed)
      /\ r.at \in {"scan", "IF", "ord", "payload"} /\ no \in BOOLEAN
  BY DEF Follows, Readers
<1>2. Len(ops) \in Nat /\ c \in 1 .. Len(ops) + 1 /\ c \in Nat /\ c \notin 1 .. Len(ops) /\ c - 1 + 1 = c
  BY LenProperties
<1>3. \A stuttered \in BOOLEAN : f[c][stuttered] = <<>>
  BY ScanSteps
<1>4. SUFFICES r.found \o <<>> = f[1][FALSE]
  BY <1>1, ConcatEmptySeq
<1>5. CASE r.at = "scan"
  BY <1>1, <1>3, <1>5 DEF Follows
<1>6. CASE r.at = "IF"
  <2>1. fromInstructions(ops, c, r.stuttered) =
          [cursor |-> c, stutter |-> c \in 1 .. Len(ops) /\ ops[c] = "empty", envelope |-> <<>>]
    BY <1>2, NoIf
  <2>2. fromInstructions(ops, c, r.stuttered) = [cursor |-> c, stutter |-> no, envelope |-> <<>>]
    BY <1>2, <2>1
  <2> HIDE DEF no, c
  <2>3. Attempted(f, ops, c, r.stuttered) = f[c][no]
    BY <1>1, <1>2, <2>2, Resumes
  <2>4. r.found \o Attempted(f, ops, c, r.stuttered) = f[1][FALSE]
    BY <1>6 DEF Follows, c
  <2> QED BY <1>1, <1>3, <2>3, <2>4
<1>7. CASE r.at = "ord"
  <2> DEFINE k == c - 1
  <2>1. /\ k \in 1 .. Len(ops) /\ ops[k] = "OP_IF"
        /\ r.found \o Attempted(f, ops, k, r.stuttered) = f[1][FALSE]
    BY <1>7 DEF Follows
  <2>2. k + 1 = c /\ k \in 1 .. Len(ops) + 1
    BY <1>2, <2>1
  <2> HIDE DEF k, c
  <2>3. fromInstructions(ops, k, r.stuttered) =
          [cursor |-> k + 1, stutter |-> k + 1 \in 1 .. Len(ops) /\ ops[k + 1] = "empty",
           envelope |-> <<>>]
    BY <1>2, <2>1, <2>2, NoMarker
  <2>4. fromInstructions(ops, k, r.stuttered) = [cursor |-> c, stutter |-> no, envelope |-> <<>>]
    BY <1>2, <2>2, <2>3
  <2> HIDE DEF no
  <2>5. Attempted(f, ops, k, r.stuttered) = f[c][no]
    BY <1>1, <1>2, <2>2, <2>4, Resumes
  <2> QED BY <1>1, <1>3, <2>1, <2>5
<1>8. CASE r.at = "payload"
  <2>1. PICK p \in 3 .. c : /\ Within(r, ops, p, c)
                            /\ r.found \o Attempted(f, ops, p - 2, r.stuttered) = f[1][FALSE]
    BY <1>8 DEF Follows
  <2> DEFINE k == p - 2
  <2>2. /\ k \in 1 .. Len(ops) /\ k \in 1 .. Len(ops) + 1 /\ k + 1 \in 1 .. Len(ops)
        /\ k + 1 = p - 1 /\ k + 2 = p /\ c - 1 = Len(ops)
    BY <1>2
  <2>3. /\ ops[k] = "OP_IF" /\ ops[k + 1] = "ord"
        /\ \A i \in k + 2 .. Len(ops) : ops[i] \in DOMAIN Bytes
    BY <2>1, <2>2 DEF Within
  <2>4. fromInstructions(ops, k, r.stuttered) = [cursor |-> c, stutter |-> no, envelope |-> <<>>]
    BY <2>2, <2>3, CutShort
  <2> HIDE DEF no, c, k
  <2>5. Attempted(f, ops, k, r.stuttered) = f[c][no]
    BY <1>1, <1>2, <2>2, <2>4, Resumes
  <2> QED BY <1>1, <1>3, <2>1, <2>5 DEF k
<1> QED BY <1>1, <1>5, <1>6, <1>7, <1>8

\* So the reader finds what the parser finds.
LEMMA ReaderFindsTheSame ==
  ASSUME NEW ops \in Seq(Instructions), ~ Contains(ops, "cut")
  PROVE  /\ parseEnvelopesFromScript(ops) = ReadAll(ops).found
         /\ ReadAll(ops) \in Readers
<1>1. PICK f : parseEnvelopesFromScript(ops) = f[1][FALSE] /\ Scanned(f, ops)
  BY ParsedByScan DEF Scanned
<1>2. PICK h : Progress(h, ops) /\ ReadAll(ops) = h[Len(ops)]
  BY ReadAllIsProgress
<1> DEFINE S == {n \in Nat : n <= Len(ops) => Follows(h[n], ops, f, n + 1)}
<1>3. Len(ops) \in Nat
  BY LenProperties
<1>4. 0 \in S
  <2>1. h[0] = Started /\ Started \in Readers
    BY <1>2, StartedTyped DEF Progress
  <2>2. f[1][FALSE] \in Seq(Parsed)
    <3>1. 1 \in 1 .. Len(ops) + 1 /\ FALSE \in BOOLEAN
      BY <1>3
    <3> QED BY <1>1, <3>1 DEF Scanned
  <2> DEFINE all == f[1][FALSE]
  <2>3. Started.at = "scan" /\ Started.found \o f[1][Started.stuttered] = <<>> \o all
    BY DEF Started
  <2>4. <<>> \o all = all
    <3> HIDE DEF all
    <3> QED BY <2>2, ConcatEmptySeq DEF all
  <2>5. Follows(Started, ops, f, 1)
    BY <2>1, <2>3, <2>4 DEF Follows
  <2>6. 0 + 1 = 1
    OBVIOUS
  <2> QED BY <2>1, <2>5, <2>6
<1>5. ASSUME NEW n \in Nat, n \in S PROVE n + 1 \in S
  <2> SUFFICES ASSUME n + 1 <= Len(ops) PROVE Follows(h[n + 1], ops, f, (n + 1) + 1)
    OBVIOUS
  <2>1. n + 1 \in 1 .. Len(ops) /\ (n + 1) - 1 = n /\ n <= Len(ops)
    BY <1>3
  <2>2. Follows(h[n], ops, f, n + 1) /\ h[n + 1] = Read(h[n], ops[n + 1])
    BY <1>2, <1>5, <2>1 DEF Progress
  <2> QED BY <1>1, <2>1, <2>2, FollowsRead
<1>6. Len(ops) \in S
  <2> HIDE DEF S
  <2> QED BY <1>3, <1>4, <1>5, InductionBySet
<1>7. Follows(ReadAll(ops), ops, f, Len(ops) + 1)
  BY <1>2, <1>3, <1>6
<1>8. ReadAll(ops) \in Readers
  BY <1>7 DEF Follows
<1> QED BY <1>1, <1>7, <1>8, NoneIsLeft

(* ------------------------------ the reveal ----------------------------- *)

\* What the reader is while a script is written: it read the script, or it came to a cut.
EnvelopeInv ==
  /\ reveal[1] \in FirstInputs /\ Writing \in Seq(Instructions)
  /\ reveal = <<reveal[1], ScriptPath(Writing)>>
  /\ reader = IF Contains(Writing, "cut") THEN [Started EXCEPT !.at = "cut"] ELSE ReadAll(Writing)

\* What is before what was appended.
LEMMA BeforeLast ==
  ASSUME NEW S, NEW s \in Seq(S), NEW x \in S
  PROVE  Front(Append(s, x)) = s /\ Last(Append(s, x)) = x /\ Len(Append(s, x)) = Len(s) + 1
<1> DEFINE more == Append(s, x)
<1>1. /\ more \in Seq(S) /\ Len(more) = Len(s) + 1 /\ Len(s) \in Nat
      /\ \A i \in 1 .. Len(s) : more[i] = s[i]
      /\ more[Len(s) + 1] = x
  BY AppendProperties, LenProperties
<1> HIDE DEF more
<1>2. Front(more) = SubSeq(more, 1, Len(s))
  BY <1>1 DEF Front
<1>3. \A i \in 1 .. Len(s) : more[i] \in S
  BY <1>1, ElementOfSeq
<1>4. /\ Front(more) \in Seq(S) /\ Len(Front(more)) = Len(s)
      /\ \A i \in 1 .. Len(s) : Front(more)[i] = more[i]
  <2> DEFINE front == SubSeq(more, 1, Len(s))
  <2>1. /\ front \in Seq(S)
        /\ Len(front) = IF 1 <= Len(s) THEN Len(s) - 1 + 1 ELSE 0
        /\ \A i \in 1 .. Len(s) - 1 + 1 : front[i] = more[1 + i - 1]
    BY <1>1, <1>3, SubSeqProperties
  <2> HIDE DEF front
  <2>2. Len(front) = Len(s) /\ \A i \in 1 .. Len(s) : front[i] = more[i]
    BY <1>1, <2>1
  <2> QED BY <1>2, <2>1, <2>2 DEF front
<1>5. Front(more) = s
  BY <1>1, <1>4, SeqEqual
<1>6. Last(more) = x
  BY <1>1 DEF Last
<1> QED BY <1>1, <1>5, <1>6 DEF more

LEMMA StackHolds ==
  ASSUME NEW witness, NEW stack,
         stack = IF Len(witness) >= 2 /\ Last(witness).annex THEN Front(witness) ELSE witness
  PROVE  extractTapscript(witness) =
           IF Len(stack) < 2 THEN <<>> ELSE <<stack[Len(stack) - 1].script>>
BY DEF extractTapscript

\* The script of a script path spend, with or without an annex, and of a key path spend.
LEMMA ScriptOfPath ==
  ASSUME NEW script
  PROVE  /\ extractTapscript(ScriptPath(script)) = <<script>>
         /\ extractTapscript(Append(ScriptPath(script), Annex)) = <<script>>
         /\ extractTapscript(<<Item(<<>>), Annex>>) = <<>>
         /\ Len(ScriptPath(script)) = 3 /\ Len(Append(ScriptPath(script), Annex)) = 4
<1> DEFINE nothing == Item(<<>>)
           item == Item(script)
           path == <<nothing, item, nothing>>
           more == Append(path, Annex)
           key == <<nothing, Annex>>
           S == {nothing, item, Annex}
<1>1. ScriptPath(script) = path
  BY DEF ScriptPath
<1>2. item.script = script /\ nothing.annex = FALSE /\ Annex.annex = TRUE
  BY DEF Item, Annex
<1> HIDE DEF nothing, item
<1>3. path \in Seq(S) /\ Len(path) = 3 /\ path[3] = nothing /\ path[2] = item /\ Annex \in S
  OBVIOUS
<1>4. key \in Seq(S) /\ Len(key) = 2 /\ key[2] = Annex
  OBVIOUS
<1> HIDE DEF path, key, S
<1>5. extractTapscript(path) = <<script>>
  <2>1. path = IF Len(path) >= 2 /\ Last(path).annex THEN Front(path) ELSE path
    BY <1>2, <1>3 DEF Last
  <2>2. extractTapscript(path) = IF Len(path) < 2 THEN <<>> ELSE <<path[Len(path) - 1].script>>
    BY <2>1, StackHolds
  <2>3. Len(path) - 1 = 2
    BY <1>3
  <2> QED BY <1>2, <1>3, <2>2, <2>3
<1>6. Len(more) = 4 /\ Front(more) = path /\ Last(more) = Annex
  <2>1. Front(Append(path, Annex)) = path /\ Last(Append(path, Annex)) = Annex
    BY <1>3, BeforeLast
  <2>2. Len(Append(path, Annex)) = Len(path) + 1
    BY <1>3, AppendProperties
  <2> QED BY <1>3, <2>1, <2>2
<1>7. extractTapscript(more) = <<script>>
  <2> HIDE DEF more
  <2>1. path = IF Len(more) >= 2 /\ Last(more).annex THEN Front(more) ELSE more
    BY <1>2, <1>6
  <2>2. extractTapscript(more) = IF Len(path) < 2 THEN <<>> ELSE <<path[Len(path) - 1].script>>
    BY <2>1, StackHolds
  <2>3. Len(path) - 1 = 2
    BY <1>3
  <2> QED BY <1>2, <1>3, <2>2, <2>3
<1>8. extractTapscript(key) = <<>>
  <2> DEFINE front == Front(key)
  <2>1. Len(front) = 1
    <3>1. key[1] \in S /\ key[2] \in S
      BY <1>4, ElementOfSeq
    <3>2. front = SubSeq(key, 1, 1)
      BY <1>4 DEF Front
    <3>3. \A i \in 1 .. 1 : key[i] \in S
      BY <3>1
    <3>4. Len(SubSeq(key, 1, 1)) = IF 1 <= 1 THEN 1 - 1 + 1 ELSE 0
      BY <3>3, SubSeqProperties
    <3> QED BY <3>2, <3>4
  <2>2. front = IF Len(key) >= 2 /\ Last(key).annex THEN Front(key) ELSE key
    BY <1>2, <1>4 DEF Last
  <2> HIDE DEF front
  <2>3. extractTapscript(key) = IF Len(front) < 2 THEN <<>> ELSE <<front[Len(front) - 1].script>>
    BY <2>2, StackHolds
  <2> QED BY <2>1, <2>3
<1> QED BY <1>1, <1>3, <1>5, <1>6, <1>7, <1>8 DEF nothing, key

LEMMA WritingIs ==
  ASSUME NEW first, NEW script
  PROVE  extractTapscript(Last(<<first, ScriptPath(script)>>))[1] = script
<1>1. Last(<<first, ScriptPath(script)>>) = ScriptPath(script)
  BY DEF Last
<1> QED BY <1>1, ScriptOfPath

LEMMA InstructionsAre ==
  /\ {"empty", "ord", "pointer", "OP_2", "wide"} \subseteq Instructions
  /\ {"OP_IF", "OP_ENDIF", "OP_DROP", "cut"} \subseteq Instructions
BY DEF Instructions, Bytes

LEMMA BegunAreScripts ==
  ASSUME NEW begun \in Begun
  PROVE  begun \in Seq(Instructions) /\ ~ Contains(begun, "cut")
<1>1. \A x, y \in Instructions : <<x, y>> \in Seq(Instructions)
  OBVIOUS
<1>2. CASE begun = <<>>
  BY <1>2, EmptySeq DEF Contains
<1>3. CASE begun = <<"empty", "OP_IF">>
  <2>1. begun \in Seq(Instructions)
    BY <1>3, InstructionsAre
  <2>2. \A i \in 1 .. 2 : begun[i] # "cut"
    BY <1>3
  <2> QED BY <1>3, <2>1, <2>2 DEF Contains
<1>4. CASE begun = <<"empty", "OP_IF", "ord", "pointer", "ord">>
  <2>1. begun \in Seq(Instructions)
    BY <1>4, InstructionsAre
  <2>2. \A i \in 1 .. 5 : begun[i] # "cut"
    BY <1>4
  <2> QED BY <1>4, <2>1, <2>2 DEF Contains
<1>5. CASE begun = <<"empty", "empty", "OP_IF", "ord", "OP_ENDIF", "empty">>
  <2>1. begun \in Seq(Instructions)
    BY <1>5, InstructionsAre
  <2>2. \A i \in 1 .. 6 : begun[i] # "cut"
    BY <1>5
  <2> QED BY <1>5, <2>1, <2>2 DEF Contains
<1> QED BY <1>2, <1>3, <1>4, <1>5 DEF Begun

LEMMA EnvelopeStarts == EnvelopeInit => EnvelopeInv
<1> SUFFICES ASSUME NEW first \in FirstInputs, NEW begun \in Begun,
                    reveal = <<first, ScriptPath(begun)>>, reader = ReadAll(begun)
             PROVE  EnvelopeInv
  BY DEF EnvelopeInit
<1>1. begun \in Seq(Instructions) /\ ~ Contains(begun, "cut")
  BY BegunAreScripts
<1>2. Writing = begun /\ reveal[1] = first
  BY WritingIs DEF Writing
<1> QED BY <1>1, <1>2 DEF EnvelopeInv

\* A cut is in a script once it was written.
LEMMA ContainsAppended ==
  ASSUME NEW S, NEW s \in Seq(S), NEW x \in S, NEW y
  PROVE  Contains(Append(s, x), y) <=> Contains(s, y) \/ x = y
<1>1. /\ Len(Append(s, x)) = Len(s) + 1 /\ Len(s) \in Nat
      /\ \A i \in 1 .. Len(s) : Append(s, x)[i] = s[i]
      /\ Append(s, x)[Len(s) + 1] = x
  BY AppendProperties, LenProperties
<1>2. ASSUME NEW i \in 1 .. Len(s) + 1, Append(s, x)[i] = y PROVE Contains(s, y) \/ x = y
  <2>1. CASE i = Len(s) + 1
    BY <1>1, <1>2, <2>1
  <2>2. CASE i \in 1 .. Len(s)
    BY <1>1, <1>2, <2>2 DEF Contains
  <2> QED BY <1>1, <2>1, <2>2
<1>3. Contains(s, y) => \E i \in 1 .. Len(s) + 1 : Append(s, x)[i] = y
  <2> SUFFICES ASSUME NEW i \in 1 .. Len(s), s[i] = y
               PROVE  \E j \in 1 .. Len(s) + 1 : Append(s, x)[j] = y
    BY DEF Contains
  <2>1. i \in 1 .. Len(s) + 1
    BY <1>1
  <2> QED BY <1>1, <2>1
<1>4. x = y => \E i \in 1 .. Len(s) + 1 : Append(s, x)[i] = y
  <2>1. Len(s) + 1 \in 1 .. Len(s) + 1
    BY <1>1
  <2> QED BY <1>1, <2>1
<1>5. Contains(Append(s, x), y) <=> \E i \in 1 .. Len(s) + 1 : Append(s, x)[i] = y
  BY <1>1 DEF Contains
<1> QED BY <1>2, <1>3, <1>4, <1>5

LEMMA EnvelopeKeeps == EnvelopeInv /\ [Write]_envelopeVars => EnvelopeInv'
<1> SUFFICES ASSUME EnvelopeInv, [Write]_envelopeVars PROVE EnvelopeInv'
  OBVIOUS
<1> DEFINE script == Writing
<1>1. CASE UNCHANGED envelopeVars
  BY <1>1 DEF EnvelopeInv, envelopeVars, Writing
<1>2. CASE Write
  <2>1. PICK op \in Instructions :
          /\ reveal' = <<reveal[1], ScriptPath(Append(script, op))>>
          /\ reader' = IF op = "cut" THEN [Started EXCEPT !.at = "cut"] ELSE Read(reader, op)
    BY <1>2 DEF Write
  <2>2. ~ Contains(script, "cut") /\ script \in Seq(Instructions) /\ reader = ReadAll(script)
    BY <1>2 DEF Write, EnvelopeInv
  <2>3. Writing' = Append(script, op) /\ reveal'[1] = reveal[1]
    <3>1. extractTapscript(Last(<<reveal[1], ScriptPath(Append(script, op))>>))[1] = Append(script, op)
      <4> HIDE DEF script
      <4> QED BY WritingIs
    <3>2. Writing' = extractTapscript(Last(reveal'))[1]
      BY DEF Writing
    <3> HIDE DEF script
    <3> QED BY <2>1, <3>1, <3>2
  <2>4. reveal[1] \in FirstInputs
    BY DEF EnvelopeInv
  <2> HIDE DEF script
  <2>5. Append(script, op) \in Seq(Instructions)
    BY <2>2, AppendProperties
  <2>6. Contains(Append(script, op), "cut") <=> op = "cut"
    <3>1. Contains(Append(script, op), "cut") <=> Contains(script, "cut") \/ op = "cut"
      BY <2>2, ContainsAppended
    <3> QED BY <2>2, <3>1
  <2>7. ReadAll(Append(script, op)) = Read(reader, op)
    BY <2>2, ReadAllSteps
  <2>8. (reveal[1] \in FirstInputs)'
    <3>1. FirstInputs' = FirstInputs
      BY DEF FirstInputs
    <3> QED BY <2>3, <2>4
  <2> QED BY <2>1, <2>3, <2>5, <2>6, <2>7, <2>8 DEF EnvelopeInv
<1> QED BY <1>1, <1>2

\* Whatever is written, ord's reader has read it from the start, or came to a cut push.
THEOREM ReaderKeepsUp == EnvelopeSpec => []EnvelopeInv
BY EnvelopeStarts, EnvelopeKeeps, PTL DEF EnvelopeSpec

LEMMA FlattenTwo ==
  ASSUME NEW s, Len(s) = 2
  PROVE  FlattenSeq(s) = s[1] \o s[2]
<1> DEFINE Flat(f) == f = [i \in 1 .. Len(s) |-> IF i = 1 THEN s[i] ELSE f[i - 1] \o s[i]]
           flatten == CHOOSE f : Flat(f)
           g == [i \in 1 .. 2 |-> IF i = 1 THEN s[1] ELSE s[1] \o s[2]]
<1>1. FlattenSeq(s) = flatten[2]
  BY DEF FlattenSeq
<1>2. Flat(g)
  <2>1. \A i \in 1 .. 2 : g[i] = IF i = 1 THEN s[i] ELSE g[i - 1] \o s[i]
    <3> TAKE i \in 1 .. 2
    <3>1. i = 1 \/ i = 2
      OBVIOUS
    <3>2. g[1] = s[1] /\ g[2] = s[1] \o s[2]
      OBVIOUS
    <3>3. 2 - 1 = 1
      OBVIOUS
    <3> HIDE DEF g
    <3> QED BY <3>1, <3>2, <3>3
  <2>2. g = [i \in 1 .. 2 |-> g[i]]
    OBVIOUS
  <2> HIDE DEF g
  <2> QED BY <2>1, <2>2
<1>3. Flat(flatten)
  <2> HIDE DEF Flat, g
  <2> QED BY <1>2
<1> HIDE DEF flatten
<1>4. flatten[1] = s[1] /\ flatten[2] = flatten[2 - 1] \o s[2]
  <2>1. 1 \in 1 .. Len(s) /\ 2 \in 1 .. Len(s)
    OBVIOUS
  <2> QED BY <1>3, <2>1
<1>5. 2 - 1 = 1
  OBVIOUS
<1> QED BY <1>1, <1>4, <1>5

\* The first input's script has one envelope.
LEMMA OneEnvelope ==
  LET script == <<"empty", "empty", "OP_IF", "ord", "OP_ENDIF">>
  IN  script \in Seq(Instructions) /\ ~ Contains(script, "cut") /\ Len(ReadAll(script).found) = 1
<1> DEFINE script == <<"empty", "empty", "OP_IF", "ord", "OP_ENDIF">>
<1>1. script \in Seq(Instructions)
  BY InstructionsAre
<1>2. /\ Len(script) = 5 /\ script[1] = "empty" /\ script[2] = "empty" /\ script[3] = "OP_IF"
      /\ script[4] = "ord" /\ script[5] = "OP_ENDIF"
  OBVIOUS
<1> HIDE DEF script
<1>3. ~ Contains(script, "cut")
  <2>1. \A i \in 1 .. 5 : i = 1 \/ i = 2 \/ i = 3 \/ i = 4 \/ i = 5
    OBVIOUS
  <2>2. \A i \in 1 .. 5 : script[i] # "cut"
    BY <1>2, <2>1
  <2> QED BY <1>2, <2>2 DEF Contains
<1>4. PICK h : Progress(h, script) /\ ReadAll(script) = h[5]
  BY <1>1, <1>2, ReadAllIsProgress
<1>5. /\ h[0] \in Readers /\ h[1] \in Readers /\ h[2] \in Readers /\ h[3] \in Readers
      /\ h[4] \in Readers
  <2>1. \A n \in 0 .. Len(script) : h[n] \in Readers
    BY <1>1, <1>4, ProgressTyped
  <2>2. \A n \in 0 .. 5 : h[n] \in Readers
    BY <1>2, <2>1
  <2> QED BY <2>2
<1>6. /\ h[0] = Started /\ h[1] = Read(h[0], script[1]) /\ h[2] = Read(h[1], script[2])
      /\ h[3] = Read(h[2], script[3]) /\ h[4] = Read(h[3], script[4]) /\ h[5] = Read(h[4], script[5])
  BY <1>2, <1>4 DEF Progress
<1>7. /\ script[1] \in Instructions /\ script[2] \in Instructions /\ script[3] \in Instructions
      /\ script[4] \in Instructions /\ script[5] \in Instructions
  BY <1>2, InstructionsAre
<1>8. h[0].at = "scan" /\ h[0].found = <<>>
  BY <1>6 DEF Started
<1>9. h[1].at = "IF" /\ h[1].found = <<>>
  <2>1. h[1] = ReaderOf("IF", h[0].stuttered, h[0].stuttered, h[0].payload, h[0].num, h[0].found)
    <3>1. h[1] = ReaderOf(IF script[1] = "empty" THEN "IF" ELSE "scan", h[0].stuttered,
                          h[0].stuttered, h[0].payload, h[0].num, h[0].found)
      BY <1>5, <1>6, <1>7, <1>8, ReadScanning
    <3> QED BY <1>2, <3>1
  <2> QED BY <1>8, <2>1, ReaderFields
<1>10. h[2].at = "IF" /\ h[2].found = <<>>
  <2>1. h[2] = ReaderOf("IF", TRUE, TRUE, h[1].payload, h[1].num, h[1].found)
    <3>1. h[2] = ReaderOf(IF script[2] = "empty" THEN "IF" ELSE "scan", script[2] = "empty",
                          script[2] = "empty", h[1].payload, h[1].num, h[1].found)
      <4>1. script[2] # "OP_IF"
        BY <1>2
      <4> QED BY <1>5, <1>6, <1>7, <1>9, <4>1, ReadFailed
    <3>2. (script[2] = "empty") = TRUE
      BY <1>2
    <3> QED BY <3>1, <3>2
  <2> DEFINE yes == TRUE
  <2>2. h[2] = ReaderOf("IF", yes, yes, h[1].payload, h[1].num, h[1].found)
    BY <2>1
  <2> HIDE DEF yes
  <2> QED BY <1>9, <2>2, ReaderFields
<1>11. h[3].at = "ord" /\ h[3].found = <<>>
  <2>1. h[3] = ReaderOf("ord", h[2].stuttered, h[2].stutter, h[2].payload, h[2].num, h[2].found)
    BY <1>2, <1>5, <1>6, <1>7, <1>10, ReadProbe
  <2> QED BY <1>10, <2>1, ReaderFields
<1>12. h[4].at = "payload" /\ h[4].found = <<>>
  <2> DEFINE no == FALSE
             nothing == <<>>
  <2>1. h[4] = ReaderOf("payload", h[3].stuttered, h[3].stutter, nothing, no, h[3].found)
    BY <1>2, <1>5, <1>6, <1>7, <1>11, ReadMarker
  <2> HIDE DEF no, nothing
  <2>2. h[4].at = "payload" /\ h[4].found = h[3].found
    BY <2>1, ReaderFields
  <2> QED BY <1>11, <2>2
<1>13. Len(h[5].found) = 1
  <2> DEFINE closed == [payload |-> h[4].payload, pushnum |-> h[4].num, stutter |-> h[4].stutter]
             found == Append(h[4].found, closed)
  <2>1. h[5] = ReaderOf("scan", h[4].stuttered, h[4].stutter, h[4].payload, h[4].num, found)
    BY <1>2, <1>5, <1>6, <1>7, <1>12, ReadEnd
  <2>2. Len(found) = 1
    <3> HIDE DEF closed
    <3> DEFINE nothing == <<>>
    <3>1. nothing \in Seq({closed}) /\ Len(nothing) = 0 /\ h[4].found = nothing
      BY <1>12, EmptySeq
    <3> HIDE DEF nothing
    <3>2. Len(Append(nothing, closed)) = Len(nothing) + 1
      BY <3>1, AppendProperties
    <3> QED BY <3>1, <3>2
  <2> HIDE DEF found
  <2>3. h[5].found = found
    BY <2>1, ReaderFields
  <2> QED BY <2>2, <2>3
<1> QED BY <1>1, <1>3, <1>4, <1>13 DEF script

\* What the parser makes of an input, and that it is what the reader found.
FoundIn(witness) ==
  LET tapscript == extractTapscript(witness)
  IN  IF tapscript = <<>> THEN <<>> ELSE parseEnvelopesFromScript(tapscript[1])

NumberedOf(found, vin) ==
  [i \in DOMAIN found |-> [envelope |-> found[i], input |-> vin, offsetInInput |-> i - 1]]

LEMMA NumberedTwo ==
  ASSUME NEW first, NEW second, reveal = <<first, second>>
  PROVE  Numbered = NumberedOf(FoundIn(first), 1) \o NumberedOf(FoundIn(second), 2)
<1> DEFINE all == [vin \in DOMAIN reveal |-> NumberedOf(FoundIn(reveal[vin]), vin)]
<1>1. DOMAIN reveal = 1 .. 2 /\ reveal[1] = first /\ reveal[2] = second
  OBVIOUS
<1>2. Numbered = FlattenSeq(all)
  BY DEF Numbered, parseEnvelopesFromTx, NumberedOf, FoundIn
<1>3. Len(all) = 2 /\ all[1] = NumberedOf(FoundIn(first), 1) /\ all[2] = NumberedOf(FoundIn(second), 2)
  BY <1>1
<1> HIDE DEF all
<1>4. FlattenSeq(all) = all[1] \o all[2]
  BY <1>3, FlattenTwo
<1> QED BY <1>2, <1>3, <1>4

LEMMA FoundByReader ==
  ASSUME EnvelopeInv
  PROVE  /\ FoundIn(ScriptPath(Writing)) = reader.found /\ reader.found \in Seq(Parsed)
<1>1. /\ Writing \in Seq(Instructions)
      /\ reader = IF Contains(Writing, "cut") THEN [Started EXCEPT !.at = "cut"] ELSE ReadAll(Writing)
  BY DEF EnvelopeInv
<1>2. FoundIn(ScriptPath(Writing)) = parseEnvelopesFromScript(Writing)
  <2> DEFINE script == Writing
             one == <<script>>
  <2>1. extractTapscript(ScriptPath(script)) = one
    <3> HIDE DEF script
    <3> QED BY ScriptOfPath
  <2>2. one # <<>> /\ one[1] = script
    <3> HIDE DEF script
    <3> QED OBVIOUS
  <2> HIDE DEF script, one
  <2> QED BY <2>1, <2>2 DEF FoundIn, script
<1>3. CASE Contains(Writing, "cut")
  <2>1. parseEnvelopesFromScript(Writing) = <<>>
    BY <1>3 DEF parseEnvelopesFromScript
  <2>2. reader.found = <<>>
    BY <1>1, <1>3 DEF Started
  <2> QED BY <1>2, <2>1, <2>2, EmptySeq
<1>4. CASE ~ Contains(Writing, "cut")
  <2>1. parseEnvelopesFromScript(Writing) = ReadAll(Writing).found /\ ReadAll(Writing) \in Readers
    BY <1>1, <1>4, ReaderFindsTheSame
  <2>2. reader = ReadAll(Writing)
    BY <1>1, <1>4
  <2> QED BY <1>2, <2>1, <2>2 DEF Readers
<1> QED BY <1>3, <1>4

LEMMA FoundEarlier ==
  ASSUME EnvelopeInv
  PROVE  /\ FoundIn(reveal[1]) \in Seq(Parsed) /\ Len(FoundIn(reveal[1])) = Earlier
         /\ Earlier \in {0, 1}
<1> DEFINE script == <<"empty", "empty", "OP_IF", "ord", "OP_ENDIF">>
           nothing == Item(<<>>)
<1>1. reveal[1] = <<nothing, Annex>> \/ reveal[1] = Append(ScriptPath(script), Annex)
  BY DEF EnvelopeInv, FirstInputs
<1>2. CASE reveal[1] = <<nothing, Annex>>
  <2>1. extractTapscript(reveal[1]) = <<>>
    BY <1>2, ScriptOfPath
  <2>2. FoundIn(reveal[1]) = <<>>
    BY <2>1 DEF FoundIn
  <2>3. Len(reveal[1]) = 2
    <3> HIDE DEF nothing
    <3> QED BY <1>2
  <2>4. Earlier = 0
    BY <2>3 DEF Earlier
  <2> QED BY <2>2, <2>4, EmptySeq
<1>3. CASE reveal[1] = Append(ScriptPath(script), Annex)
  <2>1. /\ script \in Seq(Instructions) /\ ~ Contains(script, "cut")
        /\ Len(ReadAll(script).found) = 1
    BY OneEnvelope
  <2> HIDE DEF script
  <2> DEFINE one == <<script>>
  <2>2. extractTapscript(reveal[1]) = one /\ Len(reveal[1]) = 4
    BY <1>3, ScriptOfPath
  <2>3. one # <<>> /\ one[1] = script
    OBVIOUS
  <2>4. parseEnvelopesFromScript(script) = ReadAll(script).found /\ ReadAll(script) \in Readers
    BY <2>1, ReaderFindsTheSame
  <2> HIDE DEF one
  <2>5. FoundIn(reveal[1]) = ReadAll(script).found
    BY <2>2, <2>3, <2>4 DEF FoundIn
  <2>6. Earlier = 1
    BY <2>2 DEF Earlier
  <2>7. ReadAll(script).found \in Seq(Parsed)
    BY <2>4 DEF Readers
  <2> QED BY <2>1, <2>5, <2>6, <2>7
<1> QED BY <1>1, <1>2, <1>3

\* What is numbered: the envelopes of the first input, then those the reader found.
LEMMA NumberedParts ==
  ASSUME EnvelopeInv
  PROVE  \E before, after :
           /\ before \in Seq(Parsed) /\ after \in Seq(Parsed)
           /\ Len(before) = Earlier /\ after = reader.found
           /\ Numbered = NumberedOf(before, 1) \o NumberedOf(after, 2)
<1>1. reveal = <<reveal[1], ScriptPath(Writing)>>
  BY DEF EnvelopeInv
<1>2. Numbered = NumberedOf(FoundIn(reveal[1]), 1) \o NumberedOf(FoundIn(ScriptPath(Writing)), 2)
  BY <1>1, NumberedTwo
<1> QED BY <1>2, FoundByReader, FoundEarlier

LEMMA NumberedIs ==
  ASSUME NEW found \in Seq(Parsed), NEW vin \in Nat
  PROVE  LET numbered == NumberedOf(found, vin)
         IN  /\ numbered \in Seq([envelope : Parsed, input : Nat, offsetInInput : Nat])
             /\ Len(numbered) = Len(found)
             /\ \A i \in 1 .. Len(found) :
                  numbered[i] = [envelope |-> found[i], input |-> vin, offsetInInput |-> i - 1]
<1> DEFINE At(i) == [envelope |-> found[i], input |-> vin, offsetInInput |-> i - 1]
           All == [envelope : Parsed, input : Nat, offsetInInput : Nat]
           numbered == [i \in 1 .. Len(found) |-> At(i)]
<1>1. Len(found) \in Nat /\ DOMAIN found = 1 .. Len(found)
  BY LenProperties
<1>2. NumberedOf(found, vin) = numbered
  BY <1>1 DEF NumberedOf
<1>3. \A i \in 1 .. Len(found) : At(i) \in All
  <2> TAKE i \in 1 .. Len(found)
  <2>1. found[i] \in Parsed /\ i - 1 \in Nat
    BY ElementOfSeq
  <2> QED BY <2>1
<1> HIDE DEF At, All
<1>4. numbered \in Seq(All)
  BY <1>1, <1>3, IsASeq
<1>5. Len(numbered) = Len(found)
  BY <1>1
<1>6. \A i \in 1 .. Len(found) : numbered[i] = At(i)
  OBVIOUS
<1> HIDE DEF numbered
<1>7. \A i \in 1 .. Len(found) : numbered[i] = [envelope |-> found[i], input |-> vin, offsetInInput |-> i - 1]
  BY <1>6 DEF At
<1> QED BY <1>2, <1>4, <1>5, <1>7 DEF All

LEMMA OrdIsFollowed == EnvelopeInv => ParserFollowsOrd
<1> SUFFICES ASSUME EnvelopeInv PROVE ParserFollowsOrd
  OBVIOUS
<1>1. PICK before, after :
        /\ before \in Seq(Parsed) /\ after \in Seq(Parsed)
        /\ Len(before) = Earlier /\ after = reader.found
        /\ Numbered = NumberedOf(before, 1) \o NumberedOf(after, 2)
  BY NumberedParts
<1> DEFINE b == NumberedOf(before, 1)
           a == NumberedOf(after, 2)
           All == [envelope : Parsed, input : Nat, offsetInInput : Nat]
<1>2. /\ b \in Seq(All) /\ Len(b) = Earlier
      /\ \A i \in 1 .. Earlier :
           b[i] = [envelope |-> before[i], input |-> 1, offsetInInput |-> i - 1]
  <2>1. 1 \in Nat
    OBVIOUS
  <2> QED BY <1>1, <2>1, NumberedIs
<1>3. /\ a \in Seq(All) /\ Len(a) = Len(after)
      /\ \A i \in 1 .. Len(after) :
           a[i] = [envelope |-> after[i], input |-> 2, offsetInInput |-> i - 1]
  <2>1. 2 \in Nat
    OBVIOUS
  <2> QED BY <1>1, <2>1, NumberedIs
<1>4. Len(after) \in Nat /\ DOMAIN after = 1 .. Len(after) /\ Earlier \in Nat
  BY <1>1, <1>2, LenProperties
<1> HIDE DEF a, b, All
<1>5. /\ Len(b \o a) = Earlier + Len(after)
      /\ \A i \in 1 .. Earlier + Len(after) :
           (b \o a)[i] = IF i <= Earlier THEN b[i] ELSE a[i - Earlier]
  <2>1. b \in Seq(All)
    BY <1>2
  <2>2. a \in Seq(All)
    BY <1>3
  <2>3. /\ Len(b \o a) = Len(b) + Len(a)
        /\ \A i \in 1 .. Len(b) + Len(a) : (b \o a)[i] = IF i <= Len(b) THEN b[i] ELSE a[i - Len(b)]
    BY <2>1, <2>2, ConcatProperties
  <2>4. Len(b) = Earlier /\ Len(a) = Len(after)
    BY <1>2, <1>3
  <2> QED BY <2>3, <2>4
<1>6. Numbered = b \o a
  BY <1>1 DEF a, b
<1>7. ASSUME NEW i \in 1 .. Earlier PROVE Numbered[i].input = 1
  <2>1. i \in 1 .. Earlier + Len(after) /\ i <= Earlier
    BY <1>4
  <2>2. Numbered[i] = [envelope |-> before[i], input |-> 1, offsetInInput |-> i - 1]
    BY <1>2, <1>5, <1>6, <2>1
  <2> QED BY <2>2
<1>8. ASSUME NEW i \in 1 .. Len(after)
      PROVE  Numbered[Earlier + i] = [envelope |-> after[i], input |-> 2, offsetInInput |-> i - 1]
  <2>1. /\ Earlier + i \in 1 .. Earlier + Len(after) /\ ~ (Earlier + i <= Earlier)
        /\ (Earlier + i) - Earlier = i
    BY <1>4
  <2>2. (b \o a)[Earlier + i] = a[i]
    BY <1>5, <2>1
  <2> QED BY <1>3, <1>6, <2>2
<1> QED BY <1>1, <1>4, <1>5, <1>6, <1>7, <1>8 DEF ParserFollowsOrd

\* For a script of any length: parseEnvelopesFromScript, which looks ahead from a cursor,
\* finds the envelopes that ord's one pass finds, with their flags, and
\* parseEnvelopesFromTx numbers them from where the input before left off.
THEOREM ParserAlwaysFollowsOrd == EnvelopeSpec => []ParserFollowsOrd
BY EnvelopeStarts, EnvelopeKeeps, OrdIsFollowed, PTL DEF EnvelopeSpec

(* ------------------------------ the fields ----------------------------- *)

Odd(i) == i % 2 = 1

LEMMA OddIs ==
  /\ \A q \in Nat : (2 * q + 1) % 2 = 1
  /\ \A i \in Nat : i % 2 = 1 => \E q \in Nat : i = 2 * q + 1
<1>1. ASSUME NEW q \in Nat PROVE (2 * q + 1) % 2 = 1
  <2>1. 2 * q + 1 \in Nat /\ 2 \in Nat /\ 1 \in Nat
    OBVIOUS
  <2> QED BY <2>1, DivModUnique
<1>2. ASSUME NEW i \in Nat, i % 2 = 1 PROVE \E q \in Nat : i = 2 * q + 1
  <2> DEFINE q == i \div 2
             r == i % 2
  <2>1. q \in Nat /\ i = 2 * q + r
    BY DivMod
  <2>2. r = 1
    BY <1>2
  <2> HIDE DEF q, r
  <2> QED BY <2>1, <2>2
<1> QED BY <1>1, <1>2

LEMMA MinIs ==
  ASSUME NEW T \in SUBSET Nat, T # {}
  PROVE  /\ Min(T) \in T /\ \A m \in T : Min(T) <= m
         /\ \A n \in T : (\A m \in T : n <= m) => n = Min(T)
<1>1. \E n \in T : \A m \in T : n <= m
  BY LeastNatural
<1>2. Min(T) \in T /\ \A m \in T : Min(T) <= m
  BY <1>1 DEF Min
<1>3. ASSUME NEW n \in T, \A m \in T : n <= m PROVE n = Min(T)
  <2>1. n <= Min(T) /\ Min(T) <= n /\ n \in Nat /\ Min(T) \in Nat
    BY <1>2, <1>3
  <2> QED BY <2>1
<1> QED BY <1>2, <1>3

\* The places of a payload's keys: the odd ones before the empty one its body follows.
Separates(payload, i) == Odd(i) /\ payload[i] = ""

KeysOf(payload) ==
  {i \in 1 .. Len(payload) - 1 : Odd(i) /\ \A j \in 1 .. i : ~ Separates(payload, j)}

FieldsOf(payload, n) == [i \in 1 .. n |-> <<payload[2 * i - 1], payload[2 * i]>>]

LEMMA FieldPlaces ==
  ASSUME NEW payload \in Seq(Pushed)
  PROVE  \E n \in Nat : /\ splitPayload(payload).fields = FieldsOf(payload, n)
                        /\ KeysOf(payload) = {2 * i - 1 : i \in 1 .. n}
<1> DEFINE L == Len(payload)
           keys == {i \in DOMAIN payload : i % 2 = 1}
           seps == {i \in keys : payload[i] = ""}
           end == IF seps = {} THEN Len(payload) + 1 ELSE Min(seps)
           n == (end - 1) \div 2
           tags == [i \in 1 .. n |-> payload[2 * i - 1]]
           Sep(i) == Separates(payload, i)
<1>1. L \in Nat
  BY LenProperties
<1>2. /\ seps \in SUBSET Nat /\ \A i \in seps : i \in 1 .. L /\ Sep(i)
      /\ \A i \in 1 .. L : Sep(i) => i \in seps
  <2>1. DOMAIN payload = 1 .. L
    BY LenProperties
  <2>2. \A i : i \in keys <=> i \in 1 .. L /\ Odd(i)
    BY <2>1 DEF Odd
  <2>3. 1 .. L \subseteq Nat
    BY <1>1
  <2> HIDE DEF keys, L
  <2>4. \A i : i \in seps <=> i \in 1 .. L /\ Sep(i)
    BY <2>2 DEF Separates
  <2> HIDE DEF seps
  <2> QED BY <2>3, <2>4
<1>3. splitPayload(payload).fields = FieldsOf(payload, n)
  <2>1. splitPayload(payload).fields = [i \in DOMAIN tags |-> <<tags[i], payload[2 * i]>>]
    BY DEF splitPayload
  <2>2. DOMAIN tags = 1 .. n /\ \A i \in 1 .. n : tags[i] = payload[2 * i - 1]
    OBVIOUS
  <2> HIDE DEF n, tags
  <2> QED BY <2>1, <2>2 DEF FieldsOf
<1> HIDE DEF keys
<1>4. /\ end - 1 \in Nat /\ end - 1 <= L
      /\ \A j \in 1 .. end - 1 : ~ Sep(j)
      /\ \A k \in 1 .. L - 1 : Odd(k) /\ (\A j \in 1 .. k : ~ Sep(j)) => k + 1 <= end - 1
  <2>1. CASE seps = {}
    <3>1. end = L + 1
      BY <2>1
    <3> HIDE DEF L
    <3>2. \A j \in 1 .. L : ~ Sep(j)
      BY <1>2, <2>1
    <3> HIDE DEF end, seps
    <3>3. end - 1 = L
      BY <1>1, <3>1
    <3> QED BY <1>1, <3>2, <3>3
  <2>2. CASE seps # {}
    <3> DEFINE m == Min(seps)
    <3>1. end = m
      BY <2>2
    <3> HIDE DEF L
    <3>2. m \in seps /\ \A i \in seps : m <= i
      <4> HIDE DEF seps
      <4> QED BY <1>2, <2>2, MinIs
    <3> HIDE DEF end, seps, m
    <3>3. m \in 1 .. L /\ Sep(m) /\ m \in Nat
      BY <1>1, <1>2, <3>2
    <3>4. ASSUME NEW j \in 1 .. m - 1 PROVE ~ Sep(j)
      <4>1. j \in 1 .. L /\ ~ (m <= j)
        BY <1>1, <3>3
      <4>2. j \notin seps
        BY <3>2, <4>1
      <4> QED BY <1>2, <4>1, <4>2
    <3>5. ASSUME NEW k \in 1 .. L - 1, Odd(k), \A j \in 1 .. k : ~ Sep(j) PROVE k + 1 <= m - 1
      <4>1. m \notin 1 .. k
        BY <3>3, <3>5
      <4>2. k < m /\ k \in Nat
        BY <1>1, <3>3, <4>1
      <4>3. PICK q \in Nat : k = 2 * q + 1
        BY <3>5, <4>2, OddIs DEF Odd
      <4>4. Odd(m)
        BY <3>3 DEF Separates
      <4>5. PICK p \in Nat : m = 2 * p + 1
        BY <3>3, <4>4, OddIs DEF Odd
      <4> QED BY <4>2, <4>3, <4>5
    <3>6. end - 1 = m - 1 /\ m - 1 \in Nat /\ m - 1 <= L
      BY <1>1, <3>1, <3>3
    <3>7. \A j \in 1 .. m - 1 : ~ Sep(j)
      BY <3>4
    <3>8. \A k \in 1 .. L - 1 : Odd(k) /\ (\A j \in 1 .. k : ~ Sep(j)) => k + 1 <= m - 1
      BY <3>5
    <3> QED BY <3>6, <3>7, <3>8
  <2> HIDE DEF end, L
  <2> QED BY <2>1, <2>2
<1> HIDE DEF L, end, seps
<1>5. n \in Nat /\ 2 * n <= end - 1 /\ \A c \in Nat : 2 * c <= end - 1 => c <= n
  <2> DEFINE a == end - 1
  <2>1. a \in Nat /\ n = a \div 2
    BY <1>4
  <2> HIDE DEF a, n
  <2>2. a \div 2 \in Nat /\ 2 * (a \div 2) <= a /\ \A c \in Nat : 2 * c <= a => c <= a \div 2
    BY <2>1, DivBounds
  <2>3. n \in Nat /\ 2 * n <= a /\ \A c \in Nat : 2 * c <= a => c <= n
    BY <2>1, <2>2
  <2> QED BY <2>3 DEF a
<1> HIDE DEF n
<1>6. ASSUME NEW i \in 1 .. n PROVE 2 * i - 1 \in KeysOf(payload)
  <2> DEFINE k == 2 * i - 1
  <2>1. k \in 1 .. L - 1 /\ k <= end - 1 /\ k \in Nat /\ i - 1 \in Nat /\ k = 2 * (i - 1) + 1
    BY <1>1, <1>4, <1>5
  <2>2. Odd(k)
    BY <2>1, OddIs DEF Odd
  <2> HIDE DEF k
  <2>3. \A j \in 1 .. k : ~ Sep(j)
    <3> TAKE j \in 1 .. k
    <3>1. j \in 1 .. end - 1
      BY <1>4, <2>1
    <3> QED BY <1>4, <3>1
  <2>4. k \in KeysOf(payload)
    BY <2>1, <2>2, <2>3 DEF KeysOf, L
  <2> QED BY <2>4 DEF k
<1>7. ASSUME NEW k \in KeysOf(payload) PROVE \E i \in 1 .. n : k = 2 * i - 1
  <2>1. k \in 1 .. L - 1 /\ Odd(k) /\ \A j \in 1 .. k : ~ Sep(j)
    BY DEF KeysOf, L
  <2>2. k + 1 <= end - 1 /\ k \in Nat
    BY <1>1, <1>4, <2>1
  <2>3. PICK q \in Nat : k = 2 * q + 1
    BY <2>1, <2>2, OddIs DEF Odd
  <2>4. q + 1 \in Nat /\ 2 * (q + 1) <= end - 1 /\ k = 2 * (q + 1) - 1
    BY <1>4, <2>2, <2>3
  <2>5. q + 1 <= n
    BY <1>5, <2>4
  <2>6. q + 1 \in 1 .. n
    BY <1>5, <2>4, <2>5
  <2> QED BY <2>4, <2>6
<1> QED BY <1>3, <1>5, <1>6, <1>7

\* More than one pointer: one that is not the first.
LEMMA ManyAre ==
  ASSUME NEW n \in Nat, NEW P \in SUBSET (1 .. n)
  PROVE  Cardinality(P) > 1 <=> \E i \in P : i # Min(P)
<1>1. IsFiniteSet(1 .. n)
  BY FS_Interval
<1>2. IsFiniteSet(P)
  BY <1>1, FS_Subset
<1>3. Cardinality(P) \in Nat
  BY <1>2, FS_CardinalityType
<1>4. CASE P = {}
  <2>1. Cardinality({}) = 0
    BY FS_EmptySet
  <2> QED BY <1>4, <2>1
<1>5. CASE P # {}
  <2>1. P \in SUBSET Nat
    OBVIOUS
  <2>2. Min(P) \in P
    BY <1>5, <2>1, MinIs
  <2>3. ASSUME NEW i \in P, i # Min(P) PROVE Cardinality(P) > 1
    <3>1. Cardinality(P) # 0
      BY <1>2, <2>2, FS_EmptySet
    <3>2. Cardinality(P) # 1
      <4> SUFFICES ASSUME Cardinality(P) = 1 PROVE FALSE
        OBVIOUS
      <4>1. PICK x : P = {x}
        BY <1>2, FS_Singleton
      <4> QED BY <2>2, <2>3, <4>1
    <3> QED BY <1>3, <3>1, <3>2
  <2>4. ASSUME \A i \in P : i = Min(P) PROVE ~ (Cardinality(P) > 1)
    <3>1. P = {Min(P)}
      BY <2>2, <2>4
    <3>2. Cardinality({Min(P)}) = 1
      BY FS_Singleton
    <3> QED BY <3>1, <3>2
  <2> QED BY <2>3, <2>4
<1> QED BY <1>4, <1>5

\* What is taken from a payload, in terms of where its keys are.
Pointers(payload) == {i \in KeysOf(payload) : payload[i] = TAG_POINTER}

LEMMA TakenFromPayload ==
  ASSUME NEW payload \in Seq(Pushed)
  PROVE  LET Exact == Pointers(payload)
             taken == interpretEnvelope(payload)
         IN  /\ taken.unboundByEvenField =
                  \E i \in KeysOf(payload) : payload[i] \in EvenTags /\ (i \in Exact => i # Min(Exact))
             /\ taken.pointer = IF Exact = {} THEN -1
                                ELSE decodeLeU64Trimmed(payload[Min(Exact) + 1])
<1> DEFINE fields == splitPayload(payload).fields
           pointers == {i \in DOMAIN fields : fields[i][1] = TAG_POINTER}
           many == Cardinality(pointers) > 1
           left == {fields[i][1] : i \in {j \in DOMAIN fields : fields[j][1] = TAG_POINTER => many}}
           Exact == Pointers(payload)
           K(i) == 2 * i - 1
           unbound == left \cap EvenTags # {}
           pointer == IF pointers = {} THEN -1 ELSE decodeLeU64Trimmed(fields[Min(pointers)][2])
<1>1. /\ interpretEnvelope(payload).unboundByEvenField = unbound
      /\ interpretEnvelope(payload).pointer = pointer
  BY DEF interpretEnvelope
<1>2. PICK n \in Nat : fields = FieldsOf(payload, n) /\ KeysOf(payload) = {K(i) : i \in 1 .. n}
  BY FieldPlaces
<1>3. /\ DOMAIN fields = 1 .. n
      /\ \A i \in 1 .. n : fields[i][1] = payload[K(i)] /\ fields[i][2] = payload[K(i) + 1]
  <2>1. \A i \in 1 .. n : K(i) + 1 = 2 * i
    OBVIOUS
  <2> HIDE DEF fields
  <2>2. DOMAIN fields = 1 .. n
    BY <1>2 DEF FieldsOf
  <2>3. ASSUME NEW i \in 1 .. n
        PROVE  fields[i][1] = payload[K(i)] /\ fields[i][2] = payload[K(i) + 1]
    <3>1. fields[i] = <<payload[2 * i - 1], payload[2 * i]>>
      BY <1>2 DEF FieldsOf
    <3> QED BY <2>1, <3>1
  <2> QED BY <2>2, <2>3
<1>4. \A i, j \in 1 .. n : (K(i) = K(j) => i = j) /\ (K(i) <= K(j) <=> i <= j) /\ K(i) \in Nat
  OBVIOUS
<1> HIDE DEF fields, K
<1>5. /\ pointers \in SUBSET (1 .. n) /\ pointers \in SUBSET Nat
      /\ \A i \in 1 .. n : i \in pointers <=> payload[K(i)] = TAG_POINTER
  BY <1>3
<1>6. /\ \A i \in 1 .. n : K(i) \in Exact <=> i \in pointers
      /\ \A k \in Exact : \E i \in pointers : k = K(i)
      /\ Exact \in SUBSET Nat
  <2>1. \A i \in 1 .. n : K(i) \in KeysOf(payload)
    BY <1>2
  <2>2. \A k \in KeysOf(payload) : \E i \in 1 .. n : k = K(i)
    BY <1>2
  <2> HIDE DEF pointers
  <2>3. \A i \in 1 .. n : K(i) \in Exact <=> i \in pointers
    BY <1>5, <2>1 DEF Pointers
  <2>4. \A k \in Exact : \E i \in pointers : k = K(i)
    <3> SUFFICES ASSUME NEW k \in Exact PROVE \E i \in pointers : k = K(i)
      OBVIOUS
    <3>1. k \in KeysOf(payload)
      BY DEF Pointers
    <3>2. PICK i \in 1 .. n : k = K(i)
      BY <2>2, <3>1
    <3> QED BY <2>3, <3>2
  <2> HIDE DEF Exact
  <2>5. Exact \in SUBSET Nat
    BY <1>4, <1>5, <2>4
  <2> QED BY <2>3, <2>4, <2>5
<1>7. many <=> \E i \in pointers : i # Min(pointers)
  <2> HIDE DEF pointers
  <2> QED BY <1>5, ManyAre
<1>8. \A x : x \in left <=> \E i \in 1 .. n : x = payload[K(i)] /\ (payload[K(i)] = TAG_POINTER => many)
  <2> HIDE DEF many
  <2> QED BY <1>3
<1> HIDE DEF pointers, Exact, many, left
<1>9. Exact = {} <=> pointers = {}
  BY <1>5, <1>6
<1>10. ASSUME pointers # {} PROVE Min(pointers) \in 1 .. n /\ Min(Exact) = K(Min(pointers))
  <2> DEFINE m == Min(pointers)
  <2>1. m \in pointers /\ \A i \in pointers : m <= i
    BY <1>5, <1>10, MinIs
  <2> HIDE DEF m
  <2>2. m \in 1 .. n /\ K(m) \in Exact
    BY <1>5, <1>6, <2>1
  <2>3. \A k \in Exact : K(m) <= k
    <3> TAKE k \in Exact
    <3>1. PICK i \in pointers : k = K(i)
      BY <1>6
    <3>2. i \in 1 .. n /\ m <= i
      BY <1>5, <2>1
    <3> QED BY <1>4, <2>2, <3>1, <3>2
  <2>4. K(m) = Min(Exact)
    BY <1>6, <2>2, <2>3, MinIs
  <2> QED BY <2>2, <2>4 DEF m
<1>11. pointer = IF Exact = {} THEN -1 ELSE decodeLeU64Trimmed(payload[Min(Exact) + 1])
  <2>1. CASE pointers = {}
    BY <1>9, <2>1
  <2>2. CASE pointers # {}
    <3>1. fields[Min(pointers)][2] = payload[Min(Exact) + 1]
      BY <1>3, <1>10, <2>2
    <3> QED BY <1>9, <2>2, <3>1
  <2> QED BY <2>1, <2>2
<1> DEFINE surplus == \E i \in KeysOf(payload) :
                        payload[i] \in EvenTags /\ (i \in Exact => i # Min(Exact))
<1>12. ASSUME unbound PROVE surplus
  <2>1. PICK i \in 1 .. n : payload[K(i)] \in EvenTags /\ (payload[K(i)] = TAG_POINTER => many)
    BY <1>8, <1>12
  <2>2. CASE i \notin pointers
    <3>1. K(i) \in KeysOf(payload) /\ K(i) \notin Exact
      BY <1>2, <1>6, <2>2
    <3> QED BY <2>1, <3>1
  <2>3. CASE i \in pointers
    <3>1. payload[K(i)] = TAG_POINTER
      BY <1>5, <2>3
    <3>2. PICK j \in pointers : j # Min(pointers)
      BY <1>7, <2>1, <3>1
    <3>3. j \in 1 .. n /\ payload[K(j)] = TAG_POINTER
      BY <1>5
    <3>4. K(j) \in KeysOf(payload) /\ payload[K(j)] \in EvenTags
      BY <1>2, <2>1, <3>1, <3>3
    <3>5. K(j) # Min(Exact)
      BY <1>4, <1>10, <3>2, <3>3
    <3> QED BY <3>4, <3>5
  <2> QED BY <2>2, <2>3
<1>13. ASSUME surplus PROVE unbound
  <2>1. PICK k \in KeysOf(payload) : payload[k] \in EvenTags /\ (k \in Exact => k # Min(Exact))
    BY <1>13
  <2>2. PICK i \in 1 .. n : k = K(i)
    BY <1>2
  <2>3. payload[K(i)] = TAG_POINTER => many
    <3> SUFFICES ASSUME payload[K(i)] = TAG_POINTER PROVE many
      OBVIOUS
    <3>1. i \in pointers
      BY <1>5
    <3>2. K(i) \in Exact
      BY <1>6, <3>1
    <3>3. i # Min(pointers)
      BY <1>10, <2>1, <2>2, <3>1, <3>2
    <3> QED BY <1>7, <3>1, <3>3
  <2>4. payload[K(i)] \in left
    BY <1>8, <2>3
  <2> QED BY <2>1, <2>2, <2>4
<1>14. unbound = surplus
  <2>1. unbound \in BOOLEAN /\ surplus \in BOOLEAN
    OBVIOUS
  <2> HIDE DEF surplus, unbound
  <2> QED BY <1>12, <1>13, <2>1
<1> HIDE DEF unbound, pointer
<1> QED BY <1>1, <1>11, <1>14 DEF Exact

\* Whatever is numbered has a payload of pushes.
LEMMA PayloadsArePushed ==
  ASSUME EnvelopeInv, NEW e \in ToSet(Numbered)
  PROVE  e.envelope.payload \in Seq(Pushed)
<1> DEFINE All == [envelope : Parsed, input : Nat, offsetInInput : Nat]
<1>1. PICK before, after :
        /\ before \in Seq(Parsed) /\ after \in Seq(Parsed)
        /\ Numbered = NumberedOf(before, 1) \o NumberedOf(after, 2)
  BY NumberedParts
<1> DEFINE b == NumberedOf(before, 1)
           a == NumberedOf(after, 2)
<1>2. 1 \in Nat /\ 2 \in Nat
  OBVIOUS
<1>3. b \in Seq(All) /\ a \in Seq(All)
  BY <1>1, <1>2, NumberedIs
<1>4. Numbered = b \o a
  BY <1>1
<1> HIDE DEF a, b
<1>5. Numbered \in Seq(All)
  <2> HIDE DEF All
  <2> QED BY <1>3, <1>4, ConcatProperties
<1>6. PICK i \in DOMAIN Numbered : e = Numbered[i]
  BY DEF ToSet
<1>7. e \in All
  <2> HIDE DEF All
  <2>1. DOMAIN Numbered = 1 .. Len(Numbered)
    BY <1>5, LenProperties
  <2> QED BY <1>5, <1>6, <2>1, ElementOfSeq
<1> QED BY <1>7 DEF Parsed

LEMMA EachTakenOnce == EnvelopeInv => TakenOnce
<1> SUFFICES ASSUME EnvelopeInv, NEW e \in ToSet(Numbered)
             PROVE  LET payload == e.envelope.payload
                        Exact == Pointers(payload)
                        taken == interpretEnvelope(payload)
                    IN  /\ taken.unboundByEvenField =
                             \E i \in KeysOf(payload) :
                               payload[i] \in EvenTags /\ (i \in Exact => i # Min(Exact))
                        /\ taken.pointer = IF Exact = {} THEN -1
                                           ELSE decodeLeU64Trimmed(payload[Min(Exact) + 1])
  <2>1. \A payload : KeysOf(payload) =
          {i \in 1 .. Len(payload) - 1 :
             i % 2 = 1 /\ \A j \in 1 .. i : j % 2 = 1 => payload[j] # ""}
    BY DEF KeysOf, Separates, Odd
  <2> QED BY <2>1, Zenon DEF TakenOnce, Pointers
<1> QED BY PayloadsArePushed, TakenFromPayload

\* For payloads of any length: interpretEnvelope takes the value of the first pointer
\* field, and an inscription is unbound exactly when another field has an even tag.
THEOREM AlwaysTakenOnce == EnvelopeSpec => []TakenOnce
BY EnvelopeStarts, EnvelopeKeeps, EachTakenOnce, PTL DEF EnvelopeSpec

(* ----------------------------- the tokens ------------------------------ *)

Tokens == {<<word>> : word \in Words} \cup {<<"--", name>> : name \in Names}

\* A flag is known by its name.
LEMMA TokenFacts ==
  ASSUME NEW t \in Tokens
  PROVE  /\ IsFlag(t) => t = <<"--", t[2]>>
         /\ IsFlag(t) \/ ~ IsFlag(t)
BY DEF Tokens, IsFlag

\* The value a flag takes where it stands, and where the parser goes on.
Valued(tokens, i) == IsFlag(tokens[i]) /\ i < Len(tokens) /\ ~IsFlag(tokens[i + 1])

After(tokens, i) == i + (IF Valued(tokens, i) THEN 2 ELSE 1)

Value(tokens, i) == IF Valued(tokens, i) THEN tokens[i + 1] ELSE <<>>

\* The parser, one token at a time: what it makes of the rest, f, and of the token at i.
TakesWord(args, token) == [args EXCEPT !.positional = token \o @]

TakesFlag(args, name, value) == [args EXCEPT !.flags = WithFlag(@, name, value)]

ParsedAt(f, tokens, i) ==
  CASE i > Len(tokens) -> [positional |-> <<>>, flags |-> <<>>]
    [] i <= Len(tokens) /\ ~IsFlag(tokens[i]) -> TakesWord(f[After(tokens, i)], tokens[i])
    [] OTHER -> TakesFlag(f[After(tokens, i)], tokens[i][2], Value(tokens, i))

ParseOf(f, tokens) == f = [i \in 1 .. Len(tokens) + 2 |-> ParsedAt(f, tokens, i)]

\* The three ways of parseArgs.
LEMMA ParsedCases ==
  ASSUME NEW f, NEW tokens, NEW i
  PROVE  /\ i > Len(tokens) /\ ~ (i <= Len(tokens)) =>
              ParsedAt(f, tokens, i) = [positional |-> <<>>, flags |-> <<>>]
         /\ ~ (i > Len(tokens)) /\ i <= Len(tokens) /\ ~ IsFlag(tokens[i]) =>
              ParsedAt(f, tokens, i) = TakesWord(f[After(tokens, i)], tokens[i])
         /\ ~ (i > Len(tokens)) /\ IsFlag(tokens[i]) =>
              ParsedAt(f, tokens, i) =
                TakesFlag(f[After(tokens, i)], tokens[i][2], Value(tokens, i))
<1>1. i > Len(tokens) /\ ~ (i <= Len(tokens)) =>
        ParsedAt(f, tokens, i) = [positional |-> <<>>, flags |-> <<>>]
  BY Zenon DEF ParsedAt
<1>2. ~ (i > Len(tokens)) /\ i <= Len(tokens) /\ ~ IsFlag(tokens[i]) =>
        ParsedAt(f, tokens, i) = TakesWord(f[After(tokens, i)], tokens[i])
  BY Zenon DEF ParsedAt
<1>3. ~ (i > Len(tokens)) /\ IsFlag(tokens[i]) =>
        ParsedAt(f, tokens, i) = TakesFlag(f[After(tokens, i)], tokens[i][2], Value(tokens, i))
  BY Zenon DEF ParsedAt
<1> QED BY <1>1, <1>2, <1>3

\* The parser only looks at what it has made of later tokens ...
LEMMA ParseAhead ==
  ASSUME NEW tokens \in Seq(Tokens), NEW f, NEW g, NEW i \in 1 .. Len(tokens) + 2,
         \A c \in i + 1 .. Len(tokens) + 2 : f[c] = g[c]
  PROVE  ParsedAt(f, tokens, i) = ParsedAt(g, tokens, i)
<1>1. Len(tokens) \in Nat
  BY LenProperties
<1>2. CASE i > Len(tokens)
  BY <1>2 DEF ParsedAt
<1>3. CASE ~ (i > Len(tokens))
  <2>1. After(tokens, i) \in i + 1 .. Len(tokens) + 2
    BY <1>1, <1>3 DEF After
  <2>2. f[After(tokens, i)] = g[After(tokens, i)]
    BY <2>1
  <2> QED BY <2>2 DEF ParsedAt
<1> QED BY <1>2, <1>3

\* ... so that its recursion is one, built from the end of the command line.
LEMMA ParseExists ==
  ASSUME NEW tokens \in Seq(Tokens)
  PROVE  \E f : ParseOf(f, tokens)
<1> DEFINE N == Len(tokens) + 2
           Upto(f, k) == /\ f = [c \in 1 .. N |-> f[c]]
                         /\ \A c \in 1 .. N : c > N - k => f[c] = ParsedAt(f, tokens, c)
           S == {k \in Nat : k <= N => \E f : Upto(f, k)}
<1>1. N \in Nat /\ N >= 1
  BY LenProperties
<1>2. 0 \in S
  <2> DEFINE none == [c \in 1 .. N |-> {}]
  <2>1. none = [c \in 1 .. N |-> none[c]]
    <3> HIDE DEF N
    <3> QED OBVIOUS
  <2>2. \A c \in 1 .. N : ~ (c > N - 0)
    BY <1>1
  <2> HIDE DEF none, N
  <2> QED BY <2>1, <2>2
<1>3. ASSUME NEW k \in Nat, k \in S PROVE k + 1 \in S
  <2> SUFFICES ASSUME k + 1 <= N PROVE \E f : Upto(f, k + 1)
    <3> HIDE DEF Upto, N
    <3> QED OBVIOUS
  <2>1. k <= N
    BY <1>1
  <2>2. PICK g : Upto(g, k)
    <3> HIDE DEF Upto, N
    <3> QED BY <1>3, <2>1
  <2> DEFINE c0 == N - k
             f == [c \in 1 .. N |-> IF c = c0 THEN ParsedAt(g, tokens, c0) ELSE g[c]]
  <2>3. c0 \in 1 .. N
    BY <1>1
  <2>6. /\ f = [c \in 1 .. N |-> f[c]] /\ f[c0] = ParsedAt(g, tokens, c0)
        /\ \A c \in 1 .. N : c # c0 => f[c] = g[c]
    <3> HIDE DEF c0, N
    <3> QED BY <2>3
  <2> HIDE DEF f
  <2>7. ASSUME NEW c \in 1 .. N, c > N - (k + 1) PROVE f[c] = ParsedAt(f, tokens, c)
    <3>1. c >= c0 /\ c \in 1 .. Len(tokens) + 2
      BY <1>1, <2>7
    <3>2. \A i \in c + 1 .. Len(tokens) + 2 : f[i] = g[i]
      <4> TAKE i \in c + 1 .. Len(tokens) + 2
      <4>1. i \in 1 .. N /\ i # c0
        BY <1>1, <2>3, <3>1
      <4> QED BY <2>6, <4>1
    <3>3. ParsedAt(f, tokens, c) = ParsedAt(g, tokens, c)
      BY <3>1, <3>2, ParseAhead
    <3>5. f[c] = ParsedAt(g, tokens, c)
      <4>1. CASE c = c0
        <5> HIDE DEF c0
        <5> QED BY <2>6, <4>1
      <4>2. CASE c # c0
        <5>1. c > N - k
          BY <1>1, <3>1, <4>2
        <5>2. g[c] = ParsedAt(g, tokens, c)
          BY <2>2, <5>1
        <5> HIDE DEF c0
        <5> QED BY <2>6, <4>2, <5>2
      <4> QED BY <4>1, <4>2
    <3> QED BY <3>3, <3>5
  <2> HIDE DEF N
  <2> QED BY <2>6, <2>7
<1>4. N \in S
  <2> HIDE DEF S, N
  <2> QED BY <1>1, <1>2, <1>3, InductionBySet
<1>5. PICK f : Upto(f, N)
  <2> HIDE DEF Upto, N
  <2> QED BY <1>4
<1>6. f = [c \in 1 .. N |-> f[c]] /\ \A c \in 1 .. N : f[c] = ParsedAt(f, tokens, c)
  <2>1. \A c \in 1 .. N : c > N - N
    BY <1>1
  <2> HIDE DEF N
  <2> QED BY <1>5, <2>1
<1>7. f = [c \in 1 .. N |-> ParsedAt(f, tokens, c)]
  <2> HIDE DEF N
  <2> QED BY <1>6
<1> QED BY <1>7 DEF ParseOf

\* What parseArgs returns is where that recursion arrives.
LEMMA ParsedByRecursion ==
  ASSUME NEW tokens \in Seq(Tokens)
  PROVE  \E f : /\ parseArgs(tokens) = f[1]
                /\ \A i \in 1 .. Len(tokens) + 2 : f[i] = ParsedAt(f, tokens, i)
<1> DEFINE f == CHOOSE f : ParseOf(f, tokens)
<1>1. parseArgs(tokens) = f[1]
  BY DEF parseArgs, ParseOf, ParsedAt, TakesWord, TakesFlag, After, Valued, Value
<1>2. \E g : ParseOf(g, tokens)
  BY ParseExists
<1>3. ParseOf(f, tokens)
  <2> HIDE DEF ParseOf
  <2> QED BY <1>2
<1>4. f = [i \in 1 .. Len(tokens) + 2 |-> ParsedAt(f, tokens, i)]
  BY <1>3 DEF ParseOf
<1> HIDE DEF f
<1>5. \A i \in 1 .. Len(tokens) + 2 : f[i] = ParsedAt(f, tokens, i)
  BY <1>4
<1> QED BY <1>1, <1>5

(* ----------------------- what a parser collects ------------------------ *)

\* A record of what is positional and of the flags.
IsArgs(args) == args = [positional |-> args.positional, flags |-> args.flags]

\* The flags from a place on.
FlagsFrom(tokens, i) == {j \in i .. Len(tokens) : IsFlag(tokens[j])}

NamesFrom(tokens, i) == {tokens[j][2] : j \in FlagsFrom(tokens, i)}

\* No later token is this one.
IsLastFrom(tokens, j) == \A k \in j + 1 .. Len(tokens) : tokens[k] # tokens[j]

\* The flags that are collected from a place on.
Says(args, tokens, i) ==
  /\ IsArgs(args)
  /\ DOMAIN args.flags = NamesFrom(tokens, i)
  /\ \A j \in FlagsFrom(tokens, i) :
       IsLastFrom(tokens, j) => args.flags[tokens[j][2]] = Value(tokens, j)

\* A word leaves the flags alone, a flag is added to them.
LEMMA ArgsWith ==
  ASSUME NEW args, IsArgs(args)
  PROVE  /\ \A token : /\ IsArgs(TakesWord(args, token))
                      /\ TakesWord(args, token).flags = args.flags
         /\ \A name, value : /\ IsArgs(TakesFlag(args, name, value))
                            /\ TakesFlag(args, name, value).flags = WithFlag(args.flags, name, value)
<1>1. PICK p, q : args = [positional |-> p, flags |-> q]
  BY DEF IsArgs
<1>2. ASSUME NEW token
      PROVE  TakesWord(args, token) = [positional |-> token \o p, flags |-> q]
  <2> DEFINE w == token \o p
  <2>1. [[positional |-> p, flags |-> q] EXCEPT !.positional = w] = [positional |-> w, flags |-> q]
    <3> HIDE DEF w
    <3> QED OBVIOUS
  <2>2. args.positional = p
    BY <1>1
  <2> QED BY <1>1, <2>1, <2>2, Zenon DEF TakesWord
<1>3. ASSUME NEW name, NEW value
      PROVE  TakesFlag(args, name, value) = [positional |-> p, flags |-> WithFlag(q, name, value)]
  <2> DEFINE w == WithFlag(q, name, value)
  <2>1. [[positional |-> p, flags |-> q] EXCEPT !.flags = w] = [positional |-> p, flags |-> w]
    <3> HIDE DEF w
    <3> QED OBVIOUS
  <2>2. args.flags = q
    BY <1>1
  <2> QED BY <1>1, <2>1, <2>2, Zenon DEF TakesFlag
<1>4. \A x, a, b : x = [positional |-> a, flags |-> b] => IsArgs(x) /\ x.flags = b
  BY DEF IsArgs
<1>5. args.flags = q
  BY <1>1
<1>6. ASSUME NEW token
      PROVE  IsArgs(TakesWord(args, token)) /\ TakesWord(args, token).flags = args.flags
  BY <1>2, <1>4, <1>5
<1>7. ASSUME NEW name, NEW value
      PROVE  /\ IsArgs(TakesFlag(args, name, value))
             /\ TakesFlag(args, name, value).flags = WithFlag(args.flags, name, value)
  BY <1>3, <1>4, <1>5
<1> QED BY <1>6, <1>7

\* A word comes before what is positional ...
LEMMA PositionalWithWord ==
  ASSUME NEW args, IsArgs(args), NEW token, NEW w, w = token \o args.positional
  PROVE  TakesWord(args, token).positional = w
<1>1. PICK p, q : args = [positional |-> p, flags |-> q]
  BY DEF IsArgs
<1>2. args.positional = p
  BY <1>1
<1>3. TakesWord(args, token) = [[positional |-> p, flags |-> q] EXCEPT !.positional = w]
  BY <1>1, <1>2, Zenon DEF TakesWord
<1>4. [[positional |-> p, flags |-> q] EXCEPT !.positional = w].positional = w
  OBVIOUS
<1> QED BY <1>3, <1>4

\* ... and a flag leaves it alone.
LEMMA PositionalWithFlag ==
  ASSUME NEW args, IsArgs(args), NEW name, NEW value
  PROVE  TakesFlag(args, name, value).positional = args.positional
<1>1. PICK p, q : args = [positional |-> p, flags |-> q]
  BY DEF IsArgs
<1> DEFINE f == WithFlag(args.flags, name, value)
<1>2. TakesFlag(args, name, value) = [[positional |-> p, flags |-> q] EXCEPT !.flags = f]
  BY <1>1, Zenon DEF TakesFlag
<1> HIDE DEF f
<1>3. [[positional |-> p, flags |-> q] EXCEPT !.flags = f].positional = p
  OBVIOUS
<1> QED BY <1>1, <1>2, <1>3

\* A flag that is there already stands: the later one was parsed before.
LEMMA FlagsWith ==
  ASSUME NEW flags, NEW name, NEW value
  PROVE  /\ DOMAIN WithFlag(flags, name, value) = DOMAIN flags \cup {name}
         /\ \A n \in DOMAIN flags : WithFlag(flags, name, value)[n] = flags[n]
         /\ name \notin DOMAIN flags => WithFlag(flags, name, value)[name] = value
BY DEF WithFlag

\* From the end to the start, every flag keeps the value of its last occurrence.
LEMMA SaysAll ==
  ASSUME NEW tokens \in Seq(Tokens), NEW f,
         \A i \in 1 .. Len(tokens) + 2 : f[i] = ParsedAt(f, tokens, i)
  PROVE  Says(f[1], tokens, 1)
<1> DEFINE N == Len(tokens) + 1
           Right(c) == Says(f[c], tokens, c)
           S == {k \in Nat : \A c \in 1 .. N : c >= N - k => Right(c)}
<1>1. Len(tokens) \in Nat
  BY LenProperties
<1>2. 0 \in S
  <2>1. f[N] = [positional |-> <<>>, flags |-> <<>>]
    <3>1. N \in 1 .. Len(tokens) + 2 /\ N > Len(tokens) /\ ~ (N <= Len(tokens))
      BY <1>1
    <3> HIDE DEF N
    <3> QED BY <3>1, ParsedCases
  <2>2. FlagsFrom(tokens, N) = {} /\ NamesFrom(tokens, N) = {}
    BY <1>1 DEF FlagsFrom, NamesFrom
  <2>3. Right(N)
    BY <2>1, <2>2 DEF Says, IsArgs
  <2>4. \A c \in 1 .. N : c >= N - 0 => c = N
    BY <1>1
  <2> HIDE DEF Right, N
  <2> QED BY <2>3, <2>4
<1>3. ASSUME NEW k \in Nat, k \in S PROVE k + 1 \in S
  <2> SUFFICES ASSUME NEW c \in 1 .. N, c >= N - (k + 1), c < N - k PROVE Right(c)
    <3> HIDE DEF Right
    <3> QED BY <1>1, <1>3
  <2> DEFINE next == After(tokens, c)
             rest == f[next]
  <2>1. c \in 1 .. Len(tokens) /\ c + 1 \in 1 .. N /\ c + 1 >= N - k
    BY <1>1
  <2>2. \A d \in 1 .. N : d >= N - k => Right(d)
    <3> HIDE DEF Right, N
    <3> QED BY <1>3
  <2>3. next \in {c + 1, c + 2} /\ next \in 1 .. N /\ next >= N - k
    BY <1>1, <2>1 DEF After, Valued
  <2>4. Says(rest, tokens, next)
    <3> HIDE DEF next, N
    <3> QED BY <2>2, <2>3
  <2>5. FlagsFrom(tokens, next) = FlagsFrom(tokens, c + 1)
    BY <1>1, <2>1 DEF FlagsFrom, After, Valued
  <2>6. Says(rest, tokens, c + 1)
    <3> HIDE DEF next
    <3> QED BY <2>4, <2>5 DEF Says, NamesFrom
  <2>7. f[c] = ParsedAt(f, tokens, c)
    BY <1>1, <2>1
  <2>10. ~ (c > Len(tokens)) /\ c <= Len(tokens)
    BY <1>1, <2>1
  <2>8. CASE ~ IsFlag(tokens[c])
    <3>1. f[c] = TakesWord(rest, tokens[c])
      BY <2>7, <2>8, <2>10, ParsedCases
    <3>2. FlagsFrom(tokens, c) = FlagsFrom(tokens, c + 1)
      BY <1>1, <2>1, <2>8 DEF FlagsFrom
    <3>3. IsArgs(f[c]) /\ f[c].flags = rest.flags
      <4> HIDE DEF rest
      <4> QED BY <2>6, <3>1, ArgsWith DEF Says
    <3> HIDE DEF rest
    <3> QED BY <2>6, <3>2, <3>3 DEF Says, NamesFrom
  <2>9. CASE IsFlag(tokens[c])
    <3> DEFINE name == tokens[c][2]
               said == WithFlag(rest.flags, name, Value(tokens, c))
    <3>1. f[c] = TakesFlag(rest, name, Value(tokens, c))
      BY <2>7, <2>9, <2>10, ParsedCases
    <3>2. IsArgs(f[c]) /\ f[c].flags = said
      <4>1. IsArgs(rest)
        BY <2>6 DEF Says
      <4> HIDE DEF rest, name
      <4>2. /\ IsArgs(TakesFlag(rest, name, Value(tokens, c)))
            /\ TakesFlag(rest, name, Value(tokens, c)).flags = said
        BY <4>1, ArgsWith
      <4> QED BY <3>1, <4>2
    <3>3. FlagsFrom(tokens, c) = FlagsFrom(tokens, c + 1) \cup {c}
      BY <1>1, <2>1, <2>9 DEF FlagsFrom
    <3>4. NamesFrom(tokens, c) = NamesFrom(tokens, c + 1) \cup {name}
      BY <3>3 DEF NamesFrom
    <3>0. /\ DOMAIN said = DOMAIN rest.flags \cup {name}
          /\ \A n \in DOMAIN rest.flags : said[n] = rest.flags[n]
          /\ name \notin DOMAIN rest.flags => said[name] = Value(tokens, c)
      <4> HIDE DEF rest, name
      <4> QED BY FlagsWith
    <3>5. DOMAIN said = DOMAIN rest.flags \cup {name}
      BY <3>0
    <3>6. DOMAIN said = NamesFrom(tokens, c)
      BY <2>6, <3>4, <3>5 DEF Says
    <3>7. ASSUME NEW j \in FlagsFrom(tokens, c), IsLastFrom(tokens, j)
          PROVE  said[tokens[j][2]] = Value(tokens, j)
      <4>1. CASE j \in FlagsFrom(tokens, c + 1)
        <5>1. tokens[j][2] \in DOMAIN rest.flags
          BY <2>6, <4>1 DEF Says, NamesFrom
        <5>2. said[tokens[j][2]] = rest.flags[tokens[j][2]]
          BY <3>0, <5>1
        <5> QED BY <2>6, <3>7, <4>1, <5>2 DEF Says
      <4>2. CASE j = c
        <5>1. name \notin DOMAIN rest.flags
          <6> SUFFICES ASSUME name \in DOMAIN rest.flags PROVE FALSE
            OBVIOUS
          <6>1. PICK l \in FlagsFrom(tokens, c + 1) : tokens[l][2] = name
            BY <2>6 DEF Says, NamesFrom
          <6>2. l \in c + 1 .. Len(tokens) /\ IsFlag(tokens[l]) /\ l \in 1 .. Len(tokens)
            BY <1>1, <2>1, <6>1 DEF FlagsFrom
          <6>3. tokens[l] \in Tokens /\ tokens[c] \in Tokens
            BY <2>1, <6>2, ElementOfSeq
          <6>4. tokens[l] = tokens[c]
            BY <2>9, <6>1, <6>2, <6>3, TokenFacts
          <6> QED BY <3>7, <4>2, <6>2, <6>4 DEF IsLastFrom
        <5> QED BY <3>0, <4>2, <5>1
      <4> QED BY <3>3, <4>1, <4>2
    <3> HIDE DEF said, rest
    <3> QED BY <3>2, <3>6, <3>7 DEF Says
  <2> QED BY <2>8, <2>9
<1>4. N \in S
  <2>1. N \in Nat
    BY <1>1
  <2> HIDE DEF S, N
  <2> QED BY <2>1, <1>2, <1>3, InductionBySet
<1>5. 1 \in 1 .. N /\ 1 >= N - N
  BY <1>1
<1>6. Right(1)
  <2> HIDE DEF Right, N
  <2> QED BY <1>4, <1>5
<1> QED BY <1>6

(* ------------------------- what stands alone --------------------------- *)

\* The words that stand behind no flag, where the parser reads from c on.
StandingFrom(tokens, c) ==
  {i \in c .. Len(tokens) : ~ IsFlag(tokens[i]) /\ (i > c => ~ IsFlag(tokens[i - 1]))}

\* What is positional begins with the first of them.
BeginsWith(args, tokens, c) ==
  /\ IsArgs(args) /\ args.positional \in Seq(Words)
  /\ args.positional # <<>> => StandingFrom(tokens, c) # {}
  /\ \A i \in StandingFrom(tokens, c) :
       (\A j \in StandingFrom(tokens, c) : i <= j) => args.positional[1] = tokens[i][1]

\* From the end to the start, a word that stands alone comes to stand first.
LEMMA FirstStands ==
  ASSUME NEW tokens \in Seq(Tokens), NEW f,
         \A i \in 1 .. Len(tokens) + 2 : f[i] = ParsedAt(f, tokens, i)
  PROVE  BeginsWith(f[1], tokens, 1)
<1> DEFINE N == Len(tokens) + 1
           Right(c) == BeginsWith(f[c], tokens, c)
           S == {k \in Nat : \A c \in 1 .. N : c >= N - k => Right(c)}
<1>1. Len(tokens) \in Nat
  BY LenProperties
<1>2. 0 \in S
  <2>1. f[N] = [positional |-> <<>>, flags |-> <<>>]
    <3>1. N \in 1 .. Len(tokens) + 2 /\ N > Len(tokens) /\ ~ (N <= Len(tokens))
      BY <1>1
    <3> HIDE DEF N
    <3> QED BY <3>1, ParsedCases
  <2>2. StandingFrom(tokens, N) = {}
    BY <1>1 DEF StandingFrom
  <2>3. <<>> \in Seq(Words)
    OBVIOUS
  <2>4. Right(N)
    BY <2>1, <2>2, <2>3 DEF BeginsWith, IsArgs
  <2>5. \A c \in 1 .. N : c >= N - 0 => c = N
    BY <1>1
  <2> HIDE DEF Right, N
  <2> QED BY <2>4, <2>5
<1>3. ASSUME NEW k \in Nat, k \in S PROVE k + 1 \in S
  <2> SUFFICES ASSUME NEW c \in 1 .. N, c >= N - (k + 1), c < N - k PROVE Right(c)
    <3> HIDE DEF Right
    <3> QED BY <1>1, <1>3
  <2> DEFINE next == After(tokens, c)
             rest == f[next]
  <2>1. c \in 1 .. Len(tokens) /\ c + 1 \in 1 .. N /\ c + 1 >= N - k
    BY <1>1
  <2>2. \A d \in 1 .. N : d >= N - k => Right(d)
    <3> HIDE DEF Right, N
    <3> QED BY <1>3
  <2>3. next \in {c + 1, c + 2} /\ next \in 1 .. N /\ next >= N - k
    BY <1>1, <2>1 DEF After, Valued
  <2>4. BeginsWith(rest, tokens, next)
    <3> HIDE DEF next, N
    <3> QED BY <2>2, <2>3
  <2>5. f[c] = ParsedAt(f, tokens, c)
    BY <1>1, <2>1
  <2>6. ~ (c > Len(tokens)) /\ c <= Len(tokens)
    BY <1>1, <2>1
  <2>7. tokens[c] \in Tokens
    BY <2>1, ElementOfSeq
  <2>8. CASE ~ IsFlag(tokens[c])
    <3>1. f[c] = TakesWord(rest, tokens[c])
      BY <2>5, <2>6, <2>8, ParsedCases
    <3>2. PICK word \in Words : tokens[c] = <<word>>
      BY <2>7, <2>8 DEF Tokens, IsFlag
    <3>3. IsArgs(rest) /\ rest.positional \in Seq(Words)
      BY <2>4 DEF BeginsWith
    <3> HIDE DEF rest
    <3> DEFINE s == tokens[c]
               p == rest.positional
               w == s \o p
    <3>4. IsArgs(f[c]) /\ f[c].positional = w
      <4>1. IsArgs(f[c])
        BY <3>1, <3>3, ArgsWith
      <4> HIDE DEF w
      <4>2. w = s \o rest.positional
        BY DEF w
      <4> HIDE DEF s
      <4>3. TakesWord(rest, s).positional = w
        BY <3>3, <4>2, PositionalWithWord
      <4> QED BY <3>1, <4>1, <4>3 DEF s
    <3>5. w \in Seq(Words) /\ w[1] = word
      <4>1. s \in Seq(Words) /\ Len(s) = 1 /\ s[1] = word
        BY <3>2
      <4>2. p \in Seq(Words) /\ Len(p) \in Nat
        BY <3>3, LenProperties
      <4> HIDE DEF s, p
      <4>3. s \o p \in Seq(Words)
        BY <4>1, <4>2, ConcatProperties
      <4>4. (s \o p)[1] = s[1]
        BY <4>1, <4>2, ConcatProperties
      <4> QED BY <4>1, <4>3, <4>4
    <3> HIDE DEF w
    <3>6. c \in StandingFrom(tokens, c)
      BY <2>1, <2>8 DEF StandingFrom
    <3>7. ASSUME NEW i \in StandingFrom(tokens, c), \A j \in StandingFrom(tokens, c) : i <= j
          PROVE  i = c
      <4>1. i \in c .. Len(tokens) /\ i <= c
        BY <3>6, <3>7 DEF StandingFrom
      <4> QED BY <1>1, <4>1
    <3>8. tokens[c][1] = word
      BY <3>2
    <3> QED BY <3>4, <3>5, <3>6, <3>7, <3>8 DEF BeginsWith
  <2>9. CASE IsFlag(tokens[c])
    <3>1. f[c] = TakesFlag(rest, tokens[c][2], Value(tokens, c))
      BY <2>5, <2>6, <2>9, ParsedCases
    <3>2. IsArgs(rest)
      BY <2>4 DEF BeginsWith
    <3>3. StandingFrom(tokens, c) = StandingFrom(tokens, next)
      <4>1. ASSUME NEW i \in c .. Len(tokens)
            PROVE  i \in StandingFrom(tokens, c) <=> i \in StandingFrom(tokens, next)
        BY <1>1, <2>1, <2>9 DEF StandingFrom, After, Valued
      <4>2. StandingFrom(tokens, c) \subseteq c .. Len(tokens)
        BY DEF StandingFrom
      <4>3. StandingFrom(tokens, next) \subseteq c .. Len(tokens)
        <5> HIDE DEF next
        <5> QED BY <1>1, <2>1, <2>3 DEF StandingFrom
      <4> HIDE DEF next
      <4> QED BY <4>1, <4>2, <4>3
    <3> HIDE DEF rest, next
    <3>4. IsArgs(f[c]) /\ f[c].positional = rest.positional
      <4> DEFINE name == tokens[c][2]
                 value == Value(tokens, c)
      <4> HIDE DEF name, value
      <4>1. TakesFlag(rest, name, value).positional = rest.positional
        BY <3>2, PositionalWithFlag
      <4>2. IsArgs(TakesFlag(rest, name, value))
        BY <3>2, ArgsWith
      <4> QED BY <3>1, <4>1, <4>2 DEF name, value
    <3> QED BY <2>4, <3>3, <3>4 DEF BeginsWith
  <2> QED BY <2>8, <2>9
<1>4. N \in S
  <2>1. N \in Nat
    BY <1>1
  <2> HIDE DEF S, N
  <2> QED BY <2>1, <1>2, <1>3, InductionBySet
<1>5. 1 \in 1 .. N /\ 1 >= N - N
  BY <1>1
<1>6. Right(1)
  <2> HIDE DEF Right, N
  <2> QED BY <1>4, <1>5
<1> QED BY <1>6

\* The command is the one that the first word behind no flag orders.
LEMMA CommandIsOrdered ==
  ASSUME argv \in Seq(Tokens), parseArgs(argv).positional # <<>>
  PROVE  CommandOf(parseArgs(argv)) = Ordered
<1>1. Len(argv) \in Nat /\ DOMAIN argv = 1 .. Len(argv)
  BY LenProperties
<1>2. PICK f : /\ parseArgs(argv) = f[1]
               /\ \A i \in 1 .. Len(argv) + 2 : f[i] = ParsedAt(f, argv, i)
  BY ParsedByRecursion
<1>3. BeginsWith(parseArgs(argv), argv, 1)
  BY <1>2, FirstStands
<1>4. Standing = StandingFrom(argv, 1)
  BY <1>1 DEF Standing, StandingFrom
<1>5. Standing # {}
  BY <1>3, <1>4 DEF BeginsWith
<1>6. Standing \in SUBSET Nat
  BY <1>1 DEF Standing
<1>7. Min(Standing) \in Standing /\ \A j \in Standing : Min(Standing) <= j
  <2>1. PICK n \in Standing : \A m \in Standing : n <= m
    BY <1>5, <1>6, LeastNatural
  <2> QED BY <2>1 DEF Min
<1>8. parseArgs(argv).positional[1] = argv[Min(Standing)][1]
  BY <1>3, <1>4, <1>7 DEF BeginsWith
<1> QED BY <1>8 DEF CommandOf, Ordered

(* ---------------------------- what is said ----------------------------- *)

\* Max is what its name says.
LEMMA LargestUpTo ==
  ASSUME NEW n \in Nat, NEW S \in SUBSET (1 .. n), S # {}
  PROVE  Max(S) \in S /\ \A i \in S : Max(S) >= i
<1> DEFINE T == {n - i : i \in S}
<1>1. T \in SUBSET Nat /\ T # {}
  <2>1. \A i \in S : n - i \in Nat
    OBVIOUS
  <2> QED BY <2>1
<1>2. PICK m \in T : \A k \in T : m <= k
  BY <1>1, LeastNatural
<1>3. PICK x \in S : m = n - x
  BY <1>2
<1>4. \A y \in S : x >= y
  <2> TAKE y \in S
  <2>1. n - y \in T
    OBVIOUS
  <2>2. n - x <= n - y
    BY <1>2, <1>3, <2>1
  <2> QED BY <2>2
<1> QED BY <1>4 DEF Max

\* The flags of parseArgs are those that were typed, with the values they were given last.
LEMMA FlagsAsSaid ==
  ASSUME argv \in Seq(Tokens)
  PROVE  /\ DOMAIN parseArgs(argv).flags = Given
         /\ \A name \in Given : parseArgs(argv).flags[name] = Said(name)
<1>1. Len(argv) \in Nat /\ DOMAIN argv = 1 .. Len(argv)
  BY LenProperties
<1>2. PICK f : /\ parseArgs(argv) = f[1]
               /\ \A i \in 1 .. Len(argv) + 2 : f[i] = ParsedAt(f, argv, i)
  BY ParsedByRecursion
<1>3. Says(parseArgs(argv), argv, 1)
  BY <1>2, SaysAll
<1>4. Given = NamesFrom(argv, 1)
  BY <1>1 DEF Given, NamesFrom, FlagsFrom
<1>5. ASSUME NEW name \in Given PROVE parseArgs(argv).flags[name] = Said(name)
  <2> DEFINE P == {i \in DOMAIN argv : argv[i] = <<"--", name>>}
  <2>1. PICK j \in DOMAIN argv : IsFlag(argv[j]) /\ name = argv[j][2]
    BY DEF Given
  <2>2. argv[j] = <<"--", name>>
    BY <2>1, ElementOfSeq, TokenFacts, <1>1
  <2>3. P \in SUBSET (1 .. Len(argv)) /\ P # {}
    BY <1>1, <2>1, <2>2
  <2>4. Max(P) \in P /\ \A i \in P : Max(P) >= i
    <3> HIDE DEF P
    <3> QED BY <1>1, <2>3, LargestUpTo
  <2> DEFINE last == Max(P)
  <2>5. last \in 1 .. Len(argv) /\ argv[last] = <<"--", name>>
    BY <1>1, <2>4
  <2>6. IsFlag(argv[last]) /\ argv[last][2] = name
    BY <2>5 DEF IsFlag
  <2>7. last \in FlagsFrom(argv, 1)
    BY <2>5, <2>6 DEF FlagsFrom
  <2>8. IsLastFrom(argv, last)
    <3> SUFFICES ASSUME NEW k \in last + 1 .. Len(argv), argv[k] = argv[last] PROVE FALSE
      BY DEF IsLastFrom
    <3>1. k \in P
      BY <1>1, <2>5
    <3>2. last >= k
      BY <2>4, <3>1
    <3> QED BY <1>1, <2>5, <3>2
  <2>9. parseArgs(argv).flags[name] = Value(argv, last)
    <3> HIDE DEF last
    <3> QED BY <1>3, <2>6, <2>7, <2>8 DEF Says
  <2>10. Said(name) = Value(argv, last)
    <3>1. Said(name) =
            IF last < Len(argv) /\ ~IsFlag(argv[last + 1]) THEN argv[last + 1] ELSE <<>>
      BY DEF Said
    <3> HIDE DEF last
    <3> QED BY <2>6, <3>1 DEF Value, Valued
  <2> QED BY <2>9, <2>10
<1> QED BY <1>3, <1>4, <1>5 DEF Says

(* ----------------------------- objections ------------------------------ *)

Objections == [objects : BOOLEAN, exit : Nat]

\* No objection of a list holds.
NoneObjects(s) == \A i \in 1 .. Len(s) : ~ s[i].objects

\* Objections are records of a Boolean and an exit code.
LEMMA ObjectionTyped ==
  ASSUME NEW p \in BOOLEAN, NEW n \in Nat
  PROVE  If(p, n) \in Objections /\ If(p, n).objects = p
BY DEF If, Objections

\* main goes on only if no objection holds,
LEMMA FirstObjection ==
  ASSUME NEW s \in Seq(Objections), SelectInSeq(s, LAMBDA o : o.objects) = 0
  PROVE  NoneObjects(s)
<1> DEFINE I == {i \in 1 .. Len(s) : s[i].objects}
<1>1. Len(s) \in Nat
  BY LenProperties
<1>2. (IF I # {} THEN Min(I) ELSE 0) = 0
  BY DEF SelectInSeq
<1>3. ASSUME I # {} PROVE FALSE
  <2>1. I \in SUBSET Nat
    BY <1>1
  <2>2. PICK n \in I : \A m \in I : n <= m
    <3> HIDE DEF I
    <3> QED BY <1>3, <2>1, LeastNatural
  <2>3. Min(I) \in I
    <3> HIDE DEF I
    <3> QED BY <2>2 DEF Min
  <2> QED BY <1>1, <1>2, <1>3, <2>3
<1> QED BY <1>3 DEF NoneObjects

\* neither one of its own nor one of the command's.
LEMMA NoneOfBoth ==
  ASSUME NEW s \in Seq(Objections), NEW t \in Seq(Objections), NoneObjects(s \o t)
  PROVE  NoneObjects(s) /\ NoneObjects(t)
<1>1. /\ Len(s) \in Nat /\ Len(t) \in Nat /\ Len(s \o t) = Len(s) + Len(t)
      /\ \A i \in 1 .. Len(s) + Len(t) : (s \o t)[i] = IF i <= Len(s) THEN s[i] ELSE t[i - Len(s)]
  BY LenProperties, ConcatProperties
<1>2. ASSUME NEW i \in 1 .. Len(s) PROVE ~ s[i].objects
  <2>1. i \in 1 .. Len(s \o t) /\ (s \o t)[i] = s[i]
    BY <1>1
  <2> QED BY <2>1 DEF NoneObjects
<1>3. ASSUME NEW i \in 1 .. Len(t) PROVE ~ t[i].objects
  <2>1. /\ Len(s) + i \in 1 .. Len(s \o t) /\ Len(s) + i \in 1 .. Len(s) + Len(t)
        /\ ~ (Len(s) + i <= Len(s)) /\ Len(s) + i - Len(s) = i
    BY <1>1
  <2>2. (s \o t)[Len(s) + i] = t[Len(s) + i - Len(s)]
    BY <1>1, <2>1
  <2>3. (s \o t)[Len(s) + i] = t[i]
    BY <2>1, <2>2
  <2> QED BY <2>1, <2>3 DEF NoneObjects
<1> QED BY <1>2, <1>3 DEF NoneObjects

\* What main's own objections exclude.
LEMMA FlagsObject ==
  ASSUME NEW args
  PROVE  /\ FlagObjections(args) \in Seq(Objections)
         /\ NoneObjects(FlagObjections(args)) => ~ NamesAreRefused(args)
<1> DEFINE p == \E name \in VALUE_FLAGS \cap DOMAIN args.flags : args.flags[name] \in {<<>>, <<"">>}
           q == IsNoneOf(args, "witness-section", {"always", "when-needed"})
           r == NamesAreRefused(args)
           a == If(p, 2)
           b == If(q, 2)
           c == If(r, 2)
<1>1. p \in BOOLEAN
  OBVIOUS
<1>2. q \in BOOLEAN
  BY DEF IsNoneOf
<1>3. r \in BOOLEAN
  BY DEF NamesAreRefused
<1>4. a \in Objections /\ b \in Objections /\ c \in Objections /\ c.objects = r
  <2> HIDE DEF p, q, r
  <2> QED BY <1>1, <1>2, <1>3, ObjectionTyped
<1>5. FlagObjections(args) = <<a, b, c>>
  BY DEF FlagObjections
<1> HIDE DEF a, b, c, r
<1>6. FlagObjections(args) \in Seq(Objections)
  BY <1>4, <1>5
<1>7. NoneObjects(FlagObjections(args)) => ~ r
  <2>1. Len(<<a, b, c>>) = 3 /\ <<a, b, c>>[3] = c
    OBVIOUS
  <2> QED BY <1>4, <1>5, <2>1 DEF NoneObjects
<1> QED BY <1>6, <1>7 DEF r

\* The tables, row by row.
LEMMA FlagTable ==
  /\ FLAG_COMMANDS["esplora"] = {"proof", "custody", "sat", "resolve"}
  /\ FLAG_COMMANDS["gateway"] = {"resolve"}
  /\ FLAG_COMMANDS["anchor-source"] = {"custody", "sat", "resolve"}
  /\ FLAG_COMMANDS["witness-section"] = {"custody", "sat"}
  /\ FLAG_COMMANDS["level"] = {"proof"}
  /\ FLAG_COMMANDS["max-hops"] = {"custody"}
  /\ FLAG_COMMANDS["max-steps"] = {"sat", "verify"}
  /\ FLAG_COMMANDS["timeout-ms"] = {"proof", "custody", "sat", "resolve"}
  /\ FLAG_COMMANDS["bundle"] = {"custody", "sat"}
  /\ FLAG_COMMANDS["verify"] = {"resolve"}
  /\ FLAG_COMMANDS["out"] = {"resolve"}
  /\ FLAG_COMMANDS["expect-id"] = {"verify"}
<1>1. FLAG_COMMANDS["esplora"] = {"proof", "custody", "sat", "resolve"}
  BY DEF FLAG_COMMANDS, VALUE_FLAGS
<1>2. FLAG_COMMANDS["gateway"] = {"resolve"}
  BY DEF FLAG_COMMANDS, VALUE_FLAGS
<1>3. FLAG_COMMANDS["anchor-source"] = {"custody", "sat", "resolve"}
  BY DEF FLAG_COMMANDS, VALUE_FLAGS
<1>4. FLAG_COMMANDS["witness-section"] = {"custody", "sat"}
  BY DEF FLAG_COMMANDS, VALUE_FLAGS
<1>5. FLAG_COMMANDS["level"] = {"proof"}
  BY DEF FLAG_COMMANDS, VALUE_FLAGS
<1>6. FLAG_COMMANDS["max-hops"] = {"custody"}
  BY DEF FLAG_COMMANDS, VALUE_FLAGS
<1>7. FLAG_COMMANDS["max-steps"] = {"sat", "verify"}
  BY DEF FLAG_COMMANDS, VALUE_FLAGS
<1>8. FLAG_COMMANDS["timeout-ms"] = {"proof", "custody", "sat", "resolve"}
  BY DEF FLAG_COMMANDS, VALUE_FLAGS
<1>9. FLAG_COMMANDS["bundle"] = {"custody", "sat"}
  BY DEF FLAG_COMMANDS, VALUE_FLAGS
<1>10. FLAG_COMMANDS["verify"] = {"resolve"}
  BY DEF FLAG_COMMANDS, VALUE_FLAGS
<1>11. FLAG_COMMANDS["out"] = {"resolve"}
  BY DEF FLAG_COMMANDS, VALUE_FLAGS
<1>12. FLAG_COMMANDS["expect-id"] = {"verify"}
  BY DEF FLAG_COMMANDS, VALUE_FLAGS
<1> QED BY <1>1, <1>2, <1>3, <1>4, <1>5, <1>6, <1>7, <1>8, <1>9, <1>10, <1>11, <1>12

\* What each command's work reads.
LEMMA ConsultsTable ==
  ASSUME NEW kind
  PROVE  /\ Consults("parse", kind) =
              {}
         /\ Consults("proof", kind) =
              {"esplora", "level", "timeout-ms"}
         /\ Consults("custody", kind) =
              {"json", "esplora", "anchor-source", "max-hops", "witness-section", "timeout-ms",
               "bundle"}
         /\ Consults("sat", kind) =
              {"json", "esplora", "anchor-source", "max-steps", "witness-section", "timeout-ms",
               "bundle"}
         /\ Consults("verify", kind) =
              {"json", "expect-id"} \cup (IF kind = "genealogy" THEN {"max-steps"} ELSE {})
         /\ Consults("resolve", kind) =
              {"json", "esplora", "anchor-source", "gateway", "verify", "timeout-ms", "out"}
<1>1. Consults("parse", kind) =
        {}
  BY DEF Consults
<1>2. Consults("proof", kind) =
        {"esplora", "level", "timeout-ms"}
  BY DEF Consults
<1>3. Consults("custody", kind) =
        {"json", "esplora", "anchor-source", "max-hops", "witness-section", "timeout-ms",
         "bundle"}
  BY DEF Consults
<1>4. Consults("sat", kind) =
        {"json", "esplora", "anchor-source", "max-steps", "witness-section", "timeout-ms",
         "bundle"}
  BY DEF Consults
<1>5. Consults("verify", kind) =
        {"json", "expect-id"} \cup (IF kind = "genealogy" THEN {"max-steps"} ELSE {})
  BY DEF Consults
<1>6. Consults("resolve", kind) =
        {"json", "esplora", "anchor-source", "gateway", "verify", "timeout-ms", "out"}
  BY DEF Consults
<1> QED BY <1>1, <1>2, <1>3, <1>4, <1>5, <1>6

\* Does the command's work read the flag, or put out JSON where JSON is asked for?
IsServed(name, command, kind) ==
  name \in Consults(command, kind) \/ (name = "json" /\ command \in {"parse", "proof"})

\* A flag that is not refused is served by the command's work, unless it is the one flag
\* that verify reads of a genealogy only.
LEMMA NamesAreConsulted ==
  ASSUME NEW args, ~ NamesAreRefused(args), "help" \notin DOMAIN args.flags,
         NEW name \in DOMAIN args.flags, NEW kind
  PROVE  /\ (name = "max-steps" /\ CommandOf(args) = "verify") \/
              IsServed(name, CommandOf(args), kind)
         /\ name = "bundle" => CommandOf(args) \in {"custody", "sat"}
         /\ name = "out" => CommandOf(args) = "resolve"
<1> DEFINE command == CommandOf(args)
<1>0. command \in {"parse", "proof", "custody", "sat", "verify", "resolve"}
  BY DEF CommandOf, COMMANDS
<1>1. CASE name = "json"
  <2> HIDE DEF command
  <2>1. command \in {"parse", "proof"} \/ "json" \in Consults(command, kind)
    BY <1>0, ConsultsTable
  <2> QED BY <1>1, <2>1 DEF command, IsServed
<1>2. CASE name # "json"
  <2>1. name \in VALUE_FLAGS /\ command \in FLAG_COMMANDS[name]
    BY <1>2 DEF NamesAreRefused
  <2> HIDE DEF command
  <2>2. CASE name = "esplora"
    <3>1. command \in {"proof", "custody", "sat", "resolve"}
      BY <2>1, <2>2, FlagTable
    <3> QED BY <2>2, <3>1, ConsultsTable DEF command, IsServed
  <2>3. CASE name = "gateway"
    <3>1. command \in {"resolve"}
      BY <2>1, <2>3, FlagTable
    <3> QED BY <2>3, <3>1, ConsultsTable DEF command, IsServed
  <2>4. CASE name = "anchor-source"
    <3>1. command \in {"custody", "sat", "resolve"}
      BY <2>1, <2>4, FlagTable
    <3> QED BY <2>4, <3>1, ConsultsTable DEF command, IsServed
  <2>5. CASE name = "witness-section"
    <3>1. command \in {"custody", "sat"}
      BY <2>1, <2>5, FlagTable
    <3> QED BY <2>5, <3>1, ConsultsTable DEF command, IsServed
  <2>6. CASE name = "level"
    <3>1. command \in {"proof"}
      BY <2>1, <2>6, FlagTable
    <3> QED BY <2>6, <3>1, ConsultsTable DEF command, IsServed
  <2>7. CASE name = "max-hops"
    <3>1. command \in {"custody"}
      BY <2>1, <2>7, FlagTable
    <3> QED BY <2>7, <3>1, ConsultsTable DEF command, IsServed
  <2>8. CASE name = "max-steps"
    <3>1. command \in {"sat", "verify"}
      BY <2>1, <2>8, FlagTable
    <3> QED BY <2>8, <3>1, ConsultsTable DEF command, IsServed
  <2>9. CASE name = "timeout-ms"
    <3>1. command \in {"proof", "custody", "sat", "resolve"}
      BY <2>1, <2>9, FlagTable
    <3> QED BY <2>9, <3>1, ConsultsTable DEF command, IsServed
  <2>10. CASE name = "bundle"
    <3>1. command \in {"custody", "sat"}
      BY <2>1, <2>10, FlagTable
    <3> QED BY <2>10, <3>1, ConsultsTable DEF command, IsServed
  <2>11. CASE name = "verify"
    <3>1. command \in {"resolve"}
      BY <2>1, <2>11, FlagTable
    <3> QED BY <2>11, <3>1, ConsultsTable DEF command, IsServed
  <2>12. CASE name = "out"
    <3>1. command \in {"resolve"}
      BY <2>1, <2>12, FlagTable
    <3> QED BY <2>12, <3>1, ConsultsTable DEF command, IsServed
  <2>13. CASE name = "expect-id"
    <3>1. command \in {"verify"}
      BY <2>1, <2>13, FlagTable
    <3> QED BY <2>13, <3>1, ConsultsTable DEF command, IsServed
  <2> QED BY <2>1, <2>2, <2>3, <2>4, <2>5, <2>6, <2>7, <2>8, <2>9, <2>10, <2>11, <2>12, <2>13 DEF VALUE_FLAGS
<1> QED BY <1>1, <1>2

(* ------------------------------ the work ------------------------------- *)

\* An end is a record of these five.
IsEnd(end) ==
  end = [exit |-> end.exit, work |-> end.work, read |-> end.read, output |-> end.output,
         bytes |-> end.bytes]

\* How an end is altered.
LEMMA EndsWith ==
  ASSUME NEW e, IsEnd(e), NEW x, NEW end
  PROVE  /\ end = [e EXCEPT !.exit = x] =>
              /\ IsEnd(end) /\ end.work = e.work /\ end.read = e.read /\ end.bytes = e.bytes
              /\ end.exit = x /\ end.output = e.output
         /\ end = [e EXCEPT !.output = x] =>
              /\ IsEnd(end) /\ end.work = e.work /\ end.read = e.read /\ end.bytes = e.bytes
              /\ end.exit = e.exit /\ end.output = x
         /\ end = [e EXCEPT !.bytes = x] =>
              /\ IsEnd(end) /\ end.work = e.work /\ end.read = e.read /\ end.bytes = x
              /\ end.exit = e.exit /\ end.output = e.output
         /\ end = Failed(e, x) =>
              /\ IsEnd(end) /\ end.work = e.work /\ end.read = e.read
              /\ end.exit = x
<1>1. PICK a, w, r, o, b :
        e = [exit |-> a, work |-> w, read |-> r, output |-> o, bytes |-> b]
  BY DEF IsEnd
<1> DEFINE R == [exit |-> a, work |-> w, read |-> r, output |-> o, bytes |-> b]
<1>2. ASSUME end = [e EXCEPT !.exit = x]
      PROVE  end = [exit |-> x, work |-> w, read |-> r, output |-> o, bytes |-> b]
  <2>1. [R EXCEPT !.exit = x] = [exit |-> x, work |-> w, read |-> r, output |-> o, bytes |-> b]
    OBVIOUS
  <2> QED BY <1>1, <1>2, <2>1, Zenon
<1>3. ASSUME end = [e EXCEPT !.output = x]
      PROVE  end = [exit |-> a, work |-> w, read |-> r, output |-> x, bytes |-> b]
  <2>1. [R EXCEPT !.output = x] = [exit |-> a, work |-> w, read |-> r, output |-> x, bytes |-> b]
    OBVIOUS
  <2> QED BY <1>1, <1>3, <2>1, Zenon
<1>4. ASSUME end = [e EXCEPT !.bytes = x]
      PROVE  end = [exit |-> a, work |-> w, read |-> r, output |-> o, bytes |-> x]
  <2>1. [R EXCEPT !.bytes = x] = [exit |-> a, work |-> w, read |-> r, output |-> o, bytes |-> x]
    OBVIOUS
  <2> QED BY <1>1, <1>4, <2>1, Zenon
<1>5. ASSUME end = Failed(e, x)
      PROVE  end = [exit |-> x, work |-> w, read |-> r, output |-> {}, bytes |-> "none"]
  BY <1>1, <1>5 DEF Failed, Ended
<1>6. e.exit = a /\ e.work = w /\ e.read = r /\ e.output = o /\ e.bytes = b
  BY <1>1
<1>7. \A p, s, t, u, v :
        end = [exit |-> p, work |-> s, read |-> t, output |-> u, bytes |-> v] =>
          /\ IsEnd(end) /\ end.exit = p /\ end.work = s /\ end.read = t /\ end.output = u
          /\ end.bytes = v
  BY DEF IsEnd
<1>8. end = [e EXCEPT !.exit = x] =>
              /\ IsEnd(end) /\ end.work = e.work /\ end.read = e.read /\ end.bytes = e.bytes
              /\ end.exit = x /\ end.output = e.output
  BY <1>2, <1>6, <1>7
<1>9. end = [e EXCEPT !.output = x] =>
              /\ IsEnd(end) /\ end.work = e.work /\ end.read = e.read /\ end.bytes = e.bytes
              /\ end.exit = e.exit /\ end.output = x
  BY <1>3, <1>6, <1>7
<1>10. end = [e EXCEPT !.bytes = x] =>
              /\ IsEnd(end) /\ end.work = e.work /\ end.read = e.read /\ end.bytes = x
              /\ end.exit = e.exit /\ end.output = e.output
  BY <1>4, <1>6, <1>7
<1>11. end = Failed(e, x) =>
              /\ IsEnd(end) /\ end.work = e.work /\ end.read = e.read
              /\ end.exit = x
  BY <1>5, <1>6, <1>7
<1> QED BY <1>8, <1>9, <1>10, <1>11

\* custody and sat that succeed have written the bundle they were asked for.
LEMMA BundleIsWritten ==
  ASSUME NEW args, NEW worked, IsEnd(worked), NEW end \in WithBundle(args, worked)
  PROVE  /\ end.work = worked.work /\ end.read = worked.read /\ end.exit \in {worked.exit, 1}
         /\ end.exit = 0 /\ "bundle" \in DOMAIN args.flags => args.flags["bundle"] \in end.output
<1> DEFINE file == args.flags["bundle"]
<1>1. CASE "bundle" \notin DOMAIN args.flags
  BY <1>1 DEF WithBundle
<1>2. CASE "bundle" \in DOMAIN args.flags
  <2>1. \/ end = [worked EXCEPT !.output = worked.output \cup {file}]
        \/ end = [worked EXCEPT !.exit = 1]
    BY <1>2, Zenon DEF WithBundle
  <2>2. CASE end = [worked EXCEPT !.output = worked.output \cup {file}]
    <3> DEFINE output == worked.output \cup {file}
    <3>1. /\ end.work = worked.work /\ end.read = worked.read /\ end.exit = worked.exit
          /\ end.output = output
      <4> HIDE DEF output
      <4> QED BY <2>2, EndsWith DEF output
    <3> QED BY <3>1
  <2>3. CASE end = [worked EXCEPT !.exit = 1]
    BY <2>3, EndsWith
  <2> QED BY <2>1, <2>2, <2>3
<1> QED BY <1>1, <1>2

\* resolve that succeeds has written its bytes where they were ordered.
LEMMA BytesAreWritten ==
  ASSUME NEW args, NEW worked, IsEnd(worked), NEW bytes, NEW end \in WithBytes(args, worked, bytes)
  PROVE  /\ end.work = worked.work /\ end.read = worked.read /\ end.exit \in {worked.exit, 1}
         /\ end.bytes = bytes
         /\ end.exit = 0 /\ "out" \in DOMAIN args.flags => args.flags["out"] \in end.output
<1> DEFINE file == args.flags["out"]
           resolved == [worked EXCEPT !.bytes = bytes]
<1>0. /\ IsEnd(resolved) /\ resolved.work = worked.work /\ resolved.read = worked.read
      /\ resolved.bytes = bytes /\ resolved.exit = worked.exit
  BY EndsWith
<1>1. CASE "out" \notin DOMAIN args.flags
  <2>1. end = [resolved EXCEPT !.output = {<<"stdout">>}]
    BY <1>1, Zenon DEF WithBytes
  <2> HIDE DEF resolved
  <2> QED BY <1>0, <1>1, <2>1, EndsWith
<1>2. CASE "out" \in DOMAIN args.flags
  <2>1. \/ end = [resolved EXCEPT !.output = {file}]
        \/ end = [resolved EXCEPT !.exit = 1]
    BY <1>2, Zenon DEF WithBytes
  <2> HIDE DEF resolved
  <2>2. CASE end = [resolved EXCEPT !.output = {file}]
    <3>1. /\ end.work = resolved.work /\ end.read = resolved.read /\ end.exit = resolved.exit
          /\ end.output = {file} /\ end.bytes = resolved.bytes
      <4> HIDE DEF file
      <4> QED BY <1>0, <2>2, EndsWith
    <3> QED BY <1>0, <3>1
  <2>3. CASE end = [resolved EXCEPT !.exit = 1]
    BY <1>0, <2>3, EndsWith
  <2> QED BY <2>1, <2>2, <2>3
<1> QED BY <1>1, <1>2

\* The categories of the refusal table.
LEMMA RowsAreKnown ==
  ASSUME NEW e \in DOMAIN REFUSAL_TABLE, NEW context \in {"verify", "live"}
  PROVE  /\ REFUSAL_TABLE[e][context] \in {"UNPROVEN", "OUT OF SCOPE", "INVALID"}
         /\ e \notin DOMAIN WRAPPER_TABLE
<1>1. DOMAIN REFUSAL_TABLE =
        {"CustodyUnsupported", "EnvelopeIndexUnproven", "CoinbaseHeightUnproven", "SatStepLimit",
         "SatFundingIncomplete", "CustodyHopLimit", "WitnessSectionUnavailable", "SatPosition"}
  BY DEF REFUSAL_TABLE
<1>2. /\ REFUSAL_TABLE["CustodyUnsupported"] = Row("OUT OF SCOPE", "OUT OF SCOPE")
      /\ REFUSAL_TABLE["EnvelopeIndexUnproven"] = Row("UNPROVEN", "UNPROVEN")
      /\ REFUSAL_TABLE["CoinbaseHeightUnproven"] = Row("UNPROVEN", "UNPROVEN")
      /\ REFUSAL_TABLE["SatStepLimit"] = Row("UNPROVEN", "UNPROVEN")
      /\ REFUSAL_TABLE["SatFundingIncomplete"] = Row("UNPROVEN", "UNPROVEN")
      /\ REFUSAL_TABLE["CustodyHopLimit"] = Row("UNPROVEN", "UNPROVEN")
      /\ REFUSAL_TABLE["WitnessSectionUnavailable"] = Row("UNPROVEN", "UNPROVEN")
      /\ REFUSAL_TABLE["SatPosition"] = Row("INVALID", "UNPROVEN")
  BY DEF REFUSAL_TABLE
<1>3. /\ Row("OUT OF SCOPE", "OUT OF SCOPE")[context] = "OUT OF SCOPE"
      /\ Row("UNPROVEN", "UNPROVEN")[context] = "UNPROVEN"
      /\ Row("INVALID", "UNPROVEN")[context] \in {"INVALID", "UNPROVEN"}
  <2>1. \A a, b : Row(a, b)["verify"] = a /\ Row(a, b)["live"] = b
    BY DEF Row
  <2>2. CASE context = "verify"
    BY <2>1, <2>2
  <2>3. CASE context = "live"
    BY <2>1, <2>3
  <2> QED BY <2>2, <2>3
<1>4. e \notin DOMAIN WRAPPER_TABLE
  BY <1>1 DEF WRAPPER_TABLE
<1> QED BY <1>1, <1>2, <1>3, <1>4

\* No error of the work is reported with the exit code of a usage error.
LEMMA FailuresAreNoUsageErrors ==
  ASSUME NEW e, NEW context \in {"verify", "live"}, NEW unanimous
  PROVE  failFrom(e, context, unanimous) \in {1, 3, 4, 5}
<1> DEFINE category == refusalReport(e, context, unanimous)
<1>1. category \in {"UNPROVEN", "OUT OF SCOPE", "INVALID", "INCOMPLETE"}
  <2>1. CASE e \in DOMAIN REFUSAL_TABLE
    <3>1. e \notin DOMAIN WRAPPER_TABLE
      BY <2>1, RowsAreKnown
    <3>2. category = IF context = "live" /\ unanimous = "no"
                     THEN nonUnanimousCategory ELSE REFUSAL_TABLE[e][context]
      BY <2>1, <3>1 DEF refusalReport
    <3> HIDE DEF category
    <3> QED BY <2>1, <3>2, RowsAreKnown DEF nonUnanimousCategory
  <2>2. CASE e \notin DOMAIN REFUSAL_TABLE /\ e \in DOMAIN WRAPPER_TABLE
    <3>1. WRAPPER_TABLE[e] \in {"INCOMPLETE", "UNPROVEN", "INVALID"}
      BY <2>2 DEF WRAPPER_TABLE
    <3>2. category = WRAPPER_TABLE[e]
      BY <2>2 DEF refusalReport
    <3> HIDE DEF category
    <3> QED BY <3>1, <3>2
  <2>3. CASE e \notin DOMAIN REFUSAL_TABLE /\ e \notin DOMAIN WRAPPER_TABLE
    <3>1. category = "INVALID"
      BY <2>3, Zenon DEF refusalReport
    <3> QED BY <3>1
  <2> QED BY <2>1, <2>2, <2>3
<1>2. failFrom(e, context, unanimous) = CATEGORY_EXIT_CODES(category)
  BY DEF failFrom
<1> HIDE DEF category
<1> QED BY <1>1, <1>2 DEF CATEGORY_EXIT_CODES

\* What resolves in any mode has the integrity its URI asks for, and at L1 it asks for one.
LEMMA ResolutionsAreIntact ==
  ASSUME NEW uri \in OrdUris, NEW mode \in {"none", "L1", "L2", "L3"},
         NEW r \in resolve[uri][mode], r.code = "ok"
  PROVE  /\ checkIntegrity(parseOrdUri(uri), r.bytes)
         /\ mode = "L1" => parseOrdUri(uri).pin # "none"
<1> DEFINE u == parseOrdUri(uri)
<1>1. \A stored : Resolved(stored).code = "ok" /\ Resolved(stored).bytes = stored
  BY DEF Resolved
<1>2. \A code : OrdResolveError(code).code = code
  BY DEF OrdResolveError
<1>3. CASE mode \in {"L2", "L3"}
  <2>1. PICK i \in Envelopes, end \in PathEnds : r = resolveVerified(u, i, end)
    BY <1>3 DEF resolve
  <2> DEFINE source == Source(u, i)
  <2>2. \/ r = OrdResolveError(end) /\ end # "verified"
        \/ r = OrdResolveError("NO_CONTENT")
        \/ r = OrdResolveError("INTEGRITY")
        \/ r = Resolved(source) /\ checkIntegrity(u, source)
    BY <2>1, Zenon DEF resolveVerified
  <2>3. end # "ok"
    BY DEF PathEnds
  <2> HIDE DEF source, u
  <2>6. OrdResolveError("NO_CONTENT").code # "ok" /\ OrdResolveError("INTEGRITY").code # "ok"
    BY <1>2
  <2>7. OrdResolveError(end).code # "ok"
    BY <1>2, <2>3
  <2>4. r = Resolved(source) /\ checkIntegrity(u, source)
    BY <2>2, <2>6, <2>7, Zenon
  <2>5. checkIntegrity(u, r.bytes)
    BY <1>1, <2>4
  <2> QED BY <1>3, <2>5 DEF u
<1>4. CASE mode \in {"none", "L1"}
  <2>1. PICK a \in ServerAnswers, b \in ServerAnswers : r = resolveViaGateway(u, mode, <<a, b>>)
    BY <1>4 DEF resolve
  <2> DEFINE first == SelectInSeq(<<a, b>>, LAMBDA answer : answer # "fails")
             answer == <<a, b>>[first]
  <2>2. \/ \E code \in {"INTEGRITY", "BACKEND", "INTEGRITY_INDETERMINATE"} : r = OrdResolveError(code)
        \/ /\ r = Resolved(answer) /\ checkIntegrity(u, answer)
           /\ ~ (mode = "L1" /\ u.pin = "none")
    BY <2>1, Zenon DEF resolveViaGateway
  <2> HIDE DEF answer, first, u
  <2>3. \A code \in {"INTEGRITY", "BACKEND", "INTEGRITY_INDETERMINATE"} :
          OrdResolveError(code).code # "ok"
    BY <1>2
  <2>4. /\ r = Resolved(answer) /\ checkIntegrity(u, answer)
        /\ ~ (mode = "L1" /\ u.pin = "none")
    BY <2>2, <2>3
  <2>5. checkIntegrity(u, r.bytes)
    BY <1>1, <2>4
  <2> QED BY <2>4, <2>5 DEF u
<1> QED BY <1>3, <1>4

\* What the verified path serves under a pin is served at L1 too.
LEMMA PinsAlwaysAgree ==
  ASSUME NEW uri, uri.path \in {"undelegated", "content", "metadata"}
  PROVE  PinsAgree(uri)
<1> SUFFICES ASSUME NEW inscription \in Envelopes,
                    resolveVerified(uri, inscription, "verified").code = "ok", uri.pin # "none"
             PROVE  resolveViaGateway(uri, "L1", <<"fails", Source(uri, inscription)>>) =
                      resolveVerified(uri, inscription, "verified")
  BY DEF PinsAgree
<1> DEFINE source == Source(uri, inscription)
           first == SelectInSeq(<<"fails", source>>, LAMBDA answer : answer # "fails")
<1>1. /\ resolveVerified(uri, inscription, "verified") = Resolved(source)
      /\ checkIntegrity(uri, source)
  BY DEF resolveVerified, OrdResolveError
<1>2. source # "fails"
  BY DEF Source
<1>3. first = 2
  <2> HIDE DEF source
  <2>1. {i \in 1 .. Len(<<"fails", source>>) : <<"fails", source>>[i] # "fails"} = {2}
    BY <1>2
  <2>2. Min({2}) = 2
    BY DEF Min
  <2> QED BY <2>1, <2>2, Zenon DEF SelectInSeq
<1>4. <<"fails", source>>[first] = source
  <2> HIDE DEF source, first
  <2> QED BY <1>3
<1>5. resolveViaGateway(uri, "L1", <<"fails", source>>) = Resolved(source)
  <2>1. ~ (first = 0)
    BY <1>3
  <2> HIDE DEF source
  <2> QED BY <1>1, <1>4, <2>1, Zenon DEF resolveViaGateway
<1> QED BY <1>1, <1>5

(* ------------------------------ the arms ------------------------------- *)

\* What kind of bundle a file holds.
Kind(file) == classifyBundle(file.keys)

\* What the objections of verify exclude ...
LEMMA VerifyObjects ==
  ASSUME NEW args, NEW file
  PROVE  /\ VerifyObjections(args, file) \in Seq(Objections)
         /\ NoneObjects(VerifyObjections(args, file)) =>
              ~ ("max-steps" \in DOMAIN args.flags /\ Kind(file) # "genealogy")
<1> DEFINE p4 == "max-steps" \in DOMAIN args.flags /\ Kind(file) # "genealogy"
           o1 == If(~file.readable, 2)
           o2 == If(~file.json, 1)
           o3 == If(Kind(file) = "unknown", 2)
           o4 == If(p4, 2)
           o5 == If(IsNoneOf(args, "max-steps", PositiveIntegers), 2)
           o6 == If(IsNoneOf(args, "expect-id", {"id"}), 2)
<1>1. o1 \in Objections /\ o2 \in Objections /\ o3 \in Objections
  <2>1. (~file.readable) \in BOOLEAN /\ (~file.json) \in BOOLEAN
    OBVIOUS
  <2>2. (Kind(file) = "unknown") \in BOOLEAN
    OBVIOUS
  <2> QED BY <2>1, <2>2, ObjectionTyped
<1>2. o4 \in Objections /\ o4.objects = p4
  <2>1. p4 \in BOOLEAN
    OBVIOUS
  <2> HIDE DEF p4
  <2> QED BY <2>1, ObjectionTyped
<1>3. o5 \in Objections /\ o6 \in Objections
  <2>1. \A name, values : IsNoneOf(args, name, values) \in BOOLEAN
    BY DEF IsNoneOf
  <2> QED BY <2>1, ObjectionTyped
<1>4. VerifyObjections(args, file) = <<o1, o2, o3, o4, o5, o6>>
  BY DEF VerifyObjections, Kind
<1> HIDE DEF o1, o2, o3, o4, o5, o6, p4
<1>5. VerifyObjections(args, file) \in Seq(Objections)
  BY <1>1, <1>2, <1>3, <1>4
<1>6. NoneObjects(VerifyObjections(args, file)) => ~ p4
  <2>1. Len(<<o1, o2, o3, o4, o5, o6>>) = 6 /\ <<o1, o2, o3, o4, o5, o6>>[4] = o4
    OBVIOUS
  <2> QED BY <1>2, <1>4, <2>1 DEF NoneObjects
<1> QED BY <1>5, <1>6 DEF p4

\* ... those of resolve ...
LEMMA ResolveObjects ==
  ASSUME NEW args
  PROVE  /\ ResolveObjections(args) \in Seq(Objections)
         /\ NoneObjects(ResolveObjections(args)) =>
              ~ IsNoneOf(args, "verify", {"none", "L1", "L2", "L3"})
<1> DEFINE p == IsNoneOf(args, "verify", {"none", "L1", "L2", "L3"})
           q == timeoutLimits(args)
           a == If(p, 2)
           b == If(q, 2)
<1>1. p \in BOOLEAN /\ q \in BOOLEAN
  BY DEF IsNoneOf, timeoutLimits
<1>2. a \in Objections /\ b \in Objections /\ a.objects = p
  <2> HIDE DEF p, q
  <2> QED BY <1>1, ObjectionTyped
<1>3. ResolveObjections(args) = <<a, b>>
  BY DEF ResolveObjections
<1> HIDE DEF a, b, p
<1>4. ResolveObjections(args) \in Seq(Objections)
  BY <1>2, <1>3
<1>5. NoneObjects(ResolveObjections(args)) => ~ p
  <2>1. Len(<<a, b>>) = 2 /\ <<a, b>>[1] = a
    OBVIOUS
  <2> QED BY <1>2, <1>3, <2>1 DEF NoneObjects
<1> QED BY <1>4, <1>5 DEF p

\* ... and of any command.
LEMMA ArmObjects ==
  ASSUME NEW args, NEW file
  PROVE  /\ ArmObjections(args, file) \in Seq(Objections)
         /\ NoneObjects(ArmObjections(args, file)) =>
              /\ CommandOf(args) = "verify" =>
                   ~ ("max-steps" \in DOMAIN args.flags /\ Kind(file) # "genealogy")
              /\ CommandOf(args) = "resolve" =>
                   ~ IsNoneOf(args, "verify", {"none", "L1", "L2", "L3"})
<1> DEFINE command == CommandOf(args)
           missing == If(Len(args.positional) < 2, 2)
           badId == If(Len(args.positional) >= 2 => args.positional[2] \notin OrdUris, 1)
           number(name) == If(IsNoneOf(args, name, PositiveIntegers), 2)
           slow == If(timeoutLimits(args), 2)
           hops == number("max-hops")
           steps == number("max-steps")
           level == If(IsNoneOf(args, "level", {"L2", "L3"}), 2)
<1>1. missing \in Objections /\ badId \in Objections
  <2>1. (Len(args.positional) < 2) \in BOOLEAN
    OBVIOUS
  <2>2. (Len(args.positional) >= 2 => args.positional[2] \notin OrdUris) \in BOOLEAN
    OBVIOUS
  <2> QED BY <2>1, <2>2, ObjectionTyped
<1>2. slow \in Objections /\ hops \in Objections /\ steps \in Objections /\ level \in Objections
  <2>1. /\ timeoutLimits(args) \in BOOLEAN
        /\ \A name, values : IsNoneOf(args, name, values) \in BOOLEAN
    BY DEF IsNoneOf, timeoutLimits
  <2> QED BY <2>1, ObjectionTyped
<1>3. command \in {"parse", "proof", "custody", "sat", "verify", "resolve"}
  BY DEF CommandOf, COMMANDS
<1>4. /\ command = "parse" => ArmObjections(args, file) = <<missing, badId>>
      /\ command = "proof" => ArmObjections(args, file) = <<missing, level, badId, slow>>
      /\ command = "custody" => ArmObjections(args, file) = <<missing, badId, hops, slow>>
      /\ command = "sat" => ArmObjections(args, file) = <<missing, badId, steps, slow>>
      /\ command = "verify" =>
           ArmObjections(args, file) = <<missing>> \o VerifyObjections(args, file)
      /\ command = "resolve" => ArmObjections(args, file) = ResolveObjections(args)
  BY DEF ArmObjections
<1> HIDE DEF missing, badId, slow, hops, steps, level, command
<1>5. CASE command \in {"parse", "proof", "custody", "sat"}
  <2>1. <<missing, badId>> \in Seq(Objections)
    BY <1>1
  <2>2. <<missing, level, badId, slow>> \in Seq(Objections)
    BY <1>1, <1>2
  <2>3. <<missing, badId, hops, slow>> \in Seq(Objections)
    BY <1>1, <1>2
  <2>4. <<missing, badId, steps, slow>> \in Seq(Objections)
    BY <1>1, <1>2
  <2>5. ArmObjections(args, file) \in Seq(Objections)
    BY <1>4, <1>5, <2>1, <2>2, <2>3, <2>4, Zenon
  <2> QED BY <1>5, <2>5 DEF command
<1>6. CASE command = "verify"
  <2>1. <<missing>> \in Seq(Objections)
    BY <1>1
  <2>2. VerifyObjections(args, file) \in Seq(Objections)
    BY VerifyObjects
  <2>3. ArmObjections(args, file) \in Seq(Objections)
    BY <1>4, <1>6, <2>1, <2>2, ConcatProperties
  <2>4. ASSUME NoneObjects(ArmObjections(args, file))
        PROVE  NoneObjects(VerifyObjections(args, file))
    BY <1>4, <1>6, <2>1, <2>2, <2>4, NoneOfBoth
  <2> QED BY <1>6, <2>3, <2>4, VerifyObjects DEF command
<1>7. CASE command = "resolve"
  BY <1>4, <1>7, ResolveObjects DEF command
<1> QED BY <1>3, <1>5, <1>6, <1>7

(* -------------------------- the whole of main -------------------------- *)

\* What is asked of an end that a command's work came to.
WorkIsSound(args, kind, end) ==
  /\ end.exit # 2 /\ end.work = CommandOf(args)
  /\ end.read = {<<name, args.flags[name]>> :
                   name \in DOMAIN args.flags \cap Consults(CommandOf(args), kind)}
  /\ end.exit = 0 /\ CommandOf(args) \in {"custody", "sat"} /\ "bundle" \in DOMAIN args.flags =>
       args.flags["bundle"] \in end.output
  /\ end.exit = 0 /\ CommandOf(args) = "resolve" =>
       /\ "out" \in DOMAIN args.flags => args.flags["out"] \in end.output
       /\ LET uri == parseOrdUri(args.positional[1])
          IN  /\ checkIntegrity(uri, end.bytes)
              /\ Mode(args) = "L1" => uri.pin # "none"
              /\ PinsAgree(uri)

\* The mode of resolve is one of four.
LEMMA ModeIsKnown ==
  ASSUME NEW args, ~ IsNoneOf(args, "verify", {"none", "L1", "L2", "L3"})
  PROVE  Mode(args) \in {"none", "L1", "L2", "L3"}
<1>1. CASE "verify" \in DOMAIN args.flags
  <2>1. args.flags["verify"] \in {<<value>> : value \in {"none", "L1", "L2", "L3"}}
    BY <1>1 DEF IsNoneOf
  <2>2. PICK value \in {"none", "L1", "L2", "L3"} : args.flags["verify"] = <<value>>
    BY <2>1
  <2>3. Mode(args) = args.flags["verify"][1]
    BY <1>1 DEF Mode
  <2> QED BY <2>2, <2>3
<1>2. CASE "verify" \notin DOMAIN args.flags
  BY <1>2 DEF Mode
<1> QED BY <1>1, <1>2

\* However its work ends, a command has done what it was ordered.
LEMMA WorkEndsSoundly ==
  ASSUME NEW args, NEW file, NoneObjects(ArmObjections(args, file)), NEW end \in Works(args, file)
  PROVE  WorkIsSound(args, Kind(file), end)
<1> DEFINE command == CommandOf(args)
           flags == DOMAIN args.flags \cap Consults(command, Kind(file))
           read == {<<name, args.flags[name]>> : name \in flags}
           worked == Ended(0, command, read, {<<"stdout">>})
<1>1. /\ IsEnd(worked) /\ worked.exit = 0 /\ worked.work = command /\ worked.read = read
  <2> HIDE DEF read, command
  <2> QED BY DEF Ended, IsEnd
<1>2. command \in {"parse", "proof", "custody", "sat", "verify", "resolve"}
  BY DEF CommandOf, COMMANDS
<1>3. /\ command = "parse" => end \in {worked}
      /\ command = "proof" => end \in {worked, Failed(worked, 1)}
      /\ command = "verify" => end \in VerifyWorks(worked)
      /\ command = "resolve" => end \in ResolveWorks(args, worked)
      /\ command \in {"custody", "sat"} => end \in WalkWorks(args, worked)
  <2>1. Works(args, file) =
          CASE command = "parse"   -> {worked}
            [] command = "proof"   -> {worked, Failed(worked, 1)}
            [] command = "verify"  -> VerifyWorks(worked)
            [] command = "resolve" -> ResolveWorks(args, worked)
            [] command \in {"custody", "sat"} -> WalkWorks(args, worked)
    BY DEF Works, Kind
  <2> HIDE DEF worked, command
  <2> QED BY <2>1
<1> HIDE DEF worked
<1>4. ASSUME NEW x, end = Failed(worked, x)
      PROVE  end.work = command /\ end.read = read /\ end.exit = x
  <2> HIDE DEF command, read
  <2> QED BY <1>1, <1>4, EndsWith
<1>5. CASE command \in {"parse", "proof"}
  <2>1. end = worked \/ end = Failed(worked, 1)
    BY <1>3, <1>5
  <2>2. end.work = command /\ end.read = read /\ end.exit \in {0, 1}
    BY <1>1, <1>4, <2>1
  <2> QED BY <1>5, <2>2 DEF WorkIsSound
<1>6. CASE command = "verify"
  <2>1. end = worked \/ \E e \in Errors : end = Failed(worked, failFrom(e, "verify", "unmarked"))
    BY <1>3, <1>6 DEF VerifyWorks
  <2>2. end.work = command /\ end.read = read /\ end.exit \in {0, 1, 3, 4, 5}
    <3>1. \A e : failFrom(e, "verify", "unmarked") \in {1, 3, 4, 5}
      BY FailuresAreNoUsageErrors
    <3> HIDE DEF command, read
    <3> QED BY <1>1, <1>4, <2>1, <3>1
  <2> QED BY <1>6, <2>2 DEF WorkIsSound
<1>7. CASE command \in {"custody", "sat"}
  <2>1. \/ end \in WithBundle(args, worked)
        \/ \E e \in Errors, said \in {"yes", "no", "unmarked"} :
             end = Failed(worked, failFrom(e, "live", said))
    BY <1>3, <1>7 DEF WalkWorks
  <2>2. CASE end \in WithBundle(args, worked)
    <3>1. /\ end.work = command /\ end.read = read /\ end.exit \in {0, 1}
          /\ end.exit = 0 /\ "bundle" \in DOMAIN args.flags => args.flags["bundle"] \in end.output
      <4> HIDE DEF command, read
      <4> QED BY <1>1, <2>2, BundleIsWritten
    <3> QED BY <1>7, <3>1 DEF WorkIsSound
  <2>3. CASE \E e \in Errors, said \in {"yes", "no", "unmarked"} :
               end = Failed(worked, failFrom(e, "live", said))
    <3>1. end.work = command /\ end.read = read /\ end.exit \in {1, 3, 4, 5}
      <4>1. \A e, said : failFrom(e, "live", said) \in {1, 3, 4, 5}
        BY FailuresAreNoUsageErrors
      <4> HIDE DEF command, read
      <4> QED BY <1>1, <1>4, <2>3, <4>1
    <3> QED BY <1>7, <3>1 DEF WorkIsSound
  <2> QED BY <2>1, <2>2, <2>3
<1>8. CASE command = "resolve"
  <2> DEFINE uri == args.positional[1]
             mode == Mode(args)
  <2>1. mode \in {"none", "L1", "L2", "L3"}
    BY <1>8, ArmObjects, ModeIsKnown
  <2>2. \/ end = Failed(worked, 1)
        \/ /\ uri \in OrdUris
           /\ \E r \in resolve[uri][mode] : r.code = "ok" /\ end \in WithBytes(args, worked, r.bytes)
    <3>1. end \in ResolveWorks(args, worked)
      BY <1>3, <1>8
    <3>2. CASE uri \notin OrdUris
      BY <3>1, <3>2 DEF ResolveWorks
    <3>3. CASE uri \in OrdUris
      <4>1. end \in UNION {IF r.code = "ok" THEN WithBytes(args, worked, r.bytes)
                           ELSE {Failed(worked, 1)} : r \in resolve[uri][mode]}
        BY <3>1, <3>3 DEF ResolveWorks
      <4> HIDE DEF uri, mode
      <4>2. PICK r \in resolve[uri][mode] :
              end \in IF r.code = "ok" THEN WithBytes(args, worked, r.bytes)
                      ELSE {Failed(worked, 1)}
        BY <4>1
      <4> QED BY <3>3, <4>2
    <3> QED BY <3>2, <3>3
  <2>3. CASE end = Failed(worked, 1)
    <3>1. end.work = command /\ end.read = read /\ end.exit = 1
      BY <1>4, <2>3
    <3> QED BY <1>8, <3>1 DEF WorkIsSound
  <2>4. CASE /\ uri \in OrdUris
             /\ \E r \in resolve[uri][mode] : r.code = "ok" /\ end \in WithBytes(args, worked, r.bytes)
    <3>1. PICK r \in resolve[uri][mode] : r.code = "ok" /\ end \in WithBytes(args, worked, r.bytes)
      BY <2>4
    <3>2. /\ end.work = command /\ end.read = read /\ end.exit \in {0, 1} /\ end.bytes = r.bytes
          /\ end.exit = 0 /\ "out" \in DOMAIN args.flags => args.flags["out"] \in end.output
      <4> HIDE DEF command, read, uri, mode
      <4> QED BY <1>1, <3>1, BytesAreWritten
    <3>3. checkIntegrity(parseOrdUri(uri), r.bytes) /\ (mode = "L1" => parseOrdUri(uri).pin # "none")
      <4> HIDE DEF mode, uri
      <4> QED BY <2>1, <2>4, <3>1, ResolutionsAreIntact
    <3>4. PinsAgree(parseOrdUri(uri))
      <4>1. parseOrdUri(uri).path \in {"undelegated", "content", "metadata"}
        <5> HIDE DEF uri
        <5> QED BY <2>4 DEF OrdUris, parseOrdUri, Uri
      <4> QED BY <4>1, PinsAlwaysAgree
    <3> QED BY <1>8, <3>2, <3>3, <3>4 DEF WorkIsSound
  <2> QED BY <2>2, <2>3, <2>4
<1> QED BY <1>2, <1>5, <1>6, <1>7, <1>8

\* What main may come to is work that serves every flag that is given, or nothing is done.
LEMMA EndsAreSound ==
  ASSUME NEW args, NEW end \in Ends(args)
  PROVE  \/ end.work = "none" /\ end.output = {}
         \/ \E kind : /\ WorkIsSound(args, kind, end) /\ args.positional # <<>>
                      /\ \A name \in DOMAIN args.flags :
                           /\ IsServed(name, CommandOf(args), kind)
                           /\ name = "bundle" => CommandOf(args) \in {"custody", "sat"}
                           /\ name = "out" => CommandOf(args) = "resolve"
<1>1. \A exit : Ended(exit, "none", {}, {}).work = "none" /\ Ended(exit, "none", {}, {}).output = {}
  BY DEF Ended
<1>2. CASE args.positional = <<>>
  <2>1. end = Ended(2, "none", {}, {})
    BY <1>2 DEF Ends
  <2> QED BY <1>1, <2>1
<1>3. CASE args.positional # <<>> /\ "help" \in DOMAIN args.flags
  <2>1. end = Ended(0, "none", {}, {})
    BY <1>3 DEF Ends
  <2> QED BY <1>1, <2>1
<1>4. CASE args.positional # <<>> /\ "help" \notin DOMAIN args.flags
  <2> DEFINE objections(file) == FlagObjections(args) \o ArmObjections(args, file)
             first(file) == SelectInSeq(objections(file), LAMBDA o : o.objects)
  <2>1. end \in UNION {IF first(file) = 0 THEN Works(args, file)
                       ELSE {Ended(objections(file)[first(file)].exit, "none", {}, {})} :
                         file \in Opened(args)}
    BY <1>4, Zenon DEF Ends
  <2>2. PICK file \in Opened(args) :
          end \in IF first(file) = 0 THEN Works(args, file)
                  ELSE {Ended(objections(file)[first(file)].exit, "none", {}, {})}
    <3> HIDE DEF objections, first
    <3> QED BY <2>1
  <2>3. CASE ~ (first(file) = 0)
    <3> HIDE DEF objections, first
    <3> QED BY <1>1, <2>2, <2>3
  <2>4. CASE first(file) = 0
    <3>1. /\ FlagObjections(args) \in Seq(Objections)
          /\ ArmObjections(args, file) \in Seq(Objections)
      BY FlagsObject, ArmObjects
    <3>2. objections(file) \in Seq(Objections)
      BY <3>1, ConcatProperties
    <3>3. NoneObjects(objections(file))
      <4> HIDE DEF objections
      <4> QED BY <2>4, <3>2, FirstObjection
    <3>4. NoneObjects(FlagObjections(args)) /\ NoneObjects(ArmObjections(args, file))
      BY <3>1, <3>3, NoneOfBoth
    <3>5. ~ NamesAreRefused(args)
      BY <3>4, FlagsObject
    <3>6. WorkIsSound(args, Kind(file), end)
      <4>1. end \in Works(args, file)
        <5> HIDE DEF objections, first
        <5> QED BY <2>2, <2>4
      <4> QED BY <3>4, <4>1, WorkEndsSoundly
    <3>7. ASSUME NEW name \in DOMAIN args.flags
          PROVE  /\ IsServed(name, CommandOf(args), Kind(file))
                 /\ name = "bundle" => CommandOf(args) \in {"custody", "sat"}
                 /\ name = "out" => CommandOf(args) = "resolve"
      <4>1. CASE name = "max-steps" /\ CommandOf(args) = "verify"
        <5>1. Kind(file) = "genealogy"
          BY <3>4, <4>1, ArmObjects
        <5> QED BY <4>1, <5>1, ConsultsTable DEF IsServed
      <4>2. CASE ~ (name = "max-steps" /\ CommandOf(args) = "verify")
        BY <1>4, <3>5, <4>2, NamesAreConsulted
      <4> QED BY <4>1, <4>2
    <3> QED BY <1>4, <3>6, <3>7
  <2> QED BY <2>3, <2>4
<1> QED BY <1>2, <1>3, <1>4

\* For every command line, however long.
LEMMA OrdersOfTokens ==
  ASSUME argv \in Seq(Tokens)
  PROVE  OrdersAreHonoured
<1> DEFINE args == parseArgs(argv)
<1>1. DOMAIN args.flags = Given /\ \A name \in Given : args.flags[name] = Said(name)
  BY FlagsAsSaid
<1> HIDE DEF args
<1> DEFINE Honoured(end) ==
             /\ end.exit = 2 => end.work = "none" /\ end.output = {}
             /\ AsIntended /\ end.work # "none" =>
                  /\ end.work = Ordered
                  /\ \A name \in Given :
                       \/ <<name, Said(name)>> \in end.read
                       \/ name = "json" /\ end.work \in {"parse", "proof"}
                  /\ end.exit = 0 =>
                       \A name \in Given \cap {"bundle", "out"} : Said(name) \in end.output
             /\ end.exit = 0 /\ end.work = "resolve" =>
                  LET uri == parseOrdUri(args.positional[1])
                  IN  /\ ~PinsADelegate(uri) => uri.pin \in {"none", end.bytes}
                      /\ Mode(args) = "L1" => uri.pin # "none"
                      /\ PinsAgree(uri)
<1> SUFFICES ASSUME NEW end \in Ends(args) PROVE Honoured(end)
  BY DEF OrdersAreHonoured, args
<1>2. CASE end.work = "none" /\ end.output = {}
  BY <1>2
<1>3. CASE \E kind : /\ WorkIsSound(args, kind, end) /\ args.positional # <<>>
                     /\ \A name \in DOMAIN args.flags :
                          /\ IsServed(name, CommandOf(args), kind)
                          /\ name = "bundle" => CommandOf(args) \in {"custody", "sat"}
                          /\ name = "out" => CommandOf(args) = "resolve"
  <2>1. PICK kind : /\ WorkIsSound(args, kind, end) /\ args.positional # <<>>
                    /\ \A name \in DOMAIN args.flags :
                         /\ IsServed(name, CommandOf(args), kind)
                         /\ name = "bundle" => CommandOf(args) \in {"custody", "sat"}
                         /\ name = "out" => CommandOf(args) = "resolve"
    BY <1>3
  <2>2. end.exit # 2 /\ end.work = CommandOf(args)
    BY <2>1 DEF WorkIsSound
  <2>3. ASSUME NEW name \in Given
        PROVE  \/ <<name, Said(name)>> \in end.read
               \/ name = "json" /\ end.work \in {"parse", "proof"}
    <3>1. name \in DOMAIN args.flags /\ args.flags[name] = Said(name)
      BY <1>1
    <3>2. CASE name \in Consults(CommandOf(args), kind)
      <4>1. <<name, args.flags[name]>> \in end.read
        BY <2>1, <3>1, <3>2 DEF WorkIsSound
      <4> QED BY <3>1, <4>1
    <3>3. CASE name = "json" /\ CommandOf(args) \in {"parse", "proof"}
      BY <2>2, <3>3
    <3> QED BY <2>1, <3>1, <3>2, <3>3 DEF IsServed
  <2>4. ASSUME end.exit = 0, NEW name \in Given \cap {"bundle", "out"}
        PROVE  Said(name) \in end.output
    <3>1. name \in DOMAIN args.flags /\ args.flags[name] = Said(name)
      BY <1>1
    <3>2. CASE name = "bundle"
      BY <2>1, <2>4, <3>1, <3>2 DEF WorkIsSound
    <3>3. CASE name = "out"
      BY <2>1, <2>4, <3>1, <3>3 DEF WorkIsSound
    <3> QED BY <3>2, <3>3
  <2>5. end.exit = 0 /\ end.work = "resolve" =>
          LET uri == parseOrdUri(args.positional[1])
          IN  /\ uri.pin \in {"none", end.bytes}
              /\ Mode(args) = "L1" => uri.pin # "none"
              /\ PinsAgree(uri)
    BY <2>1, <2>2 DEF WorkIsSound, checkIntegrity
  <2>6. end.work = Ordered
    BY <2>1, <2>2, CommandIsOrdered DEF args
  <2> QED BY <2>2, <2>3, <2>4, <2>5, <2>6
<1> HIDE DEF Honoured
<1> QED BY <1>2, <1>3, EndsAreSound

\* A command line is a sequence of tokens.
ArgvTyped == argv \in Seq(Tokens)

\* Whatever is typed, with any words and any names of flags: a usage error leaves nothing done,
\* and resolved bytes are what the URI pins; on a line with no flag typed twice and no word
\* behind --json, work begins only if it is what the first word behind no flag orders and reads
\* every flag as it was typed (--json need not be read where JSON is put out anyway), and
\* success has left what was ordered.
THEOREM OrdersAlwaysHonoured == CommandSpec => []OrdersAreHonoured
<1>1. CommandInit => ArgvTyped
  BY EmptySeq DEF CommandInit, ArgvTyped
<1>2. ArgvTyped /\ [TypeToken]_argv => ArgvTyped'
  <2> SUFFICES ASSUME ArgvTyped, TypeToken PROVE ArgvTyped'
    BY DEF ArgvTyped
  <2>1. PICK token \in Tokens : argv' = Append(argv, token)
    BY DEF TypeToken, Tokens
  <2> QED BY <2>1, AppendProperties DEF ArgvTyped
<1>3. ArgvTyped => OrdersAreHonoured
  BY OrdersOfTokens DEF ArgvTyped
<1> QED BY <1>1, <1>2, <1>3, PTL DEF CommandSpec

=============================================================================
