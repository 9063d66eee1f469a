--------------------------- MODULE HeaderSyncProofs ---------------------------
(***************************************************************************)
(* First one HeaderChain.  Whatever the headers, the files found on disk   *)
(* and the calls made: the chain it holds is valid, and its running total  *)
(* is the work of exactly the headers it holds.  And as long as no write   *)
(* fails, the dirty flag tells the truth about the file, and no call or    *)
(* death leaves a file that open() refuses.                                *)
(*                                                                         *)
(* Then syncHeaders.  For any number of overlapping calls, any servers,    *)
(* any header tree and any batch size and reorg bound: the chain is sound  *)
(* at every await, and so is every snapshot a call may yet restore.  And   *)
(* one caller at a time implements AdoptedChain, never loses work and      *)
(* respects the pinned checkpoint; and its answers run out.                *)
(***************************************************************************)
EXTENDS HeaderSync, TLAPS, WellFoundedInduction

\* A header is judged by the chain below it: what lies above does not matter.
LEMMA ConsensusBelow ==
  ASSUME NEW s \in Seq(Header), NEW t \in Seq(Header), IsPrefixOf(s, t),
         NEW i \in 2..Len(s)
  PROVE  Consensus(s, i) <=> Consensus(t, i)
<1> USE HeaderTreeAssumption
<1>1. \A j \in 1..Len(s) : s[j] = t[j]
  BY DEF IsPrefixOf
<1>2. s[i] = t[i] /\ s[i - 1] = t[i - 1]
  BY <1>1
<1>3. Links(s, i) <=> Links(t, i)
  BY <1>2 DEF Links
<1>4. BitsAgree(s, i) <=> BitsAgree(t, i)
  <2>1. CASE i > RetargetInterval
    <3>0. i - RetargetInterval \in 1..Len(s)
      <4>1. RetargetInterval \in Nat \ {0} /\ Len(s) \in Nat /\ i \in 2..Len(s)
        BY HeaderTreeAssumption DEF HeaderTreeAssumption
      <4> HIDE HeaderTreeAssumption
      <4> QED BY <4>1, <2>1
    <3>1. s[i - RetargetInterval] = t[i - RetargetInterval]
      BY <1>1, <3>0
    <3>2. ExpectedBits(s, i) = ExpectedBits(t, i)
      BY <1>2, <3>1 DEF ExpectedBits
    <3> QED BY <1>2, <3>2 DEF BitsAgree
  <2>2. CASE NoRetarget \/ HeightOf(i) % RetargetInterval # 0
    BY <1>2, <2>2 DEF BitsAgree, ExpectedBits
  <2>3. CASE /\ ~(i > RetargetInterval)
             /\ ~NoRetarget /\ HeightOf(i) % RetargetInterval = 0
    BY <2>3 DEF BitsAgree
  <2> QED BY <2>1, <2>2, <2>3
<1>5. AfterMedian(s, i) <=> AfterMedian(t, i)
  <2>1. CASE i - 1 >= MtpWindow
    <3>0. MtpWindow \in Nat /\ i \in Int
      BY HeaderTreeAssumption DEF HeaderTreeAssumption
    <3>1. \A j \in (i - MtpWindow) .. (i - 1) : s[j] = t[j]
      <4> TAKE j \in (i - MtpWindow) .. (i - 1)
      <4>1. j \in 1..Len(s)
        BY <2>1, <3>0
      <4> QED BY <1>1, <4>1
    <3>2. [j \in (i - MtpWindow) .. (i - 1) |-> Time[s[j]]]
            = [j \in (i - MtpWindow) .. (i - 1) |-> Time[t[j]]]
      BY <3>1, Zenon
    <3>3. MedianTimePast(s, i) = MedianTimePast(t, i)
      BY <3>2 DEF MedianTimePast
    <3> QED BY <1>2, <3>3 DEF AfterMedian
  <2>2. CASE ~(i - 1 >= MtpWindow)
    BY <2>2 DEF AfterMedian
  <2> QED BY <2>1, <2>2
<1>6. CheckpointAgrees(s, i) <=> CheckpointAgrees(t, i)
  BY <1>2 DEF CheckpointAgrees
<1> QED BY <1>2, <1>3, <1>4, <1>5, <1>6 DEF Consensus

\* Dropping headers from the tip of a valid chain leaves a valid chain.
LEMMA ValidPrefix ==
  ASSUME NEW s \in Seq(Header), ValidChain(s), NEW k \in 1..Len(s)
  PROVE  /\ SubSeq(s, 1, k) \in Chains
         /\ ValidChain(SubSeq(s, 1, k))
         /\ Tip(SubSeq(s, 1, k)) = s[k]
<1> DEFINE p == SubSeq(s, 1, k)
<1>1. p \in Seq(Header) /\ Len(p) = k /\ \A j \in 1..k : p[j] = s[j]
  OBVIOUS
<1>2. IsPrefixOf(p, s)
  BY <1>1 DEF IsPrefixOf
<1>3. \A i \in 2..Len(p) : Consensus(p, i)
  <2> TAKE i \in 2..Len(p)
  <2>1. Consensus(s, i)
    BY <1>1 DEF ValidChain
  <2> QED BY <1>1, <1>2, <2>1, ConsensusBelow
<1>4. p # <<>> /\ p[1] = Base
  BY <1>1 DEF ValidChain
<1> HIDE DEF p
<1>5. ValidChain(p)
  BY <1>3, <1>4 DEF ValidChain
<1>6. p \in Chains /\ Tip(p) = s[k]
  BY <1>1, <1>4 DEF Chains, Tip
<1> QED BY <1>5, <1>6 DEF p

\* An accepted batch makes a longer valid chain and links to the old tip.
LEMMA ValidAppend ==
  ASSUME NEW s \in Seq(Header), ValidChain(s),
         NEW batch \in Seq(Header), batch # <<>>, NEW clock \in Nat,
         BatchVerdict(s, batch, clock) = "ok"
  PROVE  /\ s \o batch \in Chains
         /\ ValidChain(s \o batch)
         /\ Tip(s \o batch) = Tip(batch)
         /\ Tip(batch) \in Header /\ batch[1] \in Header
         /\ Parent[batch[1]] = Tip(s)
<1> DEFINE t == s \o batch
<1>1. /\ t \in Seq(Header) /\ Len(t) = Len(s) + Len(batch)
      /\ \A j \in 1..Len(s) : t[j] = s[j]
      /\ \A j \in 1..Len(batch) : t[Len(s) + j] = batch[j]
      /\ Len(s) \in Nat \ {0} /\ Len(batch) \in Nat \ {0}
  BY DEF ValidChain
<1>2. IsPrefixOf(s, t)
  BY <1>1 DEF IsPrefixOf
<1>3. \A i \in (Len(s) + 1)..Len(t) : Consensus(t, i)
  BY DEF BatchVerdict
<1> HIDE DEF t
<1>4. \A i \in 2..Len(t) : Consensus(t, i)
  <2> TAKE i \in 2..Len(t)
  <2>1. CASE i \in 2..Len(s)
    <3>1. Consensus(s, i)
      BY <2>1 DEF ValidChain
    <3> QED BY <1>1, <1>2, <2>1, <3>1, ConsensusBelow
  <2>2. CASE i \in (Len(s) + 1)..Len(t)
    BY <1>3, <2>2
  <2> QED BY <1>1, <2>1, <2>2
<1>5. t[1] = Base /\ t # <<>>
  BY <1>1 DEF ValidChain
<1>6. ValidChain(t)
  BY <1>4, <1>5 DEF ValidChain
<1>7. Tip(t) = Tip(batch) /\ Tip(batch) \in Header /\ batch[1] \in Header
  BY <1>1 DEF Tip
<1>8. Parent[batch[1]] = Tip(s)
  <2>1. Consensus(t, Len(s) + 1)
    BY <1>1, <1>3
  <2>2. t[Len(s) + 1] = batch[1] /\ t[Len(s)] = s[Len(s)]
    BY <1>1
  <2> QED BY <1>1, <2>1, <2>2 DEF Consensus, Links, Tip
<1> QED BY <1>1, <1>5, <1>6, <1>7, <1>8 DEF t, Chains

-----------------------------------------------------------------------------
(* What the methods do to the object.                                      *)

\* The base alone is a sound chain: the constructor's checks.
LEMMA BaseSound == BaseChain \in ChainState /\ Sound(BaseChain)
<1> USE HeaderTreeAssumption
<1>1. <<Base>> \in Chains /\ Len(<<Base>>) = 1 /\ <<Base>>[1] = Base
  BY DEF Chains
<1>2. ValidChain(<<Base>>)
  BY <1>1 DEF ValidChain
<1>3. Tip(<<Base>>) = Base
  BY <1>1 DEF Tip
<1>4. BaseChain \in ChainState
  BY <1>1 DEF BaseChain, ChainState
<1> QED BY <1>2, <1>3, <1>4 DEF BaseChain, Sound

\* The dirty flag is no part of soundness.
LEMMA FlagSound ==
  ASSUME NEW c \in ChainState, Sound(c)
  PROVE  /\ Saved(c) \in ChainState /\ Sound(Saved(c))
         /\ Unsaved(c) \in ChainState /\ Sound(Unsaved(c))
         /\ Saved(c).headers = c.headers /\ Unsaved(c).headers = c.headers
BY ChainAssumption DEF ChainState, Saved, Unsaved, Sound

\* appendBatch adds to the total the work of exactly the headers it adds.
LEMMA AppendSound ==
  ASSUME NEW c \in ChainState, Sound(c),
         NEW batch \in Seq(Header), NEW clock \in Nat,
         BatchVerdict(c.headers, batch, clock) = "ok"
  PROVE  AfterAppend(c, batch) \in ChainState /\ Sound(AfterAppend(c, batch))
<1>1. CASE batch = <<>>
  BY <1>1 DEF AfterAppend
<1>2. CASE batch # <<>>
  <2> DEFINE a == AfterAppend(c, batch)
  <2>1. c.headers \in Seq(Header) /\ c.work \in Int /\ c.dirty \in BOOLEAN
    BY DEF ChainState, Chains
  <2>2. ValidChain(c.headers) /\ c.work = CumWork[Tip(c.headers)]
    BY DEF Sound
  <2>3. /\ c.headers \o batch \in Chains
        /\ ValidChain(c.headers \o batch)
        /\ Tip(c.headers \o batch) = Tip(batch)
        /\ Tip(batch) \in Header /\ batch[1] \in Header
        /\ Parent[batch[1]] = Tip(c.headers)
    BY <1>2, <2>1, <2>2, ValidAppend
  <2>4. /\ a.headers = c.headers \o batch
        /\ a.work = c.work + (CumWork[Tip(batch)] - CumWork[Parent[batch[1]]])
        /\ a \in [headers : {a.headers}, work : {a.work}, dirty : {c.dirty}]
    BY <1>2 DEF AfterAppend, WorkOfRun, ChainState
  <2>5. CumWork[Tip(batch)] \in Int
    BY <2>3, HeaderTreeAssumption
  <2>6. a.work = CumWork[Tip(batch)] /\ a.work \in Int
    BY <2>1, <2>2, <2>3, <2>4, <2>5
  <2>7. a \in ChainState
    BY <2>1, <2>3, <2>4, <2>6 DEF ChainState
  <2> QED BY <2>3, <2>4, <2>6, <2>7 DEF Sound
<1> QED BY <1>1, <1>2

\* truncateTo takes from the total the work of exactly the headers it drops.
LEMMA RewoundSound ==
  ASSUME NEW c \in ChainState, Sound(c), NEW i \in 1..Len(c.headers)
  PROVE  /\ Rewound(c, HeightOf(i)) \in ChainState
         /\ Sound(Rewound(c, HeightOf(i)))
<1> DEFINE r == Rewound(c, HeightOf(i))
           s == c.headers
<1>1. s \in Seq(Header) /\ c.work \in Int /\ c.dirty \in BOOLEAN
  BY DEF ChainState, Chains
<1>2. ValidChain(s) /\ c.work = CumWork[Tip(s)]
  BY DEF Sound
<1>3. HeightOf(i) - BaseHeight + 1 = i
  BY HeaderTreeAssumption, <1>1 DEF HeightOf
<1>4. CASE i >= Len(s)
  BY <1>3, <1>4 DEF Rewound
<1>5. CASE i < Len(s)
  <2>1. /\ SubSeq(s, 1, i) \in Chains
        /\ ValidChain(SubSeq(s, 1, i))
        /\ Tip(SubSeq(s, 1, i)) = s[i]
    BY <1>1, <1>2, ValidPrefix
  <2>2. /\ r.headers = SubSeq(s, 1, i)
        /\ r.work = c.work - (CumWork[Tip(s)] - CumWork[Parent[s[i + 1]]])
        /\ r \in [headers : {r.headers}, work : {r.work}, dirty : {c.dirty}]
    <3>1. r = [c EXCEPT !.headers = SubSeq(@, 1, i),
                        !.work    = @ - WorkOfRun(c.headers[i + 1], Tip(c.headers))]
      <4>1. ~(HeightOf(i) - BaseHeight + 1 >= Len(c.headers))
        BY <1>1, <1>3, <1>5
      <4> QED BY <1>3, <4>1, Zenon DEF Rewound
    <3> HIDE DEF r
    <3> QED BY <3>1 DEF WorkOfRun, ChainState
  <2>3. Parent[s[i + 1]] = s[i]
    <3>1. Consensus(s, i + 1)
      BY <1>1, <1>2, <1>5 DEF ValidChain
    <3> QED BY <1>1, <3>1 DEF Consensus, Links
  <2>4. s[i] \in Header /\ Tip(s) \in Header
    BY <1>1, <1>5 DEF Tip
  <2>5. CumWork[s[i]] \in Int /\ CumWork[Tip(s)] \in Int
    BY <2>4, HeaderTreeAssumption
  <2>6. r.work = CumWork[s[i]] /\ r.work \in Int
    BY <1>1, <1>2, <2>2, <2>3, <2>5
  <2>7. r \in ChainState
    BY <1>1, <2>1, <2>2, <2>6 DEF ChainState
  <2> QED BY <2>1, <2>2, <2>6, <2>7 DEF Sound
<1> QED BY <1>1, <1>4, <1>5

\* A batch is a sequence of headers.
LEMMA BatchIsSeq == ASSUME NEW batch \in Batches PROVE batch \in Seq(Header)
BY MaxBatchAssumption DEF Batches

\* A write cut short leaves headers and at most a part of one.
LEMMA WrittenPartTypes ==
  ASSUME NEW before \in Seq(Header), NEW rest \in Seq(Header), NEW torn \in BOOLEAN
  PROVE  WrittenPart(before, rest, torn) \subseteq FileState
<1> SUFFICES ASSUME NEW f \in WrittenPart(before, rest, torn) PROVE f \in FileState
  OBVIOUS
<1>1. PICK k \in 0..(Len(rest) - 1), t \in {torn, TRUE} :
        f = [there |-> TRUE, hs |-> before \o SubSeq(rest, 1, k), torn |-> t]
  BY DEF WrittenPart
<1>2. before \o SubSeq(rest, 1, k) \in Seq(Header)
  OBVIOUS
<1> QED BY <1>1, <1>2 DEF FileState

\* A rewrite, whole or cut short.
LEMMA RewriteTypes ==
  ASSUME NEW c \in ChainState
  PROVE  /\ FileWith(c.headers) \in FileState
         /\ RewriteCuts(c.headers) \subseteq FileState
<1>1. c.headers \in Seq(Header) /\ <<>> \in Seq(Header)
  BY DEF ChainState, Chains
<1>2. FileWith(c.headers) \in FileState
  BY <1>1 DEF FileWith, FileState
<1> QED BY <1>1, <1>2, WrittenPartTypes DEF RewriteCuts

\* The write of a persisting append, whole or cut short.
LEMMA AppendTypes ==
  ASSUME file \in FileState, NEW c \in ChainState, NEW batch \in Seq(Header)
  PROVE  /\ AppendWrites(c, batch) \in FileState
         /\ AppendWriteCuts(c, batch) \subseteq FileState
<1>1. file.hs \in Seq(Header) /\ file.torn \in BOOLEAN
  BY DEF FileState
<1>2. file.hs \o batch \in Seq(Header)
  BY <1>1
<1>3. AppendWrites(c, batch) \in FileState
  BY <1>2, RewriteTypes DEF AppendWrites, FileState
<1> QED BY <1>1, <1>3, RewriteTypes, WrittenPartTypes DEF AppendWriteCuts, AppendCuts

-----------------------------------------------------------------------------
(* The invariant is inductive as it stands: each method keeps the pair of  *)
(* headers and total sound, given that it was.                             *)

ChainInv == ChainTypeOK /\ ChainSound

\* What open() loads has passed appendBatch.
LEMMA OpenKeepsInv ==
  ChainInv /\ (OpenFile \/ OpenNew \/ OpenRefused) => ChainInv'
<1> SUFFICES ASSUME ChainInv, OpenFile \/ OpenNew \/ OpenRefused
             PROVE  ChainInv'
  OBVIOUS
<1> USE DEF ChainInv, ChainTypeOK, ChainSound
<1>1. CASE OpenFile
  <2>1. /\ Tail(file.hs) \in Seq(Header)
        /\ BatchVerdict(BaseChain.headers, Tail(file.hs), now) = "ok"
    BY <1>1 DEF OpenFile, FileLoads, FileState, BaseChain
  <2>2. chain' \in ChainState /\ Sound(chain')
    BY <1>1, <2>1, BaseSound, AppendSound, FlagSound DEF OpenFile
  <2> QED BY <1>1, <2>2 DEF OpenFile
<1>2. CASE OpenNew
  <2>1. BaseChain.headers = <<Base>>
    BY DEF BaseChain
  <2>2. FileWith(<<Base>>) \in FileState /\ RewriteCuts(<<Base>>) \subseteq FileState
    BY <2>1, BaseSound, RewriteTypes
  <2>3. chain' \in {chain, BaseChain} /\ file' \in FileState
        /\ up' \in BOOLEAN /\ now' = now
    BY <1>2, <2>2 DEF OpenNew, WriteThrows, WriteCutShort, Dies
  <2> QED BY <2>3, BaseSound
<1>3. CASE OpenRefused
  BY <1>3 DEF OpenRefused, chainVars
<1> QED BY <1>1, <1>2, <1>3

\* appendBatch, persisting or not, whole or cut short.
LEMMA AppendBatchKeepsInv ==
  ASSUME ChainInv, NEW batch \in Batches, NEW persist \in BOOLEAN,
         AppendBatch(batch, persist)
  PROVE  ChainInv'
<1> DEFINE c == AfterAppend(chain, batch)
<1> USE DEF ChainInv, ChainTypeOK, ChainSound
<1>1. batch \in Seq(Header)
  BY BatchIsSeq
<1>2. c \in ChainState /\ Sound(c)
  BY <1>1, AppendSound DEF AppendBatch
<1>3. /\ AppendWrites(c, batch) \in FileState
      /\ AppendWriteCuts(c, batch) \subseteq FileState
  BY <1>1, <1>2, AppendTypes
<1> HIDE DEF c
<1>4. /\ chain' \in {Saved(c), Unsaved(c), c, BaseChain}
      /\ file' \in FileState /\ up' \in BOOLEAN /\ now' = now
  BY <1>3 DEF AppendBatch, WriteThrows, WriteCutShort, Dies, c
<1> QED BY <1>2, <1>4, FlagSound, BaseSound

\* truncateTo, persisting or not, whole or cut short.
LEMMA TruncateToKeepsInv ==
  ASSUME ChainInv, NEW i \in DOMAIN chain.headers, NEW persist \in BOOLEAN,
         TruncateTo(HeightOf(i), persist)
  PROVE  ChainInv'
<1> DEFINE c == Rewound(chain, HeightOf(i))
<1> USE DEF ChainInv, ChainTypeOK, ChainSound
<1>1. i \in 1..Len(chain.headers)
  BY DEF ChainState, Chains
<1>2. c \in ChainState /\ Sound(c)
  BY <1>1, RewoundSound
<1>3. FileWith(c.headers) \in FileState /\ RewriteCuts(c.headers) \subseteq FileState
  <2> HIDE DEF c
  <2> QED BY <1>2, RewriteTypes
<1> HIDE DEF c
<1>4. /\ chain' \in {Saved(c), Unsaved(c), c, BaseChain}
      /\ file' \in FileState /\ up' \in BOOLEAN /\ now' = now
  BY <1>3 DEF TruncateTo, WriteThrows, WriteCutShort, Dies, c
<1> QED BY <1>2, <1>4, FlagSound, BaseSound

\* flush changes the flag and the file only.
LEMMA FlushKeepsInv == ChainInv /\ Flush => ChainInv'
<1> SUFFICES ASSUME ChainInv, Flush PROVE ChainInv'
  OBVIOUS
<1> USE DEF ChainInv, ChainTypeOK, ChainSound
<1>1. FileWith(chain.headers) \in FileState /\ RewriteCuts(chain.headers) \subseteq FileState
  BY RewriteTypes
<1>2. /\ chain' \in {Saved(chain), chain, BaseChain}
      /\ file' \in FileState /\ up' \in BOOLEAN /\ now' = now
  BY <1>1 DEF Flush, WriteThrows, WriteCutShort, Dies
<1> QED BY <1>2, FlagSound, BaseSound

\* The death of the process and the clock.
LEMMA CrashTickKeepInv == ChainInv /\ (Crash \/ Tick) => ChainInv'
<1> SUFFICES ASSUME ChainInv, Crash \/ Tick PROVE ChainInv'
  OBVIOUS
<1> USE DEF ChainInv, ChainTypeOK, ChainSound
<1>1. chain' \in {chain, BaseChain} /\ file' = file
  BY DEF Crash, Dies, Tick
<1>2. up' \in BOOLEAN
  BY DEF Crash, Dies, Tick
<1>3. now' \in Nat
  BY DEF Crash, Tick
<1> QED BY <1>1, <1>2, <1>3, BaseSound

\* The chain is sound whatever the order of the calls and wherever one dies.
THEOREM ChainInvariant == ChainSpec => []ChainInv
<1>1. ChainInit => ChainInv
  BY BaseSound, ChainAssumption, InitialFilesAssumption
     DEF ChainInit, ChainInv, ChainTypeOK, ChainSound
<1>2. ChainInv /\ [ChainNext]_chainVars => ChainInv'
  <2> SUFFICES ASSUME ChainInv, [ChainNext]_chainVars PROVE ChainInv'
    OBVIOUS
  <2>1. CASE OpenFile \/ OpenNew \/ OpenRefused
    BY <2>1, OpenKeepsInv
  <2>2. CASE \E batch \in Batches, persist \in BOOLEAN : AppendBatch(batch, persist)
    BY <2>2, AppendBatchKeepsInv
  <2>3. CASE \E i \in DOMAIN chain.headers, persist \in BOOLEAN :
               TruncateTo(HeightOf(i), persist)
    BY <2>3, TruncateToKeepsInv
  <2>4. CASE Flush
    BY <2>4, FlushKeepsInv
  <2>5. CASE Crash \/ Tick
    BY <2>5, CrashTickKeepInv
  <2>6. CASE UNCHANGED chainVars
    BY <2>6 DEF chainVars, ChainInv, ChainTypeOK, ChainSound
  <2> QED BY <2>1, <2>2, <2>3, <2>4, <2>5, <2>6 DEF ChainNext
<1> QED BY <1>1, <1>2, PTL DEF ChainSpec

\* The types of the variables hold in every reachable state.
THEOREM ChainTypeCorrect == ChainSpec => []ChainTypeOK
<1>1. ChainInv => ChainTypeOK
  BY DEF ChainInv
<1> QED BY <1>1, ChainInvariant, PTL

\* Every chain held was accepted header by header, with the work it reports.
THEOREM ChainAlwaysSound == ChainSpec => []ChainSound
<1>1. ChainInv => ChainSound
  BY DEF ChainInv
<1> QED BY <1>1, ChainInvariant, PTL

-----------------------------------------------------------------------------
(* As long as the file system reports no error - the process may die in    *)
(* the middle of any write - the dirty flag tells the truth about the file *)
(* and a file that loads is never turned into one that ends at a header    *)
(* boundary and does not.                                                  *)
(*                                                                         *)
(* The invariant the two lack is that the chain in memory would load if it *)
(* were written now: besides being valid, none of its headers is ahead of  *)
(* the clock, which only moves on.  What a write leaves is the chain, a    *)
(* prefix of it, or torn.                                                  *)


\* The headers of a file that open() accepts.
Loadable(s, clock) ==
  /\ s \in Seq(Header) /\ ValidChain(s)
  /\ \A i \in 2 .. Len(s) : Time[s[i]] <= clock + FutureDrift

\* FileLoads, at any clock.
LoadsAt(f, clock) ==
  /\ f.there /\ ~f.torn
  /\ f.hs # <<>>
  /\ f.hs[1] = Base
  /\ BatchVerdict(<<Base>>, Tail(f.hs), clock) = "ok"

\* A write that loads, is torn, or has no whole header.
Sane(f, clock) == f.hs # <<>> /\ ~f.torn => f.there /\ Loadable(f.hs, clock)

FileInv == Loadable(chain.headers, now) /\ DirtyTracksFile

-----------------------------------------------------------------------------

LEMMA LoadsMeansLoadable ==
  ASSUME NEW f \in FileState, NEW clock \in Nat
  PROVE  LoadsAt(f, clock) <=> f.there /\ ~f.torn /\ Loadable(f.hs, clock)
<1> DEFINE s == f.hs
<1> USE HeaderTreeAssumption
<1>1. s \in Seq(Header)
  BY DEF FileState
<1>2. CASE s # <<>> /\ s[1] = Base
  <2>1. <<Base>> \o Tail(s) = s /\ Len(<<Base>>) = 1
    BY <1>1, <1>2
  <2>2. Loadable(s, clock) <=>
          \A i \in 2 .. Len(s) : Consensus(s, i) /\ Time[s[i]] <= clock + FutureDrift
    BY <1>1, <1>2 DEF Loadable, ValidChain
  <2>3. BatchVerdict(<<Base>>, Tail(s), clock) = "ok" <=>
          \A i \in 2 .. Len(s) : Consensus(s, i) /\ Time[s[i]] <= clock + FutureDrift
    <3> DEFINE t == <<Base>> \o Tail(s)
               taken(u, first) == \A i \in first .. Len(u) :
                                    Consensus(u, i) /\ Time[u[i]] <= clock + FutureDrift
    <3>1. BatchVerdict(<<Base>>, Tail(s), clock) = "ok" <=> taken(t, Len(<<Base>>) + 1)
      BY DEF BatchVerdict
    <3>2. t = s /\ Len(<<Base>>) + 1 = 2
      BY <2>1
    <3> HIDE DEF t, taken
    <3>3. taken(t, Len(<<Base>>) + 1) <=> taken(s, 2)
      BY <3>2
    <3> QED BY <3>1, <3>3 DEF taken
  <2> QED BY <1>2, <2>2, <2>3 DEF LoadsAt
<1>3. CASE ~(s # <<>> /\ s[1] = Base)
  BY <1>3 DEF LoadsAt, Loadable, ValidChain
<1> QED BY <1>2, <1>3

LEMMA LoadablePrefix ==
  ASSUME NEW s, NEW clock \in Nat, Loadable(s, clock), NEW k \in 1 .. Len(s)
  PROVE  Loadable(SubSeq(s, 1, k), clock)
<1>1. s \in Seq(Header) /\ ValidChain(s)
  BY DEF Loadable
<1>2. SubSeq(s, 1, k) \in Seq(Header) /\ ValidChain(SubSeq(s, 1, k))
  BY <1>1, ValidPrefix DEF Chains
<1>3. Len(SubSeq(s, 1, k)) = k /\ \A i \in 1 .. k : SubSeq(s, 1, k)[i] = s[i]
  BY <1>1
<1>4. \A i \in 2 .. k : Time[SubSeq(s, 1, k)[i]] <= clock + FutureDrift
  <2> TAKE i \in 2 .. k
  <2>1. i \in 2 .. Len(s) /\ i \in 1 .. k
    BY <1>1
  <2> QED BY <2>1, <1>3 DEF Loadable
<1> QED BY <1>2, <1>3, <1>4 DEF Loadable

LEMMA LoadableAppend ==
  ASSUME NEW s, NEW clock \in Nat, Loadable(s, clock), NEW batch \in Seq(Header),
         batch # <<>>, BatchVerdict(s, batch, clock) = "ok"
  PROVE  Loadable(s \o batch, clock)
<1>1. s \in Seq(Header) /\ ValidChain(s)
  BY DEF Loadable
<1>2. s \o batch \in Seq(Header) /\ ValidChain(s \o batch)
  BY <1>1, ValidAppend DEF Chains
<1>3. \A i \in 2 .. Len(s \o batch) : Time[(s \o batch)[i]] <= clock + FutureDrift
  <2> TAKE i \in 2 .. Len(s \o batch)
  <2>1. CASE i <= Len(s)
    <3>1. (s \o batch)[i] = s[i] /\ i \in 2 .. Len(s)
      BY <1>1, <2>1
    <3> QED BY <3>1 DEF Loadable
  <2>2. CASE i > Len(s)
    <3>1. i \in (Len(s) + 1) .. Len(s \o batch)
      BY <1>1, <2>2
    <3> QED BY <3>1 DEF BatchVerdict
  <2> QED BY <1>1, <2>1, <2>2
<1> QED BY <1>2, <1>3 DEF Loadable

LEMMA LoadableLater ==
  ASSUME NEW s, NEW clock \in Nat, NEW later \in Nat, later >= clock, Loadable(s, clock)
  PROVE  Loadable(s, later)
<1>1. \A i \in 2 .. Len(s) : Time[s[i]] <= later + FutureDrift
  <2> TAKE i \in 2 .. Len(s)
  <2>1. Time[s[i]] \in Nat /\ FutureDrift \in Nat
    BY HeaderTreeAssumption DEF Loadable, HeaderTreeAssumption
  <2>2. Time[s[i]] <= clock + FutureDrift
    BY DEF Loadable
  <2> QED BY <2>1, <2>2
<1> QED BY <1>1 DEF Loadable

LEMMA BaseLoadable ==
  ASSUME NEW clock \in Nat
  PROVE  Loadable(BaseChain.headers, clock)
<1>1. ValidChain(BaseChain.headers) /\ BaseChain.headers = <<Base>>
  BY BaseSound DEF Sound, BaseChain
<1> QED BY <1>1, HeaderTreeAssumption DEF Loadable

-----------------------------------------------------------------------------
(* What the writes leave.                                                  *)

LEMMA WholeIsSane ==
  ASSUME NEW s, NEW clock, Loadable(s, clock)
  PROVE  Sane(FileWith(s), clock)
BY DEF Sane, FileWith

LEMMA RewriteCutIsSane ==
  ASSUME NEW s, NEW clock \in Nat, Loadable(s, clock), NEW f \in RewriteCuts(s)
  PROVE  Sane(f, clock)
<1>1. s \in Seq(Header)
  BY DEF Loadable
<1>2. PICK k \in 0 .. (Len(s) - 1), t \in {FALSE, TRUE} :
        f = [there |-> TRUE, hs |-> <<>> \o SubSeq(s, 1, k), torn |-> t]
  BY DEF RewriteCuts, WrittenPart
<1>3. f.there /\ f.hs = SubSeq(s, 1, k)
  BY <1>1, <1>2
<1>4. CASE k = 0
  BY <1>1, <1>3, <1>4 DEF Sane
<1>5. CASE k # 0
  <2>1. k \in 1 .. Len(s)
    BY <1>1, <1>5
  <2> QED BY <2>1, <1>3, LoadablePrefix DEF Sane
<1> QED BY <1>4, <1>5

\* A clean chain's file holds the chain: a part of the batch makes a part of the next.
LEMMA AppendCutIsSane ==
  ASSUME NEW s \in Chains, NEW batch \in Seq(Header), NEW clock \in Nat,
         file = FileWith(s), Loadable(s \o batch, clock), NEW f \in AppendCuts(batch)
  PROVE  Sane(f, clock)
<1>1. s \in Seq(Header) /\ Len(s) \in Nat \ {0}
  BY DEF Chains
<1>2. file.hs = s /\ file.torn = FALSE
  BY DEF FileWith
<1>3. PICK k \in 0 .. (Len(batch) - 1), t \in {FALSE, TRUE} :
        f = [there |-> TRUE, hs |-> s \o SubSeq(batch, 1, k), torn |-> t]
  BY <1>2 DEF AppendCuts, WrittenPart
<1>4. /\ s \o SubSeq(batch, 1, k) = SubSeq(s \o batch, 1, Len(s) + k)
      /\ Len(s) + k \in 1 .. Len(s \o batch)
  BY <1>1
<1>5. Loadable(SubSeq(s \o batch, 1, Len(s) + k), clock)
  BY <1>4, LoadablePrefix
<1> QED BY <1>3, <1>4, <1>5 DEF Sane

-----------------------------------------------------------------------------
(* The actions, without errors of the file system.                         *)

NoDiskErrors == "ioerror" \notin Faults

\* The chain that is left by the death of a process, and a clean one of its file.
LEMMA DeadIsFine ==
  ASSUME ChainInv, now' = now, Dies
  PROVE  FileInv'
<1>1. Loadable(chain'.headers, now)
  BY BaseLoadable DEF Dies, ChainInv, ChainTypeOK
<1> QED BY <1>1 DEF Dies, FileInv, DirtyTracksFile

LEMMA OpenedFile ==
  ASSUME NoDiskErrors, ChainInv, FileInv, OpenFile \/ OpenNew
  PROVE  FileInv' /\ (file' = file \/ Sane(file', now')) /\ now' = now
<1> USE DEF ChainInv, ChainTypeOK
<1>1. CASE OpenFile
  <2> DEFINE s == file.hs
  <2>1. LoadsAt(file, now) /\ file' = file /\ now' = now
    BY <1>1 DEF OpenFile, FileLoads, LoadsAt
  <2>2. file.there /\ ~file.torn /\ Loadable(s, now)
    BY <2>1, LoadsMeansLoadable
  <2>3. s \in Seq(Header) /\ s # <<>> /\ s[1] = Base
    BY <2>2 DEF Loadable, ValidChain
  <2>4. chain' = Saved(AfterAppend(BaseChain, Tail(s)))
    BY <1>1 DEF OpenFile
  <2>5. AfterAppend(BaseChain, Tail(s)).headers = s
    <3>1. <<Base>> \o Tail(s) = s
      BY <2>3
    <3>2. CASE Tail(s) = <<>>
      <4>1. s = <<Base>>
        <5>1. <<Base>> \o <<>> = <<Base>>
          BY HeaderTreeAssumption
        <5> QED BY <3>1, <3>2, <5>1
      <4> QED BY <3>2, <4>1 DEF AfterAppend, BaseChain
    <3>3. CASE Tail(s) # <<>>
      BY <3>1, <3>3 DEF AfterAppend, BaseChain
    <3> QED BY <3>2, <3>3
  <2>6. AfterAppend(BaseChain, Tail(s)) \in ChainState
    <3>1. /\ Tail(s) \in Seq(Header)
          /\ BatchVerdict(BaseChain.headers, Tail(s), now) = "ok"
      BY <2>1, <2>3 DEF LoadsAt, BaseChain
    <3> QED BY <3>1, BaseSound, AppendSound
  <2>7. chain'.headers = s
    BY <2>4, <2>5, <2>6 DEF Saved, ChainState
  <2>8. file = FileWith(s)
    BY <2>2 DEF FileState, FileWith
  <2> QED BY <2>1, <2>2, <2>7, <2>8 DEF FileInv, DirtyTracksFile
<1>2. CASE OpenNew
  <2>1. BaseChain.headers = <<Base>> /\ Loadable(<<Base>>, now)
    BY BaseLoadable DEF BaseChain
  <2>2. now' = now
    BY <1>2 DEF OpenNew
  <2>3. CASE /\ up' = TRUE
             /\ chain' = BaseChain
             /\ file' = IF HasFile THEN FileWith(<<Base>>) ELSE file
    BY <2>1, <2>2, <2>3, WholeIsSane DEF FileInv, DirtyTracksFile
  <2>4. CASE WriteCutShort(RewriteCuts(<<Base>>))
    BY <2>1, <2>2, <2>4, DeadIsFine, RewriteCutIsSane DEF WriteCutShort
  <2> QED BY <1>2, <2>3, <2>4 DEF OpenNew, WriteThrows, NoDiskErrors
<1> QED BY <1>1, <1>2

LEMMA AppendedFile ==
  ASSUME NoDiskErrors, ChainInv, FileInv, NEW batch \in Batches, NEW persist \in BOOLEAN,
         AppendBatch(batch, persist)
  PROVE  FileInv' /\ (file' = file \/ Sane(file', now')) /\ now' = now
<1> DEFINE c == AfterAppend(chain, batch)
<1>1. /\ batch \in Seq(Header) /\ batch # <<>> /\ now \in Nat /\ up /\ now' = now
      /\ chain \in ChainState /\ file \in FileState
      /\ BatchVerdict(chain.headers, batch, now) = "ok"
  BY BatchIsSeq DEF AppendBatch, ChainInv, ChainTypeOK
<1>2. c \in ChainState
  BY <1>1, AppendSound DEF ChainInv, ChainSound
<1>3. c.headers = chain.headers \o batch /\ c.dirty = chain.dirty
  BY <1>1 DEF AfterAppend, ChainState
<1>4. Loadable(c.headers, now)
  BY <1>1, <1>3, LoadableAppend DEF FileInv
<1> HIDE DEF c
<1>5. Saved(c).headers = c.headers /\ Unsaved(c).headers = c.headers /\ Unsaved(c).dirty = HasFile
  BY <1>2 DEF Saved, Unsaved, ChainState
<1>6. ASSUME HasFile
      PROVE  /\ AppendWrites(c, batch) = FileWith(c.headers)
             /\ \A f \in AppendWriteCuts(c, batch) : Sane(f, now)
  <2>1. CASE c.dirty
    BY <2>1, <1>1, <1>4, RewriteCutIsSane DEF AppendWrites, AppendWriteCuts
  <2>2. CASE ~c.dirty
    <3>1. file = FileWith(chain.headers)
      BY <1>1, <1>3, <1>6, <2>2 DEF FileInv, DirtyTracksFile
    <3>2. AppendWrites(c, batch) = [file EXCEPT !.there = TRUE, !.hs = file.hs \o batch]
      BY <2>2 DEF AppendWrites
    <3>3. AppendWrites(c, batch) = FileWith(c.headers)
      BY <3>1, <3>2, <1>3 DEF FileWith
    <3>4. chain.headers \in Chains
      BY <1>1 DEF ChainState
    <3>5. \A f \in AppendCuts(batch) : Sane(f, now)
      BY <3>1, <3>4, <1>1, <1>3, <1>4, AppendCutIsSane
    <3> QED BY <2>2, <3>3, <3>5 DEF AppendWriteCuts
  <2> QED BY <2>1, <2>2
<1>7. CASE ~persist /\ chain' = Unsaved(c) /\ UNCHANGED <<file, up>>
  BY <1>1, <1>4, <1>5, <1>7 DEF FileInv, DirtyTracksFile
<1>8. CASE /\ chain' = Saved(c)
           /\ file' = IF HasFile THEN AppendWrites(c, batch) ELSE file
  BY <1>1, <1>4, <1>5, <1>6, <1>8, WholeIsSane DEF FileInv, DirtyTracksFile
<1>9. CASE HasFile /\ WriteCutShort(AppendWriteCuts(c, batch))
  BY <1>1, <1>6, <1>9, DeadIsFine DEF WriteCutShort
<1> QED BY <1>7, <1>8, <1>9 DEF AppendBatch, WriteThrows, NoDiskErrors, c

LEMMA TruncatedFile ==
  ASSUME NoDiskErrors, ChainInv, FileInv, NEW i \in DOMAIN chain.headers,
         NEW persist \in BOOLEAN, TruncateTo(HeightOf(i), persist)
  PROVE  FileInv' /\ (file' = file \/ Sane(file', now')) /\ now' = now
<1> DEFINE c == Rewound(chain, HeightOf(i))
<1>1. /\ i \in 1 .. Len(chain.headers) /\ now \in Nat /\ now' = now
      /\ chain \in ChainState /\ chain.headers \in Seq(Header)
  BY DEF TruncateTo, ChainInv, ChainTypeOK, ChainState, Chains
<1>2. c \in ChainState
  BY <1>1, RewoundSound DEF ChainInv, ChainSound
<1>3. c.headers = SubSeq(chain.headers, 1, i)
  <2>1. HeightOf(i) - BaseHeight + 1 = i
    BY HeaderTreeAssumption, <1>1 DEF HeightOf, HeaderTreeAssumption
  <2>2. CASE i >= Len(chain.headers)
    BY <1>1, <2>1, <2>2 DEF Rewound
  <2>3. CASE ~(i >= Len(chain.headers))
    BY <1>1, <2>1, <2>3 DEF Rewound, ChainState
  <2> QED BY <2>2, <2>3
<1>4. Loadable(c.headers, now)
  BY <1>1, <1>3, LoadablePrefix DEF FileInv
<1> HIDE DEF c
<1>5. Saved(c).headers = c.headers /\ Unsaved(c).headers = c.headers /\ Unsaved(c).dirty = HasFile
  BY <1>2 DEF Saved, Unsaved, ChainState
<1>6. CASE chain' = Unsaved(c) /\ UNCHANGED <<file, up>>
  BY <1>1, <1>4, <1>5, <1>6 DEF FileInv, DirtyTracksFile
<1>7. CASE /\ chain' = Saved(c)
           /\ file' = IF HasFile THEN FileWith(c.headers) ELSE file
  BY <1>1, <1>4, <1>5, <1>7, WholeIsSane DEF FileInv, DirtyTracksFile
<1>8. CASE WriteCutShort(RewriteCuts(c.headers))
  BY <1>1, <1>4, <1>8, DeadIsFine, RewriteCutIsSane DEF WriteCutShort
<1> QED BY <1>6, <1>7, <1>8 DEF TruncateTo, WriteThrows, NoDiskErrors, c

LEMMA OtherwiseFile ==
  ASSUME NoDiskErrors, ChainInv, FileInv,
         OpenRefused \/ Flush \/ Crash \/ Tick \/ UNCHANGED chainVars
  PROVE  FileInv' /\ (file' = file \/ Sane(file', now')) /\ now' \in {now, now + 1}
<1> USE DEF ChainInv, ChainTypeOK
<1>1. CASE OpenRefused \/ UNCHANGED chainVars
  BY <1>1 DEF OpenRefused, chainVars, FileInv, DirtyTracksFile
<1>2. CASE Flush
  <2>1. Saved(chain).headers = chain.headers /\ now' = now
    BY <1>2 DEF Flush, Saved, ChainState
  <2>2. CASE file' = FileWith(chain.headers) /\ chain' = Saved(chain)
    BY <2>1, <2>2, WholeIsSane DEF FileInv, DirtyTracksFile
  <2>3. CASE WriteCutShort(RewriteCuts(chain.headers))
    BY <2>1, <2>3, DeadIsFine, RewriteCutIsSane DEF WriteCutShort, FileInv
  <2> QED BY <1>2, <2>2, <2>3 DEF Flush, WriteThrows, NoDiskErrors
<1>3. CASE Crash
  BY <1>3, DeadIsFine DEF Crash
<1>4. CASE Tick
  <2>1. now + 1 \in Nat /\ now + 1 >= now
    OBVIOUS
  <2>2. Loadable(chain.headers, now + 1)
    BY <2>1, LoadableLater DEF FileInv
  <2> QED BY <1>4, <2>2 DEF Tick, FileInv, DirtyTracksFile
<1> QED BY <1>1, <1>2, <1>3, <1>4

LEMMA InitialFileInv == ChainInit => FileInv
<1> SUFFICES ASSUME ChainInit PROVE FileInv
  OBVIOUS
<1>1. now \in Nat
  BY ChainAssumption DEF ChainInit, ChainAssumption
<1> QED BY <1>1, BaseLoadable DEF ChainInit, FileInv, DirtyTracksFile

LEMMA StepKeepsFile ==
  ASSUME NoDiskErrors, ChainInv, FileInv, [ChainNext]_chainVars
  PROVE  FileInv' /\ (file' = file \/ Sane(file', now')) /\ now' \in {now, now + 1}
<1>1. CASE OpenFile \/ OpenNew
  BY <1>1, OpenedFile
<1>2. CASE \E batch \in Batches, persist \in BOOLEAN : AppendBatch(batch, persist)
  BY <1>2, AppendedFile
<1>3. CASE \E i \in DOMAIN chain.headers, persist \in BOOLEAN : TruncateTo(HeightOf(i), persist)
  BY <1>3, TruncatedFile
<1>4. CASE OpenRefused \/ Flush \/ Crash \/ Tick \/ UNCHANGED chainVars
  BY <1>4, OtherwiseFile
<1> QED BY <1>1, <1>2, <1>3, <1>4 DEF ChainNext

(***************************************************************************)
(* dirty is true to its comment: whatever the calls, and wherever the      *)
(* process dies, a clean chain is the one in its file - unless the file    *)
(* system reports an error, when appendBatch leaves it wrong.              *)
(***************************************************************************)
THEOREM DirtyAlwaysTracksFile ==
  ASSUME NoDiskErrors
  PROVE  ChainSpec => []DirtyTracksFile
<1>1. ChainInit => FileInv
  BY InitialFileInv
<1>2. ChainInv /\ FileInv /\ [ChainNext]_chainVars => FileInv'
  BY StepKeepsFile
<1>3. FileInv => DirtyTracksFile
  BY DEF FileInv
<1> QED BY <1>1, <1>2, <1>3, ChainInvariant, PTL DEF ChainSpec

(***************************************************************************)
(* A file that open() accepts is one it accepts ever after, or is torn, or *)
(* has no whole header: no call, and no death in the middle of a write,    *)
(* makes it look whole and be refused.                                     *)
(***************************************************************************)
THEOREM NeverMadeUnloadable ==
  ASSUME NoDiskErrors
  PROVE  ChainSpec => NeverUnloadable
<1>1. ChainInit => FileInv
  BY InitialFileInv
<1>2. ChainInv /\ FileInv /\ [ChainNext]_chainVars => FileInv'
  BY StepKeepsFile
<1>3. ChainInv /\ ChainInv' /\ FileInv /\ [ChainNext]_chainVars =>
        [FileLoads(file) /\ file'.hs # <<>> /\ ~file'.torn => FileLoads(file)']_chainVars
  <2> SUFFICES ASSUME ChainInv, ChainInv', FileInv, [ChainNext]_chainVars,
                      FileLoads(file), file'.hs # <<>>, ~file'.torn
               PROVE  FileLoads(file)'
    OBVIOUS
  <2>1. /\ file \in FileState /\ file' \in FileState
        /\ now \in Nat /\ now' \in Nat
    BY DEF ChainInv, ChainTypeOK
  <2>2. /\ FileLoads(file) <=> LoadsAt(file, now)
        /\ FileLoads(file)' <=> LoadsAt(file', now')
    BY DEF FileLoads, LoadsAt
  <2>3. file.there /\ Loadable(file.hs, now)
    BY <2>1, <2>2, LoadsMeansLoadable
  <2>4. now' >= now /\ (file' = file \/ Sane(file', now'))
    BY <2>1, StepKeepsFile
  <2>5. file'.there /\ Loadable(file'.hs, now')
    BY <2>1, <2>3, <2>4, LoadableLater DEF Sane
  <2> QED BY <2>1, <2>2, <2>5, LoadsMeansLoadable
<1> QED BY <1>1, <1>2, <1>3, ChainInvariant, PTL DEF ChainSpec, NeverUnloadable

-----------------------------------------------------------------------------
(* syncHeaders.                                                            *)

\* The part of the invariant about the calls in progress.
CallsOK ==
  /\ sync \in [Syncers -> SyncState]
  /\ begun \in [Syncers -> Chains]
  /\ \A s \in Syncers : Sound(sync[s].preFork)

SyncInv == ChainInv /\ CallsOK

-----------------------------------------------------------------------------
(* How a call's local variables change.                                    *)

\* A call that is over holds no snapshot: preFork is the base again.
LEMMA IdleOK ==
  ASSUME NEW result \in {"none", "ok", "failed"}
  PROVE  /\ Idle(result) \in SyncState /\ Sound(Idle(result).preFork)
         /\ <<Base>> \in Chains
<1>1. BaseChain \in ChainState /\ Sound(BaseChain)
  BY BaseSound
<1>2. Idle(result) \in SyncState /\ Idle(result).preFork = BaseChain
  BY <1>1 DEF Idle, SyncState
<1>3. BaseChain.headers = <<Base>> /\ BaseChain.headers \in Chains
  BY <1>1 DEF BaseChain, ChainState
<1> QED BY <1>1, <1>2, <1>3

\* One call's new variables are as good as the snapshot in them.
LEMMA GoesOnOK ==
  ASSUME CallsOK, NEW s \in Syncers, NEW r \in SyncState, Sound(r.preFork),
         SyncGoesOn(s, r)
  PROVE  CallsOK'
BY DEF CallsOK, SyncGoesOn

LEMMA ReturnsOK ==
  ASSUME CallsOK, NEW s \in Syncers, NEW result \in {"none", "ok", "failed"},
         SyncReturns(s, result)
  PROVE  CallsOK'
<1>1. Idle(result) \in SyncState /\ Sound(Idle(result).preFork) /\ <<Base>> \in Chains
  BY IdleOK
<1> QED BY <1>1 DEF CallsOK, SyncReturns

LEMMA AllStopOK == ASSUME CallsOK, AllStop PROVE CallsOK'
<1>1. /\ Idle("none") \in SyncState /\ Sound(Idle("none").preFork)
      /\ <<Base>> \in Chains
  BY IdleOK
<1> QED BY <1>1 DEF CallsOK, AllStop

\* catch: what is restored is the snapshot, which is sound.
LEMMA ThrowsOK ==
  ASSUME CallsOK, NEW s \in Syncers, NEW c \in ChainState, Sound(c),
         SyncThrows(s, c)
  PROVE  CallsOK' /\ chain' \in ChainState /\ Sound(chain')
<1>1. sync[s].preFork \in ChainState /\ Sound(sync[s].preFork)
  BY DEF CallsOK, SyncState
<1>2. chain' \in {sync[s].preFork, c}
  BY DEF SyncThrows
<1>3. CallsOK'
  BY ReturnsOK DEF SyncThrows
<1> QED BY <1>1, <1>2, <1>3

\* A request does not touch the snapshot.
LEMMA RequestOK ==
  ASSUME NEW r \in SyncState, NEW c \in ChainState
  PROVE  Request(r, c) \in SyncState /\ Request(r, c).preFork = r.preFork
<1> DEFINE count == IF r.serverTip - TipHeight(c.headers) < BatchSize
                    THEN r.serverTip - TipHeight(c.headers) ELSE BatchSize
<1>1. TipHeight(c.headers) \in Int
  BY HeaderTreeAssumption DEF ChainState, Chains, TipHeight, HeightOf
<1>2. count \in Int
  BY <1>1, SyncAssumption DEF SyncState
<1> DEFINE cp == Pinned # <<>> /\ TipHeight(c.headers) + count <= TipHeight(Pinned)
<1>3. cp \in BOOLEAN
  OBVIOUS
<1>4. Request(r, c) = [r EXCEPT !.pc = "batch", !.count = count, !.useCp = cp]
  BY DEF Request
<1> HIDE DEF count, cp
<1> QED BY <1>2, <1>3, <1>4 DEF SyncState

-----------------------------------------------------------------------------
(* What follows a handled answer.                                          *)

LEMMA LoopKeeps ==
  ASSUME ChainInv, CallsOK, NEW s \in Syncers,
         NEW r \in SyncState, Sound(r.preFork),
         NEW c \in ChainState, Sound(c), NEW f \in FileState,
         LoopOrEnd(s, r, c, f), UNCHANGED now
  PROVE  SyncInv'
<1> USE DEF SyncInv, ChainInv, ChainTypeOK, ChainSound
<1>1. CASE RequestMore(s, r, c, f)
  <2>1. CallsOK'
    BY <1>1, RequestOK, GoesOnOK DEF RequestMore
  <2> QED BY <1>1, <2>1 DEF RequestMore
<1>2. CASE ReturnUnforked(s, r, c, f)
  <2>1. CallsOK'
    BY <1>2, ReturnsOK DEF ReturnUnforked
  <2> QED BY <1>2, <2>1 DEF ReturnUnforked
<1>3. CASE AdoptFork(s, r, c, f)
  <2>1. CallsOK'
    BY <1>3, ReturnsOK, AllStopOK DEF AdoptFork
  <2>2. FileWith(c.headers) \in FileState /\ RewriteCuts(c.headers) \subseteq FileState
    BY RewriteTypes
  <2>3. /\ chain' \in {Saved(c), c, BaseChain} /\ file' \in FileState
        /\ up' \in BOOLEAN
    BY <1>3, <2>2 DEF AdoptFork, WriteThrows, WriteCutShort, Dies
  <2> QED BY <2>1, <2>3, FlagSound, BaseSound
<1>4. CASE RejectFork(s, r, c, f)
  <2>1. CallsOK'
    BY <1>4, ReturnsOK DEF RejectFork
  <2>2. r.preFork \in ChainState
    BY DEF SyncState
  <2> QED BY <1>4, <2>1, <2>2 DEF RejectFork
<1> QED BY <1>1, <1>2, <1>3, <1>4 DEF LoopOrEnd

LEMMA VerifyKeeps ==
  ASSUME ChainInv, CallsOK, NEW s \in Syncers,
         NEW c \in ChainState, Sound(c), NEW f \in FileState,
         VerifyCpAndLoop(s, c, f), UNCHANGED now
  PROVE  SyncInv'
<1>1. sync[s] \in SyncState /\ Sound(sync[s].preFork)
  BY DEF CallsOK
<1>2. CASE LoopOrEnd(s, sync[s], c, f)
  BY <1>1, <1>2, LoopKeeps
<1>3. CASE SyncThrows(s, c) /\ file' = f /\ up' = up
  BY <1>3, ThrowsOK DEF SyncInv, ChainInv, ChainTypeOK, ChainSound
<1> QED BY <1>2, <1>3 DEF VerifyCpAndLoop

-----------------------------------------------------------------------------
(* The actions.                                                            *)

LEMMA SyncStartKeeps ==
  ASSUME SyncInv, NEW s \in Syncers, SyncStart(s) PROVE SyncInv'
<1> DEFINE r == [Idle("none") EXCEPT !.pc = "version"]
<1>1. r \in SyncState /\ r.preFork = Idle("none").preFork
  BY IdleOK DEF SyncState
<1> HIDE DEF r
<1>2. CallsOK'
  BY <1>1, IdleOK, GoesOnOK DEF SyncInv, SyncStart, r
<1> QED BY <1>2 DEF SyncStart, chainVars, SyncInv, ChainInv, ChainTypeOK, ChainSound

LEMMA VersionAnswerKeeps ==
  ASSUME SyncInv, NEW s \in Syncers, VersionAnswer(s) PROVE SyncInv'
<1> DEFINE r == [sync[s] EXCEPT !.pc = "tip"]
<1>1. r \in SyncState /\ r.preFork = sync[s].preFork
  BY DEF SyncInv, CallsOK, SyncState
<1> HIDE DEF r
<1>2. Sound(r.preFork)
  BY <1>1 DEF SyncInv, CallsOK
<1>3. CallsOK'
  BY <1>1, <1>2, GoesOnOK DEF SyncInv, VersionAnswer, r
<1> QED BY <1>3 DEF VersionAnswer, chainVars, SyncInv, ChainInv, ChainTypeOK, ChainSound

LEMMA TipAnswerKeeps ==
  ASSUME SyncInv, NEW s \in Syncers, NEW serverTip \in Int,
         TipAnswer(s, serverTip)
  PROVE  SyncInv'
<1> DEFINE r == [sync[s] EXCEPT !.serverTip = serverTip]
<1>1. r \in SyncState /\ r.preFork = sync[s].preFork
  BY DEF SyncInv, CallsOK, SyncState
<1>2. chain \in ChainState /\ chain.headers \in Chains
  BY DEF SyncInv, ChainInv, ChainTypeOK, ChainState
<1> HIDE DEF r
<1>3. /\ Request(r, chain) \in SyncState
      /\ Request(r, chain).preFork = sync[s].preFork
  BY <1>1, <1>2, RequestOK
<1>4. CallsOK'
  <2>1. CASE /\ sync' = [sync EXCEPT ![s] = Request(r, chain)]
             /\ begun' = [begun EXCEPT ![s] = chain.headers]
    <3>1. Sound(Request(r, chain).preFork)
      BY <1>3 DEF SyncInv, CallsOK
    <3> QED BY <1>2, <1>3, <2>1, <3>1 DEF SyncInv, CallsOK
  <2>2. CASE SyncReturns(s, "ok")
    BY <2>2, ReturnsOK DEF SyncInv
  <2> QED BY <2>1, <2>2 DEF TipAnswer, r
<1> QED BY <1>4 DEF TipAnswer, SyncInv, ChainInv, ChainTypeOK, ChainSound

LEMMA RequestFailsKeeps ==
  ASSUME SyncInv, NEW s \in Syncers, RequestFails(s) PROVE SyncInv'
<1>1. CallsOK' /\ chain' \in ChainState /\ Sound(chain')
  BY ThrowsOK DEF RequestFails, SyncInv, ChainInv, ChainTypeOK, ChainSound
<1> QED BY <1>1 DEF RequestFails, SyncInv, ChainInv, ChainTypeOK, ChainSound

\* The batch extends the chain, and is written at once.
LEMMA BatchExtendsKeeps ==
  ASSUME SyncInv, NEW s \in Syncers, NEW batch \in Batches, BatchExtends(s, batch)
  PROVE  SyncInv'
<1> DEFINE c == AfterAppend(chain, batch)
           f == IF HasFile THEN AppendWrites(c, batch) ELSE file
<1> USE DEF SyncInv, ChainInv, ChainTypeOK, ChainSound
<1>1. batch \in Seq(Header)
  BY BatchIsSeq
<1>2. c \in ChainState /\ Sound(c)
  BY <1>1, AppendSound DEF BatchExtends, Answered
<1>3. f \in FileState /\ AppendWriteCuts(c, batch) \subseteq FileState
  BY <1>1, <1>2, AppendTypes
<1>4. UNCHANGED now
  BY DEF BatchExtends, Answered
<1> HIDE DEF c, f
<1>5. CASE VerifyCpAndLoop(s, Saved(c), f)
  BY <1>2, <1>3, <1>4, <1>5, FlagSound, VerifyKeeps
<1>6. CASE /\ WriteThrows(AppendWriteCuts(c, batch))
           /\ UNCHANGED up
           /\ SyncThrows(s, c)
  <2>1. CallsOK' /\ chain' \in ChainState /\ Sound(chain')
    BY <1>2, <1>6, ThrowsOK
  <2>2. file' \in FileState
    BY <1>3, <1>6 DEF WriteThrows
  <2> QED BY <1>4, <1>6, <2>1, <2>2
<1>7. CASE WriteCutShort(AppendWriteCuts(c, batch)) /\ AllStop
  <2>1. file' \in FileState /\ up' \in BOOLEAN /\ chain' = BaseChain
    BY <1>3, <1>7 DEF WriteCutShort, Dies
  <2>2. CallsOK'
    BY <1>7, AllStopOK
  <2> QED BY <1>4, <2>1, <2>2, BaseSound
<1> QED BY <1>5, <1>6, <1>7 DEF BatchExtends, c, f

LEMMA BatchStagedKeeps ==
  ASSUME SyncInv, NEW s \in Syncers, NEW batch \in Batches, BatchStaged(s, batch)
  PROVE  SyncInv'
<1> DEFINE c == AfterAppend(chain, batch)
<1> USE DEF SyncInv, ChainInv, ChainTypeOK, ChainSound
<1>1. c \in ChainState /\ Sound(c)
  BY BatchIsSeq, AppendSound DEF BatchStaged, Answered
<1>2. VerifyCpAndLoop(s, Unsaved(c), file) /\ UNCHANGED now
  BY DEF BatchStaged, Answered
<1> HIDE DEF c
<1> QED BY <1>1, <1>2, FlagSound, VerifyKeeps

\* The snapshot is the chain as it stands, or the one already taken.
LEMMA BatchRewindsKeeps ==
  ASSUME SyncInv, NEW s \in Syncers, NEW batch \in Batches, BatchRewinds(s, batch)
  PROVE  SyncInv'
<1> DEFINE r == [sync[s] EXCEPT !.rewinds = @ + 1, !.staging = TRUE,
                   !.preFork = IF sync[s].staging THEN @ ELSE chain]
           c == Rewound(chain, TipHeight(chain.headers) - 1)
<1> USE DEF SyncInv, ChainInv, ChainTypeOK, ChainSound
<1>1. sync[s] \in SyncState /\ Sound(sync[s].preFork)
  BY DEF CallsOK
<1>2. r \in SyncState /\ Sound(r.preFork)
  <2> DEFINE p == IF sync[s].staging THEN sync[s].preFork ELSE chain
  <2>1. p \in ChainState /\ Sound(p)
    BY <1>1 DEF SyncState
  <2>2. r = [sync[s] EXCEPT !.rewinds = @ + 1, !.staging = TRUE, !.preFork = p]
    OBVIOUS
  <2> HIDE DEF p, r
  <2>3. r \in SyncState /\ r.preFork = p
    <3> DEFINE q == sync[s]
    <3>1. q \in SyncState /\ q.rewinds + 1 \in Nat
      BY <1>1 DEF SyncState
    <3>2. r = [q EXCEPT !.rewinds = @ + 1, !.staging = TRUE, !.preFork = p]
      BY <2>2
    <3> HIDE DEF q
    <3> QED BY <2>1, <3>1, <3>2 DEF SyncState
  <2> QED BY <2>1, <2>3
<1>3. UNCHANGED now
  BY DEF BatchRewinds, Answered
<1> HIDE DEF r
<1>4. CASE Len(chain.headers) = 1
  <2>1. LoopOrEnd(s, r, chain, file)
    BY <1>4 DEF BatchRewinds, r
  <2> QED BY <1>2, <1>3, <2>1, LoopKeeps
<1>5. CASE Len(chain.headers) # 1
  <2>1. LoopOrEnd(s, r, Unsaved(c), file)
    BY <1>5 DEF BatchRewinds, r
  <2>2. /\ Len(chain.headers) - 1 \in 1..Len(chain.headers)
        /\ TipHeight(chain.headers) - 1 = HeightOf(Len(chain.headers) - 1)
    <3>1. chain.headers \in Seq(Header) /\ chain.headers # <<>>
      BY DEF ChainState, Chains
    <3>2. Len(chain.headers) \in Nat \ {0}
      BY <3>1
    <3> DEFINE n == Len(chain.headers)
    <3>3. n \in Nat \ {0} /\ n # 1 /\ BaseHeight \in Nat
      BY <1>5, <3>2, HeaderTreeAssumption
    <3>4. TipHeight(chain.headers) = BaseHeight + n - 1
      BY DEF TipHeight, HeightOf
    <3> HIDE DEF n
    <3>5. n - 1 \in 1..n /\ (BaseHeight + n - 1) - 1 = BaseHeight + (n - 1) - 1
      BY <3>3
    <3> QED BY <3>4, <3>5 DEF n, HeightOf
  <2>3. c \in ChainState /\ Sound(c)
    BY <2>2, RewoundSound
  <2> HIDE DEF c
  <2> QED BY <1>2, <1>3, <2>1, <2>3, FlagSound, LoopKeeps
<1> QED BY <1>4, <1>5

LEMMA BatchRefusedKeeps ==
  ASSUME SyncInv, NEW s \in Syncers, NEW batch \in Batches, BatchRefused(s, batch)
  PROVE  SyncInv'
<1>1. CallsOK' /\ chain' \in ChainState /\ Sound(chain')
  BY ThrowsOK DEF BatchRefused, SyncInv, ChainInv, ChainTypeOK, ChainSound
<1>2. UNCHANGED <<file, up, now>>
  BY DEF BatchRefused, Answered
<1> QED BY <1>1, <1>2 DEF SyncInv, ChainInv, ChainTypeOK, ChainSound

LEMMA RequestSettlesKeeps ==
  ASSUME SyncInv, NEW s \in Syncers, RequestSettles(s) PROVE SyncInv'
<1>1. CASE VersionAnswer(s)
  BY <1>1, VersionAnswerKeeps
<1>2. CASE \E serverTip \in 0..MaxServerTip : TipAnswer(s, serverTip)
  BY <1>2, TipAnswerKeeps, SyncAssumption
<1>3. CASE BatchAnswer(s)
  BY <1>3, BatchExtendsKeeps, BatchStagedKeeps, BatchRewindsKeeps, BatchRefusedKeeps
     DEF BatchAnswer
<1>4. CASE RequestFails(s)
  BY <1>4, RequestFailsKeeps
<1> QED BY <1>1, <1>2, <1>3, <1>4 DEF RequestSettles

-----------------------------------------------------------------------------

\* Every reachable state is sound, whatever calls overlap.
THEOREM SyncInvariant == Spec => []SyncInv
<1>1. Init => SyncInv
  <2> SUFFICES ASSUME Init PROVE SyncInv
    OBVIOUS
  <2>1. ChainInv
    BY BaseSound, ChainAssumption, InitialFilesAssumption
       DEF Init, ChainInit, ChainInv, ChainTypeOK, ChainSound
  <2>2. CallsOK
    BY IdleOK DEF Init, CallsOK
  <2> QED BY <2>1, <2>2 DEF SyncInv
<1>2. SyncInv /\ [Next]_vars => SyncInv'
  <2> SUFFICES ASSUME SyncInv, [Next]_vars PROVE SyncInv'
    OBVIOUS
  <2>1. CASE Open
    BY <2>1, OpenKeepsInv DEF Open, SyncInv, CallsOK
  <2>2. CASE ProcessDies
    BY <2>2, CrashTickKeepInv, AllStopOK DEF ProcessDies, SyncInv
  <2>3. CASE ClockTicks
    BY <2>3, CrashTickKeepInv DEF ClockTicks, SyncInv, CallsOK
  <2>4. CASE \E s \in Syncers : SyncStart(s) \/ RequestSettles(s)
    BY <2>4, SyncStartKeeps, RequestSettlesKeeps
  <2>5. CASE UNCHANGED vars
    BY <2>5 DEF vars, chainVars, SyncInv, CallsOK, ChainInv, ChainTypeOK, ChainSound
  <2> QED BY <2>1, <2>2, <2>3, <2>4, <2>5 DEF Next
<1> QED BY <1>1, <1>2, PTL DEF Spec

\* The types of the variables hold in every reachable state.
THEOREM SyncTypeCorrect == Spec => []TypeOK
<1>1. SyncInv => TypeOK
  BY DEF SyncInv, ChainInv, CallsOK, TypeOK
<1> QED BY <1>1, SyncInvariant, PTL

\* The chain and every snapshot a call may restore are sound at every await.
THEOREM SyncAlwaysSound == Spec => []SyncSound
<1>1. SyncInv => SyncSound
  BY DEF SyncInv, ChainInv, CallsOK, SyncSound
<1> QED BY <1>1, SyncInvariant, PTL

-----------------------------------------------------------------------------
(* One caller at a time implements AdoptedChain.                           *)
(*                                                                         *)
(* What a caller holds is its snapshot while it stages a branch, and the   *)
(* chain otherwise.  The invariant: the file holds exactly that, so that a *)
(* death costs nothing but the tail of a write cut short; and the branch   *)
(* leaves the snapshot at most rewinds <= MaxReorg headers below its tip,  *)
(* so that its adoption is a reorganisation of at most that depth.         *)

OneCaller == \E s \in Syncers : Syncers = {s}

FreshFile == InitialFiles = {NoFile}

\* The file holds the chain c.
Settled(c, f) == ~c.dirty /\ (HasFile => f = FileWith(c.headers))

\* c is what a call has made of its snapshot, in memory.
StagedOver(r, c, f) ==
  /\ Settled(r.preFork, f)
  /\ r.rewinds <= MaxReorg
  /\ \A i \in 1 .. (Len(r.preFork.headers) - r.rewinds) :
       i <= Len(c.headers) /\ c.headers[i] = r.preFork.headers[i]
  /\ HasFile /\ ~c.dirty => c.headers = r.preFork.headers

CallInv(r, c, f) ==
  IF r.staging THEN StagedOver(r, c, f) ELSE r.rewinds = 0 /\ Settled(c, f)

OneCallInv ==
  \A s \in Syncers :
    /\ up => CallInv(sync[s], chain, file)
    /\ ~up => sync[s].pc = "idle"
    /\ sync[s].pc # "batch" => ~sync[s].staging /\ sync[s].rewinds = 0

\* What is held stays, or gives way to more work in a call that returns.
Kept ==
  up /\ up' => \/ IsPrefixOf(Held, Held')
               \/ /\ WorkOf(Held') > WorkOf(Held)
                  /\ \A s \in Syncers : sync'[s] = Idle("ok")

\* A step that keeps the invariant and is one of AdoptedChain, or none.
Simulated == OneCallInv' /\ Kept /\ [Promise!AdoptedNext]_(Promise!adoptedVars)

-----------------------------------------------------------------------------

\* What the only caller holds.
LEMMA HeldByCaller ==
  ASSUME NEW s \in Syncers, Syncers = {s}
  PROVE  /\ up  => Held  = Adopted(s)
         /\ up' => Held' = Adopted(s)'
<1>1. (CHOOSE t \in {s} : sync[t].staging) = s \/ ~sync[s].staging
  <2> SUFFICES ASSUME sync[s].staging PROVE (CHOOSE t \in {s} : sync[t].staging) = s
    OBVIOUS
  <2> QED OBVIOUS
<1>2. (CHOOSE t \in {s} : sync'[t].staging) = s \/ ~sync'[s].staging
  <2> SUFFICES ASSUME sync'[s].staging PROVE (CHOOSE t \in {s} : sync'[t].staging) = s
    OBVIOUS
  <2> QED OBVIOUS
<1>3. up => Held = Adopted(s)
  BY <1>1 DEF Held, Adopted
<1>4. up' => Held' = Adopted(s)'
  BY <1>2 DEF Held, Adopted
<1> QED BY <1>3, <1>4

\* What a restart would load is a chain, or nothing.
FileIsChain == AdoptedFromFile = <<>> \/ ValidChain(AdoptedFromFile)

LEMMA FileHolds == SyncInv => FileIsChain
<1> SUFFICES ASSUME SyncInv PROVE FileIsChain
  OBVIOUS
<1>1. ValidChain(<<Base>>)
  BY BaseSound DEF Sound, BaseChain
<1>2. FileLoads(file) => ValidChain(file.hs)
  <2>1. FileLoads(file) <=> LoadsAt(file, now)
    BY DEF FileLoads, LoadsAt
  <2> QED BY <2>1, LoadsMeansLoadable DEF SyncInv, ChainInv, ChainTypeOK, Loadable
<1> QED BY <1>1, <1>2 DEF AdoptedFromFile, FileIsChain

LEMMA FileHoldsNext == SyncInv' => FileIsChain'
BY FileHolds, PTL

\* The process dies holding held, with its file at least a part of that.
LEMMA DeathSimulated ==
  ASSUME SyncInv', ~up', AllStop, ValidChain(Held) \/ Held = <<>>,
         \A i \in 1 .. (Len(Held) - MaxReorg) :
           i <= Len(file'.hs) => file'.hs[i] = Held[i]
  PROVE  Simulated
<1>1. OneCallInv'
  BY DEF AllStop, Idle, OneCallInv
<1>2. Held' = AdoptedFromFile'
  BY DEF Held
<1>3. AdoptedFromFile' \in {<<>>, <<Base>>, file'.hs}
  BY DEF AdoptedFromFile
<1>4. Promise!AgreesBelow(Held, Held', MaxReorg)
  <2> SUFFICES ASSUME NEW i \in 1 .. (Len(Held) - MaxReorg), i <= Len(Held')
               PROVE  Held[i] = Held'[i]
    BY DEF Promise!AgreesBelow
  <2>1. CASE Held' = <<>>
    BY <2>1
  <2>2. CASE Held' = <<Base>>
    <3>1. i = 1
      BY <2>2
    <3>2. Held # <<>>
      BY SyncAssumption
    <3>3. Held[1] = Base
      BY <3>2 DEF ValidChain
    <3> QED BY <2>2, <3>1, <3>3
  <2>3. CASE Held' = file'.hs
    BY <2>3
  <2> QED BY <1>2, <1>3, <2>1, <2>2, <2>3
<1>5. Promise!Die
  BY <1>2, <1>4, FileHoldsNext DEF FileIsChain, Promise!Die
<1> QED BY <1>1, <1>5 DEF Simulated, Kept, Promise!AdoptedNext

\* A running process that still holds what it held, or more, above it.
LEMMA GrowthSimulated ==
  ASSUME NEW s \in Syncers, Syncers = {s}, SyncInv', up, up',
         Len(Held) \in Nat, IsPrefixOf(Held, Adopted(s)'),
         CallInv(sync'[s], chain', file'),
         sync'[s].pc # "batch" => ~sync'[s].staging /\ sync'[s].rewinds = 0
  PROVE  Simulated
<1>1. OneCallInv'
  BY DEF OneCallInv
<1>2. Held' = Adopted(s)'
  BY HeldByCaller
<1>3. ValidChain(Held')
  BY <1>2 DEF SyncInv, ChainInv, ChainSound, CallsOK, Sound, Adopted
<1>4. Len(Held') >= Len(Held) /\ Promise!AgreesBelow(Held, Held', 0)
  <2>1. Len(Held) <= Len(Held') /\ \A i \in 1 .. Len(Held) : Held[i] = Held'[i]
    BY <1>2 DEF IsPrefixOf
  <2>2. Len(Held') >= Len(Held)
    BY <2>1
  <2>3. Len(Held) - 0 = Len(Held)
    OBVIOUS
  <2> QED BY <2>1, <2>2, <2>3 DEF Promise!AgreesBelow
<1>5. Promise!Extend
  BY <1>3, <1>4 DEF Promise!Extend
<1> QED BY <1>1, <1>2, <1>5 DEF Simulated, Kept, Promise!AdoptedNext

\* What follows a handled answer.
LEMMA LoopSimulated ==
  ASSUME NoDiskErrors, NEW s \in Syncers, Syncers = {s}, SyncInv, SyncInv', up,
         NEW r \in SyncState, Sound(r.preFork),
         NEW c \in ChainState, Sound(c), NEW f \in FileState,
         CallInv(r, c, f), Held \in Seq(Header), Held # <<>>,
         r.staging  => Held = r.preFork.headers,
         ~r.staging => IsPrefixOf(Held, c.headers),
         LoopOrEnd(s, r, c, f)
  PROVE  Simulated
<1>0. IsPrefixOf(Held, Held) /\ Len(Held) \in Nat
  BY DEF IsPrefixOf
<1>t. /\ sync \in [Syncers -> SyncState]
      /\ r.preFork \in ChainState /\ r.preFork.headers \in Seq(Header)
      /\ c.headers \in Seq(Header)
  BY DEF SyncInv, CallsOK, SyncState, ChainState, Chains
<1>i. /\ Idle("ok").pc = "idle" /\ ~Idle("ok").staging /\ Idle("ok").rewinds = 0
      /\ Idle("failed").pc = "idle" /\ ~Idle("failed").staging
      /\ Idle("failed").rewinds = 0
  BY DEF Idle
<1>1. CASE RequestMore(s, r, c, f)
  <2>1. sync'[s] = Request(r, c) /\ chain' = c /\ file' = f /\ up'
    BY <1>1, <1>t DEF RequestMore, SyncGoesOn
  <2>2. /\ Request(r, c).staging = r.staging /\ Request(r, c).rewinds = r.rewinds
        /\ Request(r, c).preFork = r.preFork /\ Request(r, c).pc = "batch"
    BY DEF Request, SyncState
  <2>3. CallInv(sync'[s], chain', file')
    BY <2>1, <2>2 DEF CallInv, StagedOver
  <2>4. IsPrefixOf(Held, Adopted(s)')
    BY <1>0, <2>1, <2>2 DEF Adopted
  <2> QED BY <1>0, <2>1, <2>2, <2>3, <2>4, GrowthSimulated
<1>2. CASE ReturnUnforked(s, r, c, f)
  <2>1. sync'[s] = Idle("ok") /\ chain' = c /\ file' = f /\ up' /\ ~r.staging
    BY <1>2, <1>t DEF ReturnUnforked, SyncReturns
  <2>2. CallInv(sync'[s], chain', file')
    BY <1>i, <2>1 DEF CallInv
  <2>3. IsPrefixOf(Held, Adopted(s)')
    BY <1>i, <2>1 DEF Adopted
  <2> QED BY <1>0, <1>i, <2>1, <2>2, <2>3, GrowthSimulated
<1>3. CASE RejectFork(s, r, c, f)
  <2>1. sync'[s] = Idle("failed") /\ chain' = r.preFork /\ file' = f /\ up' /\ r.staging
    BY <1>3, <1>t DEF RejectFork, SyncReturns
  <2>2. CallInv(sync'[s], chain', file')
    BY <1>i, <2>1 DEF CallInv, StagedOver
  <2>3. IsPrefixOf(Held, Adopted(s)')
    BY <1>0, <1>i, <2>1 DEF Adopted
  <2> QED BY <1>0, <1>i, <2>1, <2>2, <2>3, GrowthSimulated
<1>4. CASE AdoptFork(s, r, c, f)
  <2> DEFINE p == r.preFork
  <2>1. r.staging /\ c.work > p.work /\ Held = p.headers /\ StagedOver(r, c, f)
    BY <1>4 DEF AdoptFork, MoreWork, CallInv
  <2>2. /\ CumWork[Tip(c.headers)] > CumWork[Tip(p.headers)]
        /\ ~(c.headers = p.headers)
    <3>1. c.work = CumWork[Tip(c.headers)] /\ p.work = CumWork[Tip(p.headers)]
      BY DEF Sound
    <3>2. c.work \in Int /\ p.work \in Int
      BY <1>t DEF ChainState
    <3>3. c.work # p.work
      BY <2>1, <3>2
    <3> QED BY <2>1, <3>1, <3>3
  <2>3. /\ r.rewinds \in Nat /\ r.rewinds <= MaxReorg /\ MaxReorg \in Nat
        /\ \A i \in 1 .. (Len(p.headers) - r.rewinds) :
             i <= Len(c.headers) /\ c.headers[i] = p.headers[i]
    BY <2>1, SyncAssumption DEF StagedOver, SyncState
  <2>4. \A i \in 1 .. (Len(Held) - MaxReorg) :
           i <= Len(c.headers) /\ c.headers[i] = Held[i]
    <3> TAKE i \in 1 .. (Len(Held) - MaxReorg)
    <3>1. i \in 1 .. (Len(p.headers) - r.rewinds)
      BY <1>0, <2>1, <2>3
    <3> QED BY <2>1, <2>3, <3>1
  <2> HIDE DEF p
  <2>5. CASE /\ chain' = Saved(c)
             /\ file' = IF c.dirty THEN FileWith(c.headers) ELSE f
             /\ up' = up
             /\ SyncReturns(s, "ok")
    <3>1. sync'[s] = Idle("ok")
      BY <1>t, <2>5 DEF SyncReturns
    <3>2. Saved(c).headers = c.headers /\ ~Saved(c).dirty
      BY DEF Saved, ChainState
    <3>3. HasFile => file' = FileWith(c.headers)
      BY <2>1, <2>2, <2>5 DEF StagedOver, p
    <3>4. OneCallInv'
      BY <1>i, <2>5, <3>1, <3>2, <3>3 DEF OneCallInv, CallInv, Settled
    <3>5. Held' = c.headers
      BY <1>i, <2>5, <3>1, <3>2, HeldByCaller DEF Adopted
    <3>6. ValidChain(Held')
      BY <3>5 DEF Sound
    <3>7. WorkOf(Held') > WorkOf(Held)
      BY <2>1, <2>2, <3>5 DEF WorkOf
    <3>8. Len(Held') >= Len(Held) - MaxReorg
      <4>1. CASE Len(Held) - MaxReorg \in 1 .. (Len(Held) - MaxReorg)
        BY <2>4, <3>5, <4>1, <1>t, <1>0, <2>3
      <4>2. CASE ~(Len(Held) - MaxReorg \in 1 .. (Len(Held) - MaxReorg))
        BY <3>5, <4>2, <1>t, <1>0, <2>3
      <4> QED BY <4>1, <4>2
    <3>9. Promise!AgreesBelow(Held, Held', MaxReorg)
      BY <2>4, <3>5 DEF Promise!AgreesBelow
    <3>10. Promise!Reorganise
      BY <2>5, <3>6, <3>7, <3>8, <3>9 DEF Promise!Reorganise
    <3>11. Kept
      BY <3>1, <3>7 DEF Kept
    <3> QED BY <3>4, <3>10, <3>11 DEF Simulated, Promise!AdoptedNext
  <2>6. CASE WriteCutShort(RewriteCuts(c.headers)) /\ AllStop
    <3>1. PICK k \in 0 .. (Len(c.headers) - 1), t \in {FALSE, TRUE} :
            file' = [there |-> TRUE, hs |-> <<>> \o SubSeq(c.headers, 1, k), torn |-> t]
      BY <2>6 DEF WriteCutShort, RewriteCuts, WrittenPart
    <3>2. file'.hs = SubSeq(c.headers, 1, k)
      BY <3>1, <1>t
    <3>3. \A i \in 1 .. (Len(Held) - MaxReorg) :
            i <= Len(file'.hs) => file'.hs[i] = Held[i]
      <4> TAKE i \in 1 .. (Len(Held) - MaxReorg)
      <4>1. i <= Len(SubSeq(c.headers, 1, k)) => SubSeq(c.headers, 1, k)[i] = c.headers[i]
        BY <1>t
      <4> QED BY <2>4, <3>2, <4>1
    <3>4. ValidChain(Held)
      BY <2>1 DEF Sound, p
    <3> QED BY <2>6, <3>3, <3>4, DeathSimulated DEF WriteCutShort, Dies
  <2> QED BY <1>4, <2>5, <2>6 DEF AdoptFork, WriteThrows, NoDiskErrors
<1> QED BY <1>1, <1>2, <1>3, <1>4 DEF LoopOrEnd

\* What the caller holds while its process runs.
LEMMA HeldFacts ==
  ASSUME NEW s \in Syncers, Syncers = {s}, SyncInv, OneCallInv, up
  PROVE  /\ Held \in Seq(Header) /\ Held # <<>> /\ ValidChain(Held)
         /\ sync[s].staging  => Held = sync[s].preFork.headers
         /\ ~sync[s].staging => Held = chain.headers
         /\ CallInv(sync[s], chain, file)
         /\ sync \in [Syncers -> SyncState] /\ sync[s] \in SyncState
         /\ sync[s].preFork \in ChainState /\ Sound(sync[s].preFork)
         /\ chain \in ChainState /\ Sound(chain) /\ file \in FileState
         /\ chain.headers \in Seq(Header) /\ chain.headers # <<>>
<1>1. /\ sync \in [Syncers -> SyncState] /\ sync[s] \in SyncState
      /\ Sound(sync[s].preFork)
      /\ chain \in ChainState /\ Sound(chain) /\ file \in FileState
  BY DEF SyncInv, CallsOK, ChainInv, ChainTypeOK, ChainSound
<1>2. sync[s].preFork \in ChainState
  BY <1>1 DEF SyncState
<1>3. /\ chain.headers \in Seq(Header) /\ sync[s].preFork.headers \in Seq(Header)
      /\ ValidChain(chain.headers) /\ ValidChain(sync[s].preFork.headers)
  BY <1>1, <1>2 DEF ChainState, Chains, Sound
<1>4. /\ sync[s].staging  => Held = sync[s].preFork.headers
      /\ ~sync[s].staging => Held = chain.headers
  BY HeldByCaller DEF Adopted
<1>5. chain.headers # <<>> /\ Held # <<>>
  BY <1>3, <1>4 DEF ValidChain
<1> QED BY <1>1, <1>2, <1>3, <1>4, <1>5 DEF OneCallInv

\* catch: the snapshot comes back, which is what the file has held all along.
LEMMA ThrowSimulated ==
  ASSUME NEW s \in Syncers, Syncers = {s}, SyncInv, SyncInv', OneCallInv, up, up',
         NEW c, CallInv(sync[s], c, file'),
         ~sync[s].staging => IsPrefixOf(Held, c.headers),
         SyncThrows(s, c)
  PROVE  Simulated
<1> DEFINE idle == Idle("failed")
<1>1. idle.pc = "idle" /\ ~idle.staging /\ idle.rewinds = 0
  BY DEF Idle
<1>2. sync'[s] = idle
  BY HeldFacts DEF SyncThrows, SyncReturns
<1> HIDE DEF idle
<1>3. Len(Held) \in Nat /\ IsPrefixOf(Held, Held)
  BY HeldFacts DEF IsPrefixOf
<1>4. CASE sync[s].staging
  <2>1. chain' = sync[s].preFork
    BY <1>4 DEF SyncThrows
  <2>2. Held = sync[s].preFork.headers
    BY <1>4, HeldFacts
  <2>3. CallInv(sync'[s], chain', file')
    BY <1>1, <1>2, <1>4, <2>1 DEF CallInv, StagedOver
  <2>4. IsPrefixOf(Held, Adopted(s)')
    BY <1>1, <1>2, <1>3, <2>1, <2>2 DEF Adopted
  <2> QED BY <1>1, <1>2, <1>3, <2>3, <2>4, GrowthSimulated
<1>5. CASE ~sync[s].staging
  <2>1. chain' = c
    BY <1>5 DEF SyncThrows
  <2>2. CallInv(sync'[s], chain', file')
    BY <1>1, <1>2, <1>5, <2>1 DEF CallInv
  <2>3. IsPrefixOf(Held, Adopted(s)')
    BY <1>1, <1>2, <1>5, <2>1 DEF Adopted
  <2> QED BY <1>1, <1>2, <1>3, <2>2, <2>3, GrowthSimulated
<1> QED BY <1>4, <1>5

LEMMA VerifySimulated ==
  ASSUME NoDiskErrors, NEW s \in Syncers, Syncers = {s},
         SyncInv, SyncInv', OneCallInv, up,
         NEW c \in ChainState, Sound(c), NEW f \in FileState,
         CallInv(sync[s], c, f),
         ~sync[s].staging => IsPrefixOf(Held, c.headers),
         VerifyCpAndLoop(s, c, f)
  PROVE  Simulated
<1>1. CASE LoopOrEnd(s, sync[s], c, f)
  BY <1>1, HeldFacts, LoopSimulated
<1>2. CASE SyncThrows(s, c) /\ file' = f /\ up' = up
  BY <1>2, ThrowSimulated
<1> QED BY <1>1, <1>2 DEF VerifyCpAndLoop

\* A call starts, learns the tip, or is refused an answer.
LEMMA CallSimulated ==
  ASSUME NEW s \in Syncers, Syncers = {s}, SyncInv, SyncInv', OneCallInv,
         \/ SyncStart(s) \/ VersionAnswer(s) \/ RequestFails(s)
         \/ \E serverTip \in 0..MaxServerTip : TipAnswer(s, serverTip)
         \/ \E batch \in Batches : BatchRefused(s, batch)
  PROVE  Simulated
<1>1. up
  BY DEF SyncStart, VersionAnswer, RequestFails, TipAnswer, BatchRefused, Answered,
         OneCallInv
<1>2. up' /\ file' = file
  BY <1>1 DEF SyncStart, VersionAnswer, RequestFails, TipAnswer, BatchRefused, chainVars
<1>3. IsPrefixOf(Held, Held) /\ Len(Held) \in Nat
  BY <1>1, HeldFacts DEF IsPrefixOf
<1>4. SUFFICES ASSUME ~(\E c \in {chain} : SyncThrows(s, c)) PROVE Simulated
  BY <1>1, <1>2, <1>3, HeldFacts, ThrowSimulated
<1>6. ASSUME NEW r \in SyncState, sync' = [sync EXCEPT ![s] = r], chain' = chain,
             ~sync[s].staging, ~r.staging, r.rewinds = 0
      PROVE  Simulated
  <2>1. sync'[s] = r
    BY <1>1, <1>6, HeldFacts
  <2>2. CallInv(sync'[s], chain', file')
    BY <1>1, <1>2, <1>6, <2>1, HeldFacts DEF CallInv
  <2>3. Adopted(s)' = Held
    BY <1>1, <1>6, <2>1, HeldFacts DEF Adopted
  <2> QED BY <1>1, <1>2, <1>3, <1>6, <2>1, <2>2, <2>3, GrowthSimulated
<1>7. CASE SyncStart(s)
  <2> DEFINE r == [Idle("none") EXCEPT !.pc = "version"]
  <2>1. r \in SyncState /\ ~r.staging /\ r.rewinds = 0
    <3>1. Idle("none") \in SyncState /\ ~Idle("none").staging /\ Idle("none").rewinds = 0
      BY IdleOK DEF Idle
    <3> QED BY <3>1 DEF SyncState
  <2>2. sync' = [sync EXCEPT ![s] = r] /\ chain' = chain
    BY <1>7 DEF SyncStart, SyncGoesOn, chainVars
  <2>3. ~sync[s].staging
    BY <1>7 DEF SyncStart, OneCallInv
  <2> HIDE DEF r
  <2> QED BY <1>6, <2>1, <2>2, <2>3
<1>8. CASE VersionAnswer(s)
  <2> DEFINE r == [sync[s] EXCEPT !.pc = "tip"]
  <2>1. /\ r \in SyncState /\ r.staging = sync[s].staging
        /\ r.rewinds = sync[s].rewinds
    BY <1>1, HeldFacts DEF SyncState
  <2>2. sync' = [sync EXCEPT ![s] = r] /\ chain' = chain
    BY <1>8 DEF VersionAnswer, SyncGoesOn, chainVars
  <2>3. ~sync[s].staging /\ sync[s].rewinds = 0
    BY <1>8 DEF VersionAnswer, OneCallInv
  <2> HIDE DEF r
  <2> QED BY <1>6, <2>1, <2>2, <2>3
<1>9. CASE \E serverTip \in 0..MaxServerTip : TipAnswer(s, serverTip)
  <2>1. PICK serverTip \in 0..MaxServerTip : TipAnswer(s, serverTip)
    BY <1>9
  <2> DEFINE r == [sync[s] EXCEPT !.serverTip = serverTip]
             q == Request(r, chain)
  <2>2. /\ r \in SyncState /\ r.staging = sync[s].staging
        /\ r.rewinds = sync[s].rewinds
    <3>1. serverTip \in Int
      BY SyncAssumption
    <3>2. sync[s] \in SyncState
      BY <1>1, HeldFacts
    <3> QED BY <3>1, <3>2 DEF SyncState
  <2>3. chain' = chain /\ ~sync[s].staging /\ sync[s].rewinds = 0
    BY <2>1 DEF TipAnswer, OneCallInv
  <2>4. CASE sync' = [sync EXCEPT ![s] = q]
    <3> HIDE DEF r
    <3>1. q \in SyncState /\ q.staging = r.staging /\ q.rewinds = r.rewinds
      BY <1>1, <2>2, HeldFacts, RequestOK DEF Request, SyncState
    <3> HIDE DEF q
    <3> QED BY <1>6, <2>2, <2>3, <2>4, <3>1
  <2>5. CASE SyncReturns(s, "ok")
    <3> DEFINE idle == Idle("ok")
    <3>1. idle \in SyncState /\ ~idle.staging /\ idle.rewinds = 0
      BY IdleOK DEF Idle
    <3>2. sync' = [sync EXCEPT ![s] = idle]
      BY <2>5 DEF SyncReturns
    <3> HIDE DEF idle
    <3> QED BY <1>6, <2>3, <3>1, <3>2
  <2> QED BY <2>1, <2>4, <2>5 DEF TipAnswer
<1> QED BY <1>4, <1>7, <1>8, <1>9 DEF RequestFails, BatchRefused

-----------------------------------------------------------------------------

\* The batch extends the adopted chain, whose file takes it or a part of it.
LEMMA ExtendSimulated ==
  ASSUME NoDiskErrors, NEW s \in Syncers, Syncers = {s}, SyncInv, SyncInv', OneCallInv,
         NEW batch \in Batches, BatchExtends(s, batch)
  PROVE  Simulated
<1> DEFINE c == AfterAppend(chain, batch)
           f == IF HasFile THEN AppendWrites(c, batch) ELSE file
<1>1. /\ up /\ ~sync[s].staging /\ batch \in Seq(Header)
      /\ BatchVerdict(chain.headers, batch, now) = "ok" /\ now \in Nat
  BY BatchIsSeq DEF BatchExtends, Answered, OneCallInv, SyncInv, ChainInv, ChainTypeOK
<1>2. /\ chain \in ChainState /\ Sound(chain) /\ file \in FileState
      /\ chain.headers \in Seq(Header) /\ Held = chain.headers
      /\ ValidChain(Held)
      /\ sync[s].rewinds = 0 /\ Settled(chain, file)
  BY <1>1, HeldFacts DEF CallInv
<1>3. c \in ChainState /\ Sound(c)
  BY <1>1, <1>2, AppendSound
<1>4. c.headers \in Seq(Header) /\ c.headers = chain.headers \o batch /\ ~c.dirty
  <2>1. CASE batch = <<>>
    BY <1>2, <2>1 DEF AfterAppend, Settled
  <2>2. CASE batch # <<>>
    BY <1>1, <1>2, <2>2 DEF AfterAppend, ChainState, Settled
  <2> QED BY <2>1, <2>2
<1>5. f \in FileState
  BY <1>1, <1>2, <1>3, AppendTypes
<1>6. HasFile => file = FileWith(chain.headers) /\ f = FileWith(c.headers)
  <2> SUFFICES ASSUME HasFile
               PROVE  file = FileWith(chain.headers) /\ f = FileWith(c.headers)
    OBVIOUS
  <2>1. file = FileWith(chain.headers)
    BY <1>2 DEF Settled
  <2>2. f = [file EXCEPT !.there = TRUE, !.hs = file.hs \o batch]
    BY <1>4 DEF AppendWrites
  <2> HIDE DEF f
  <2> QED BY <1>4, <2>1, <2>2 DEF FileWith
<1>7. IsPrefixOf(Held, c.headers)
  BY <1>1, <1>2, <1>4 DEF IsPrefixOf
<1> HIDE DEF c, f
<1>8. CASE VerifyCpAndLoop(s, Saved(c), f)
  <2>1. /\ Saved(c) \in ChainState /\ Sound(Saved(c))
        /\ Saved(c).headers = c.headers
    BY <1>3, FlagSound
  <2>2. CallInv(sync[s], Saved(c), f)
    <3>1. ~Saved(c).dirty
      BY <1>3 DEF Saved, ChainState
    <3> QED BY <1>1, <1>2, <1>6, <2>1, <3>1 DEF CallInv, Settled
  <2> QED BY <1>1, <1>5, <1>7, <1>8, <2>1, <2>2, VerifySimulated
<1>9. CASE HasFile /\ WriteCutShort(AppendWriteCuts(c, batch)) /\ AllStop
  <2>1. file.hs = chain.headers
    BY <1>6, <1>9 DEF FileWith
  <2>2. file' \in AppendCuts(batch)
    BY <1>4, <1>9 DEF WriteCutShort, AppendWriteCuts
  <2>3. PICK k \in 0 .. (Len(batch) - 1) : file'.hs = chain.headers \o SubSeq(batch, 1, k)
    <3>1. PICK k \in 0 .. (Len(batch) - 1), t \in {file.torn, TRUE} :
            file' = [there |-> TRUE, hs |-> file.hs \o SubSeq(batch, 1, k), torn |-> t]
      BY <2>2 DEF AppendCuts, WrittenPart
    <3>2. file'.hs = file.hs \o SubSeq(batch, 1, k)
      BY <3>1
    <3> QED BY <2>1, <3>2
  <2>4. \A i \in 1 .. (Len(Held) - MaxReorg) :
          i <= Len(file'.hs) => file'.hs[i] = Held[i]
    <3> TAKE i \in 1 .. (Len(Held) - MaxReorg)
    <3>1. i \in 1 .. Len(chain.headers)
      BY <1>2, SyncAssumption
    <3>2. (chain.headers \o SubSeq(batch, 1, k))[i] = chain.headers[i]
      <4>1. SubSeq(batch, 1, k) \in Seq(Header) /\ chain.headers \in Seq(Header)
        BY <1>1, <1>2
      <4>2. \A x, y \in Seq(Header) : \A j \in 1 .. Len(x) : (x \o y)[j] = x[j]
        OBVIOUS
      <4> QED BY <3>1, <4>1, <4>2
    <3> QED BY <1>2, <2>3, <3>2
  <2> QED BY <1>2, <1>9, <2>4, DeathSimulated DEF WriteCutShort, Dies
<1> QED BY <1>8, <1>9 DEF BatchExtends, WriteThrows, NoDiskErrors, c, f

\* The batch extends the branch in memory: the snapshot and the file stay.
LEMMA StagedSimulated ==
  ASSUME NoDiskErrors, NEW s \in Syncers, Syncers = {s}, SyncInv, SyncInv', OneCallInv,
         NEW batch \in Batches, BatchStaged(s, batch)
  PROVE  Simulated
<1> DEFINE c == AfterAppend(chain, batch)
           p == sync[s].preFork
<1>1. /\ up /\ sync[s].staging /\ batch \in Seq(Header)
      /\ BatchVerdict(chain.headers, batch, now) = "ok" /\ now \in Nat
      /\ VerifyCpAndLoop(s, Unsaved(c), file)
  BY BatchIsSeq DEF BatchStaged, Answered, OneCallInv, SyncInv, ChainInv, ChainTypeOK
<1>2. /\ chain \in ChainState /\ Sound(chain) /\ file \in FileState
      /\ chain.headers \in Seq(Header)
      /\ StagedOver(sync[s], chain, file)
      /\ sync[s].rewinds \in Nat /\ p.headers \in Seq(Header)
  BY <1>1, HeldFacts DEF CallInv, SyncState, ChainState, Chains
<1>3. c \in ChainState /\ Sound(c)
  BY <1>1, <1>2, AppendSound
<1>4. c.headers = chain.headers \o batch
  BY <1>1, <1>2 DEF AfterAppend, ChainState
<1> HIDE DEF c
<1>5. /\ Unsaved(c) \in ChainState /\ Sound(Unsaved(c))
      /\ Unsaved(c).headers = chain.headers \o batch /\ Unsaved(c).dirty = HasFile
  BY <1>3, <1>4, FlagSound DEF Unsaved, ChainState
<1>6. \A i \in 1 .. (Len(p.headers) - sync[s].rewinds) :
        i <= Len(Unsaved(c).headers) /\ Unsaved(c).headers[i] = p.headers[i]
  <2> TAKE i \in 1 .. (Len(p.headers) - sync[s].rewinds)
  <2>1. i <= Len(chain.headers) /\ chain.headers[i] = p.headers[i] /\ i \in Nat \ {0}
    BY <1>2 DEF StagedOver
  <2>2. i <= Len(chain.headers \o batch) /\ (chain.headers \o batch)[i] = chain.headers[i]
    BY <1>1, <1>2, <2>1
  <2> QED BY <1>5, <2>1, <2>2
<1>7. CallInv(sync[s], Unsaved(c), file)
  BY <1>1, <1>2, <1>5, <1>6 DEF CallInv, StagedOver
<1> QED BY <1>1, <1>2, <1>5, <1>7, VerifySimulated

\* The chain without its tip.
LEMMA RewoundByOne ==
  ASSUME NEW c \in ChainState, Sound(c), Len(c.headers) # 1
  PROVE  /\ Rewound(c, TipHeight(c.headers) - 1) \in ChainState
         /\ Sound(Rewound(c, TipHeight(c.headers) - 1))
         /\ Rewound(c, TipHeight(c.headers) - 1).headers
              = SubSeq(c.headers, 1, Len(c.headers) - 1)
<1> DEFINE n == Len(c.headers)
           d == Rewound(c, TipHeight(c.headers) - 1)
<1>1. c.headers \in Seq(Header) /\ n \in Nat \ {0}
  BY DEF ChainState, Chains
<1>2. n - 1 \in 1 .. n
  <2>1. \A m \in Nat \ {0} : m # 1 => m - 1 \in 1 .. m
    OBVIOUS
  <2> QED BY <1>1, <2>1
<1>3. TipHeight(c.headers) - 1 = HeightOf(n - 1)
  <2>1. \A m \in Nat : HeightOf(m) - 1 = HeightOf(m - 1)
    BY HeaderTreeAssumption DEF HeaderTreeAssumption, HeightOf
  <2>2. TipHeight(c.headers) = HeightOf(n)
    BY DEF TipHeight
  <2> QED BY <1>1, <2>1, <2>2
<1>4. d \in ChainState /\ Sound(d)
  BY <1>2, <1>3, RewoundSound
<1>5. d.headers = SubSeq(c.headers, 1, n - 1)
  <2>1. (TipHeight(c.headers) - 1) - BaseHeight + 1 = n - 1
    <3>1. \A m \in Nat : HeightOf(m) - BaseHeight + 1 = m
      BY HeaderTreeAssumption DEF HeaderTreeAssumption, HeightOf
    <3> QED BY <1>1, <1>2, <1>3, <3>1
  <2>2. ~(n - 1 >= n)
    BY <1>1
  <2> QED BY <1>1, <2>1, <2>2 DEF Rewound, ChainState
<1> QED BY <1>4, <1>5

\* The tip is dropped in memory, at most MaxReorg times in a call.
LEMMA RewindSimulated ==
  ASSUME NoDiskErrors, NEW s \in Syncers, Syncers = {s}, SyncInv, SyncInv', OneCallInv,
         NEW batch \in Batches, BatchRewinds(s, batch)
  PROVE  Simulated
<1> DEFINE p == IF sync[s].staging THEN sync[s].preFork ELSE chain
           r == [sync[s] EXCEPT !.rewinds = @ + 1, !.staging = TRUE,
                   !.preFork = IF sync[s].staging THEN @ ELSE chain]
           n == Len(chain.headers)
           c == Rewound(chain, TipHeight(chain.headers) - 1)
           d == IF n = 1 THEN chain ELSE Unsaved(c)
<1>1. /\ up /\ sync[s].rewinds < MaxReorg /\ LoopOrEnd(s, r, d, file)
  BY DEF BatchRewinds, Answered, OneCallInv
<1>2. /\ chain \in ChainState /\ Sound(chain) /\ file \in FileState
      /\ chain.headers \in Seq(Header) /\ n \in Nat \ {0}
      /\ sync[s] \in SyncState /\ sync[s].rewinds \in Nat
      /\ p \in ChainState /\ Sound(p) /\ p.headers \in Seq(Header)
      /\ Held \in Seq(Header) /\ Held # <<>> /\ Held = p.headers
      /\ CallInv(sync[s], chain, file)
  BY <1>1, HeldFacts DEF SyncState, ChainState, Chains
<1>3. /\ r \in SyncState /\ r.staging /\ r.rewinds = sync[s].rewinds + 1
      /\ r.preFork = p
  <2>1. r = [sync[s] EXCEPT !.rewinds = sync[s].rewinds + 1, !.staging = TRUE, !.preFork = p]
    OBVIOUS
  <2> HIDE DEF p, r
  <2> DEFINE q == sync[s]
  <2>2. q \in SyncState /\ q.rewinds + 1 \in Nat
    BY <1>2
  <2>3. r = [q EXCEPT !.rewinds = q.rewinds + 1, !.staging = TRUE, !.preFork = p]
    BY <2>1
  <2>4. r \in SyncState /\ r.staging /\ r.rewinds = q.rewinds + 1 /\ r.preFork = p
    <3> HIDE DEF q
    <3> QED BY <1>2, <2>2, <2>3 DEF SyncState
  <2> QED BY <2>4
<1> HIDE DEF r
<1>4. /\ Settled(p, file)
      /\ \A i \in 1 .. (Len(p.headers) - sync[s].rewinds) :
           i <= n /\ chain.headers[i] = p.headers[i]
      /\ HasFile /\ ~chain.dirty => chain.headers = p.headers
  BY <1>2 DEF CallInv, StagedOver
<1> HIDE DEF p
<1>5. CASE n = 1
  <2>1. CallInv(r, chain, file)
    <3>1. \A i \in 1 .. (Len(p.headers) - r.rewinds) :
            i <= Len(chain.headers) /\ chain.headers[i] = p.headers[i]
      <4> TAKE i \in 1 .. (Len(p.headers) - r.rewinds)
      <4>1. i \in 1 .. (Len(p.headers) - sync[s].rewinds)
        BY <1>2, <1>3
      <4> QED BY <1>4, <4>1
    <3>2. r.rewinds <= MaxReorg
      BY <1>1, <1>2, <1>3, SyncAssumption
    <3> QED BY <1>3, <1>4, <3>1, <3>2 DEF CallInv, StagedOver
  <2>2. LoopOrEnd(s, r, chain, file)
    BY <1>1, <1>5
  <2> QED BY <1>1, <1>2, <1>3, <2>1, <2>2, LoopSimulated
<1>6. CASE n # 1
  <2>1. n - 1 \in 1 .. n
    <3>1. \A m \in Nat \ {0} : m # 1 => m - 1 \in 1 .. m
      OBVIOUS
    <3>2. n \in Nat \ {0}
      BY <1>2
    <3> QED BY <1>6, <3>1, <3>2
  <2>2. c \in ChainState /\ Sound(c) /\ c.headers = SubSeq(chain.headers, 1, n - 1)
    BY <1>2, <1>6, RewoundByOne
  <2> HIDE DEF c
  <2>4. /\ Unsaved(c) \in ChainState /\ Sound(Unsaved(c))
        /\ Unsaved(c).headers = c.headers /\ Unsaved(c).dirty = HasFile
    BY <2>2, FlagSound DEF Unsaved, ChainState
  <2>5. CallInv(r, Unsaved(c), file)
    <3>1. \A i \in 1 .. (Len(p.headers) - r.rewinds) :
            i <= Len(Unsaved(c).headers) /\ Unsaved(c).headers[i] = p.headers[i]
      <4> TAKE i \in 1 .. (Len(p.headers) - r.rewinds)
      <4>1. i \in 1 .. (Len(p.headers) - sync[s].rewinds)
        BY <1>2, <1>3
      <4>2. i <= n /\ chain.headers[i] = p.headers[i]
        BY <1>4, <4>1
      <4>3. i + 1 \in 1 .. (Len(p.headers) - sync[s].rewinds)
        BY <1>2, <1>3
      <4>4. i + 1 <= n
        BY <1>4, <4>3
      <4>5. i \in 1 .. (n - 1) /\ i \in Nat
        BY <1>2, <4>4
      <4>6. Len(SubSeq(chain.headers, 1, n - 1)) = n - 1
            /\ SubSeq(chain.headers, 1, n - 1)[i] = chain.headers[i]
        BY <1>2, <2>1, <4>5
      <4> QED BY <2>2, <2>4, <4>2, <4>5, <4>6
    <3>2. r.rewinds <= MaxReorg
      BY <1>1, <1>2, <1>3, SyncAssumption
    <3> QED BY <1>3, <1>4, <2>4, <3>1, <3>2 DEF CallInv, StagedOver
  <2>6. LoopOrEnd(s, r, Unsaved(c), file)
    BY <1>1, <1>6
  <2> QED BY <1>1, <1>2, <1>3, <2>4, <2>5, <2>6, LoopSimulated
<1> QED BY <1>5, <1>6

-----------------------------------------------------------------------------

\* A process opens the chain its file holds, or a new one, or is refused.
LEMMA OpenSimulated ==
  ASSUME NoDiskErrors, NEW s \in Syncers, Syncers = {s}, SyncInv, SyncInv', OneCallInv,
         Open
  PROVE  Simulated
<1>1. sync' = sync
  BY DEF Open
<1>2. CASE OpenRefused
  <2>1. chain' = chain /\ file' = file /\ up' = up /\ now' = now
    BY <1>2 DEF OpenRefused, chainVars
  <2>2. Held' = Held
    BY <1>1, <2>1 DEF Held, Adopted, AdoptedFromFile, FileLoads
  <2>3. OneCallInv'
    BY <1>1, <2>1 DEF OneCallInv
  <2>4. Kept
    BY <2>1, <2>2, HeldFacts DEF Kept, IsPrefixOf
  <2> QED BY <2>1, <2>2, <2>3, <2>4 DEF Simulated, Promise!adoptedVars
<1>3. ASSUME ~up, up', chain' \in ChainState, ~chain'.dirty,
             HasFile => file' = FileWith(chain'.headers), chain'.headers = Held
      PROVE  Simulated
  <2>1. sync[s].pc = "idle" /\ ~sync[s].staging /\ sync[s].rewinds = 0
    BY <1>3 DEF OneCallInv
  <2>2. OneCallInv'
    BY <1>1, <1>3, <2>1 DEF OneCallInv, CallInv, Settled
  <2>3. Held' = chain'.headers
    BY <1>1, <1>3, <2>1, HeldByCaller DEF Adopted
  <2>4. Held # <<>>
    BY <1>3 DEF ChainState, Chains
  <2>5. Promise!Restart
    BY <1>3, <2>3, <2>4 DEF Promise!Restart
  <2> QED BY <1>3, <2>2, <2>5 DEF Simulated, Kept, Promise!AdoptedNext
<1>4. CASE OpenFile
  <2>1. ~up /\ up' /\ HasFile /\ FileLoads(file) /\ file.there /\ file' = file
    BY <1>4 DEF OpenFile, FileLoads
  <2>2. LoadsAt(file, now)
    BY <2>1 DEF FileLoads, LoadsAt
  <2>3. /\ file \in FileState /\ now \in Nat
        /\ file.hs \in Seq(Header) /\ file.hs # <<>> /\ file.hs[1] = Base
        /\ ~file.torn
        /\ BatchVerdict(BaseChain.headers, Tail(file.hs), now) = "ok"
    BY <2>2 DEF LoadsAt, SyncInv, ChainInv, ChainTypeOK, FileState, BaseChain
  <2> DEFINE a == AfterAppend(BaseChain, Tail(file.hs))
  <2>4. a \in ChainState
    <3>1. Tail(file.hs) \in Seq(Header)
      BY <2>3
    <3> QED BY <2>3, <3>1, BaseSound, AppendSound
  <2>5. a.headers = file.hs
    <3>1. <<Base>> \o Tail(file.hs) = file.hs
      BY <2>3
    <3>2. CASE Tail(file.hs) = <<>>
      <4>1. <<Base>> \o <<>> = <<Base>>
        BY HeaderTreeAssumption
      <4> QED BY <3>1, <3>2, <4>1 DEF AfterAppend, BaseChain
    <3>3. CASE Tail(file.hs) # <<>>
      BY <3>1, <3>3 DEF AfterAppend, BaseChain
    <3> QED BY <3>2, <3>3
  <2>6. chain' = Saved(a)
    BY <1>4 DEF OpenFile
  <2> HIDE DEF a
  <2>7. chain' \in ChainState /\ ~chain'.dirty /\ chain'.headers = file.hs
    BY <2>4, <2>5, <2>6 DEF Saved, ChainState
  <2>8. file' = FileWith(chain'.headers)
    BY <2>1, <2>3, <2>7 DEF FileState, FileWith
  <2>9. Held = file.hs
    BY <2>1 DEF Held, AdoptedFromFile
  <2> QED BY <1>3, <2>1, <2>7, <2>8, <2>9
<1>5. CASE OpenNew
  <2>1. ~up /\ Held = <<Base>> /\ (HasFile => ~file.there)
    BY <1>5 DEF OpenNew, Held, AdoptedFromFile
  <2>2. /\ BaseChain \in ChainState /\ BaseChain.headers = <<Base>> /\ ~BaseChain.dirty
        /\ ValidChain(<<Base>>)
    BY BaseSound DEF BaseChain, Sound
  <2>3. CASE /\ up' = TRUE
             /\ chain' = BaseChain
             /\ file' = IF HasFile THEN FileWith(<<Base>>) ELSE file
    BY <1>3, <2>1, <2>2, <2>3
  <2>4. CASE HasFile /\ WriteCutShort(RewriteCuts(<<Base>>))
    <3>1. PICK k \in 0 .. (Len(<<Base>>) - 1), t \in {FALSE, TRUE} :
            file' = [there |-> TRUE, hs |-> <<>> \o SubSeq(<<Base>>, 1, k), torn |-> t]
      BY <2>4 DEF WriteCutShort, RewriteCuts, WrittenPart
    <3>2. Len(<<Base>>) = 1 /\ k = 0
      OBVIOUS
    <3>3. file'.hs = <<>> /\ file'.there
      BY <3>1, <3>2, HeaderTreeAssumption
    <3>4. ~up'
      BY <2>4 DEF WriteCutShort, Dies
    <3>5. Held' = <<>>
      BY <2>4, <3>3, <3>4 DEF Held, AdoptedFromFile, FileLoads
    <3>6. OneCallInv'
      BY <1>1, <2>1, <3>4 DEF OneCallInv
    <3>7. Promise!Die
      BY <3>4, <3>5 DEF Promise!Die, Promise!AgreesBelow
    <3> QED BY <3>4, <3>6, <3>7 DEF Simulated, Kept, Promise!AdoptedNext
  <2> QED BY <1>5, <2>3, <2>4 DEF OpenNew, WriteThrows, NoDiskErrors
<1> QED BY <1>2, <1>4, <1>5 DEF Open

\* The process dies between two steps: its file holds what it had adopted.
LEMMA CrashSimulated ==
  ASSUME NEW s \in Syncers, Syncers = {s}, SyncInv, SyncInv', OneCallInv, ProcessDies
  PROVE  Simulated
<1>1. up /\ ~up' /\ file' = file /\ AllStop
  BY DEF ProcessDies, Crash, Dies
<1>2. Held \in Seq(Header) /\ ValidChain(Held)
  BY <1>1, HeldFacts
<1>3. CASE HasFile
  <2>1. file' = FileWith(Held)
    BY <1>1, <1>3, HeldFacts DEF CallInv, StagedOver, Settled
  <2>2. file'.hs = Held
    BY <2>1 DEF FileWith
  <2> QED BY <1>1, <1>2, <2>2, DeathSimulated
<1>4. CASE ~HasFile
  <2>1. Held' = <<Base>>
    BY <1>1, <1>4 DEF Held, AdoptedFromFile
  <2>2. ValidChain(<<Base>>)
    BY BaseSound DEF Sound, BaseChain
  <2>3. \A i \in 1 .. (Len(Held) - MaxReorg) : i <= Len(<<Base>>) => Held[i] = <<Base>>[i]
    <3> TAKE i \in 1 .. (Len(Held) - MaxReorg)
    <3>1. i <= 1 => i = 1
      BY <1>2, SyncAssumption
    <3> QED BY <1>2, <3>1 DEF ValidChain
  <2>4. Promise!AgreesBelow(Held, Held', MaxReorg)
    BY <2>1, <2>3 DEF Promise!AgreesBelow
  <2>5. OneCallInv'
    BY <1>1 DEF AllStop, Idle, OneCallInv
  <2>6. Promise!Die
    BY <1>1, <2>1, <2>2, <2>4 DEF Promise!Die
  <2> QED BY <1>1, <2>5, <2>6 DEF Simulated, Kept, Promise!AdoptedNext
<1> QED BY <1>3, <1>4

\* Time passes; it may turn a file that was ahead of the clock into a chain.
LEMMA ClockSimulated ==
  ASSUME NEW s \in Syncers, Syncers = {s}, SyncInv, SyncInv', OneCallInv, ClockTicks
  PROVE  Simulated
<1>1. chain' = chain /\ file' = file /\ up' = up /\ sync' = sync
  BY DEF ClockTicks, Tick
<1>2. OneCallInv'
  BY <1>1 DEF OneCallInv
<1>3. CASE up
  <2>1. Held' = Held
    BY <1>1, <1>3, HeldByCaller DEF Adopted
  <2>2. Kept
    BY <1>3, <2>1, HeldFacts DEF Kept, IsPrefixOf
  <2> QED BY <1>1, <1>2, <2>1, <2>2 DEF Simulated, Promise!adoptedVars
<1>4. CASE ~up
  <2>1. Held = AdoptedFromFile /\ Held' = AdoptedFromFile'
    BY <1>1, <1>4 DEF Held
  <2>2. Held' = Held \/ Held' = <<>> \/ Held = <<>>
    BY <1>1, <2>1 DEF AdoptedFromFile
  <2>3. CASE Held' = Held
    BY <1>1, <1>2, <1>4, <2>3 DEF Simulated, Kept, Promise!adoptedVars
  <2>4. CASE Held' = <<>> \/ Held = <<>>
    <3>1. Promise!AgreesBelow(Held, Held', MaxReorg)
      BY <2>4, SyncAssumption DEF Promise!AgreesBelow
    <3>2. Promise!Die
      BY <1>1, <1>4, <2>1, <3>1, FileHoldsNext DEF FileIsChain, Promise!Die
    <3> QED BY <1>2, <1>4, <3>2 DEF Simulated, Kept, Promise!AdoptedNext
  <2> QED BY <2>2, <2>3, <2>4
<1> QED BY <1>3, <1>4

-----------------------------------------------------------------------------

\* Every step is one of AdoptedChain, or none.
LEMMA StepSimulated ==
  ASSUME OneCaller, NoDiskErrors, SyncInv, SyncInv', OneCallInv, [Next]_vars
  PROVE  Simulated
<1>1. PICK s \in Syncers : Syncers = {s}
  BY DEF OneCaller
<1>2. CASE Open
  BY <1>1, <1>2, OpenSimulated
<1>3. CASE ProcessDies
  BY <1>1, <1>3, CrashSimulated
<1>4. CASE ClockTicks
  BY <1>1, <1>4, ClockSimulated
<1>5. CASE SyncStart(s) \/ RequestSettles(s)
  BY <1>1, <1>5, CallSimulated, ExtendSimulated, StagedSimulated, RewindSimulated
     DEF RequestSettles, BatchAnswer
<1>6. CASE UNCHANGED vars
  <2>1. Held' = Held /\ up' = up
    BY <1>6 DEF vars, chainVars, Held, Adopted, AdoptedFromFile, FileLoads
  <2>2. OneCallInv'
    BY <1>6 DEF vars, chainVars, OneCallInv
  <2>3. Kept
    BY <1>1, <2>1, HeldFacts DEF Kept, IsPrefixOf
  <2> QED BY <2>1, <2>2, <2>3 DEF Simulated, Promise!adoptedVars
<1> QED BY <1>1, <1>2, <1>3, <1>4, <1>5, <1>6 DEF Next

LEMMA NoCallYet == Init => OneCallInv
BY DEF Init, ChainInit, OneCallInv, Idle

(***************************************************************************)
(* With one caller, no error of the file system and no file to begin with, *)
(* syncHeaders implements AdoptedChain: a running process only extends the *)
(* chain it has adopted, or moves to strictly more work at most MaxReorg   *)
(* headers down, and no death in the middle of a write leaves a foreign    *)
(* header.                                                                 *)
(***************************************************************************)
THEOREM SyncImplementsAdoptedChain ==
  ASSUME OneCaller, NoDiskErrors, FreshFile
  PROVE  Spec => ImplementsAdoptedChain
<1>1. Init => Promise!AdoptedInit
  <2> SUFFICES ASSUME Init PROVE Promise!AdoptedInit
    OBVIOUS
  <2>1. up = FALSE /\ file = NoFile
    BY DEF Init, ChainInit, FreshFile
  <2>2. ~file.there
    BY <2>1 DEF NoFile
  <2>3. Held = <<Base>>
    BY <2>1, <2>2 DEF Held, AdoptedFromFile
  <2> QED BY <2>1, <2>3 DEF Promise!AdoptedInit
<1>2. /\ SyncInv /\ SyncInv' /\ OneCallInv /\ [Next]_vars
      => OneCallInv' /\ [Promise!AdoptedNext]_(Promise!adoptedVars)
  BY StepSimulated DEF Simulated
<1> QED BY <1>1, <1>2, NoCallYet, SyncInvariant, PTL
        DEF Spec, ImplementsAdoptedChain, Promise!AdoptedSpec

-----------------------------------------------------------------------------
(* What a call began with is not lost: the work of a chain grows with it,  *)
(* by induction over its length.                                           *)

\* A set of naturals that is not empty has a least member, by WFMin.
LEMMA LeastNat ==
  ASSUME NEW T, T \subseteq Nat, T # {}
  PROVE  \E x \in T : \A y \in T : x <= y
<1> DEFINE R == OpToRel(<, Nat)
<1>1. IsWellFoundedOn(R, Nat)
  BY NatLessThanWellFounded
<1>2. \A p, q \in Nat : <<p, q>> \in R <=> p < q
  BY DEF OpToRel
<1> HIDE DEF R
<1>3. PICK x \in T : \A y \in T : ~(<<y, x>> \in R)
  BY <1>1, WFMin
<1>4. \A y \in T : x <= y
  <2> TAKE y \in T
  <2>1. x \in Nat /\ y \in Nat /\ ~(y < x)
    BY <1>2, <1>3
  <2> QED BY <2>1
<1> QED BY <1>3, <1>4

\* Induction over the naturals, of a set instead of a predicate.
LEMMA SetInduction ==
  ASSUME NEW S, 0 \in S, \A n \in Nat : n \in S => n + 1 \in S
  PROVE  Nat \subseteq S
<1> DEFINE T == Nat \ S
<1> SUFFICES ASSUME T # {} PROVE FALSE
  OBVIOUS
<1>1. PICK x \in T : \A y \in T : x <= y
  BY LeastNat
<1>2. x \in Nat /\ x # 0
  OBVIOUS
<1>3. x - 1 \in Nat /\ x - 1 + 1 = x
  BY <1>2
<1>4. x - 1 \in S
  BY <1>1, <1>3
<1> QED BY <1>3, <1>4

\* Every header of a valid chain adds work, so what extends a chain outweighs it.
LEMMA WorkGrows ==
  ASSUME NEW s \in Seq(Header), s # <<>>, NEW t \in Seq(Header), ValidChain(t),
         IsPrefixOf(s, t)
  PROVE  CumWork[Tip(s)] <= CumWork[Tip(t)]
<1> DEFINE n == Len(s)
           S == {k \in Nat : n + k <= Len(t) => CumWork[s[n]] <= CumWork[t[n + k]]}
<1>1. n \in Nat \ {0} /\ Len(t) \in Nat /\ n <= Len(t) /\ s[n] = t[n] /\ s[n] \in Header
  BY DEF IsPrefixOf
<1>2. \A i \in 1 .. Len(t) : t[i] \in Header /\ CumWork[t[i]] \in Nat
  <2> TAKE i \in 1 .. Len(t)
  <2>1. t[i] \in Header
    OBVIOUS
  <2> QED BY <2>1, HeaderTreeAssumption DEF HeaderTreeAssumption
<1>3. \A i \in 2 .. Len(t) : CumWork[t[i - 1]] <= CumWork[t[i]]
  <2> TAKE i \in 2 .. Len(t)
  <2>1. i - 1 \in 1 .. Len(t) /\ i \in 1 .. Len(t)
    BY <1>1
  <2>2. Parent[t[i]] = t[i - 1]
    BY DEF ValidChain, Consensus, Links
  <2>3. t[i] \in Header /\ t[i - 1] \in Header
    BY <1>2, <2>1
  <2>4. CumWork[t[i]] = CumWork[t[i - 1]] + WorkFromBits(Bits[t[i]])
    BY <2>2, <2>3, WorkAssumption DEF WorkAssumption
  <2>5. WorkFromBits(Bits[t[i]]) \in Nat /\ CumWork[t[i - 1]] \in Nat
    BY <1>2, <2>1, <2>3, WorkAssumption DEF WorkAssumption
  <2> QED BY <2>4, <2>5
<1>4. 0 \in S
  BY <1>1, <1>2
<1>5. ASSUME NEW k \in Nat, k \in S PROVE k + 1 \in S
  <2> SUFFICES ASSUME n + (k + 1) <= Len(t)
               PROVE  CumWork[s[n]] <= CumWork[t[n + (k + 1)]]
    OBVIOUS
  <2>1. n + k \in 1 .. Len(t) /\ n + (k + 1) \in 2 .. Len(t) /\ n + (k + 1) - 1 = n + k
        /\ n + (k + 1) \in 1 .. Len(t) /\ n \in 1 .. Len(t)
    BY <1>1
  <2>2. CumWork[s[n]] <= CumWork[t[n + k]]
    BY <1>5, <2>1
  <2>3. CumWork[t[n + k]] <= CumWork[t[n + (k + 1)]]
    BY <1>3, <2>1
  <2>4. CumWork[s[n]] \in Nat /\ CumWork[t[n + k]] \in Nat /\ CumWork[t[n + (k + 1)]] \in Nat
    BY <1>1, <1>2, <2>1
  <2> QED BY <2>2, <2>3, <2>4
<1>6. Nat \subseteq S
  <2> HIDE DEF S
  <2> QED BY <1>4, <1>5, SetInduction
<1>7. Len(t) - n \in Nat /\ n + (Len(t) - n) = Len(t)
  BY <1>1
<1>8. Len(t) - n \in S
  BY <1>6, <1>7
<1> QED BY <1>7, <1>8 DEF Tip

-----------------------------------------------------------------------------

\* What a call began with is still part of what is held.
BegunInv == \A s \in Syncers : sync[s].pc = "batch" => IsPrefixOf(begun[s], Held)

\* How a call comes to wait for headers.
LEMMA BatchAwaited ==
  ASSUME SyncInv, [Next]_vars, OneCaller, NEW s \in Syncers, sync'[s].pc = "batch"
  PROVE  \/ sync[s].pc = "batch" /\ begun'[s] = begun[s]
         \/ sync[s].pc = "tip" /\ begun'[s] = chain.headers
<1>1. Syncers = {s}
  BY DEF OneCaller
<1>2. sync \in [Syncers -> SyncState] /\ begun \in [Syncers -> Chains]
  BY DEF SyncInv, CallsOK
<1>3. ~AllStop /\ ~SyncReturns(s, "ok") /\ ~SyncReturns(s, "failed")
  BY <1>2 DEF AllStop, SyncReturns, Idle
<1>4. CASE Open \/ ClockTicks \/ UNCHANGED vars
  BY <1>4 DEF Open, ClockTicks, vars
<1>5. CASE SyncStart(s) \/ VersionAnswer(s)
  BY <1>2, <1>5 DEF SyncStart, VersionAnswer, SyncGoesOn, Idle, SyncState
<1>6. CASE \E serverTip \in 0..MaxServerTip : TipAnswer(s, serverTip)
  BY <1>2, <1>3, <1>6 DEF TipAnswer
<1>7. CASE RequestFails(s)
  BY <1>3, <1>7 DEF RequestFails, SyncThrows
<1>8. ASSUME NEW r, NEW c, NEW f, LoopOrEnd(s, r, c, f) PROVE begun'[s] = begun[s]
  BY <1>3, <1>8 DEF LoopOrEnd, RequestMore, ReturnUnforked, AdoptFork, RejectFork, SyncGoesOn
<1>9. CASE BatchAnswer(s)
  <2>1. sync[s].pc = "batch"
    BY <1>9 DEF BatchAnswer, BatchExtends, BatchStaged, BatchRewinds, BatchRefused, Answered
  <2>2. begun'[s] = begun[s]
    <3>1. PICK batch \in Batches :
            \/ BatchExtends(s, batch)
            \/ BatchStaged(s, batch)
            \/ BatchRewinds(s, batch)
            \/ BatchRefused(s, batch)
      BY <1>9 DEF BatchAnswer
    <3>2. CASE BatchExtends(s, batch)
      BY <1>3, <1>8, <3>2 DEF BatchExtends, VerifyCpAndLoop, SyncThrows
    <3>3. CASE BatchStaged(s, batch)
      BY <1>3, <1>8, <3>3 DEF BatchStaged, VerifyCpAndLoop, SyncThrows
    <3>4. CASE BatchRewinds(s, batch)
      BY <1>3, <1>8, <3>4 DEF BatchRewinds
    <3>5. CASE BatchRefused(s, batch)
      BY <1>3, <3>5 DEF BatchRefused, SyncThrows
    <3> QED BY <3>1, <3>2, <3>3, <3>4, <3>5
  <2> QED BY <2>1, <2>2
<1> QED BY <1>1, <1>3, <1>4, <1>5, <1>6, <1>7, <1>9 DEF Next, ProcessDies, RequestSettles

LEMMA BegunKept ==
  ASSUME OneCaller, NoDiskErrors, SyncInv, SyncInv', OneCallInv, BegunInv, [Next]_vars
  PROVE  BegunInv'
<1> SUFFICES ASSUME NEW s \in Syncers, sync'[s].pc = "batch"
             PROVE  IsPrefixOf(begun'[s], Held')
  BY DEF BegunInv
<1>1. Syncers = {s}
  BY DEF OneCaller
<1>2. up /\ up' /\ IsPrefixOf(Held, Held')
  <2>1. Simulated
    BY StepSimulated
  <2>2. up'
    BY <2>1 DEF Simulated, OneCallInv
  <2>3. sync[s].pc # "idle"
    BY BatchAwaited
  <2>4. up
    BY <2>3 DEF OneCallInv
  <2>5. sync'[s] # Idle("ok")
    BY DEF Idle
  <2> QED BY <2>1, <2>2, <2>4, <2>5 DEF Simulated, Kept
<1>3. IsPrefixOf(begun'[s], Held)
  <2>1. CASE sync[s].pc = "batch" /\ begun'[s] = begun[s]
    BY <2>1 DEF BegunInv
  <2>2. CASE sync[s].pc = "tip" /\ begun'[s] = chain.headers
    <3>1. ~sync[s].staging
      BY <2>2 DEF OneCallInv
    <3>2. Held = chain.headers /\ Held \in Seq(Header)
      BY <1>1, <1>2, <3>1, HeldFacts
    <3> QED BY <2>2, <3>2 DEF IsPrefixOf
  <2> QED BY <2>1, <2>2, BatchAwaited
<1>4. Len(begun'[s]) \in Nat /\ Len(Held) \in Nat
  BY <1>1, <1>2, HeldFacts DEF SyncInv, CallsOK, Chains
<1> QED BY <1>2, <1>3, <1>4 DEF IsPrefixOf

(***************************************************************************)
(* With one caller and no error of the file system, a call never leaves    *)
(* the chain with less than it found.                                      *)
(***************************************************************************)
THEOREM SyncAlwaysKeepsWork ==
  ASSUME OneCaller, NoDiskErrors
  PROVE  Spec => SyncNeverLosesWork
<1>1. Init => BegunInv
  BY DEF Init, BegunInv, Idle
<1>2. SyncInv /\ SyncInv' /\ OneCallInv /\ BegunInv /\ [Next]_vars => OneCallInv' /\ BegunInv'
  BY StepSimulated, BegunKept DEF Simulated
<1>3. SyncInv /\ SyncInv' /\ OneCallInv /\ BegunInv /\ [Next]_vars =>
        [\A s \in Syncers : SyncEnds(s) =>
           \/ IsPrefixOf(begun[s], chain'.headers)
           \/ /\ sync'[s].result = "ok"
              /\ chain'.work > CumWork[Tip(begun[s])]]_vars
  <2> SUFFICES ASSUME SyncInv, SyncInv', OneCallInv, BegunInv, [Next]_vars,
                      NEW s \in Syncers, SyncEnds(s)
               PROVE  \/ IsPrefixOf(begun[s], chain'.headers)
                      \/ /\ sync'[s].result = "ok"
                         /\ chain'.work > CumWork[Tip(begun[s])]
    OBVIOUS
  <2>1. Syncers = {s}
    BY DEF OneCaller
  <2>2. Simulated
    BY StepSimulated
  <2>3. up /\ up' /\ ~sync'[s].staging
    BY <2>2 DEF SyncEnds, Simulated, OneCallInv
  <2>4. Held' = chain'.headers /\ chain'.work = CumWork[Tip(chain'.headers)]
    BY <2>1, <2>3, HeldByCaller DEF Adopted, SyncInv, ChainInv, ChainSound, Sound
  <2>5. /\ IsPrefixOf(begun[s], Held)
        /\ begun[s] \in Seq(Header) /\ begun[s] # <<>>
        /\ Held \in Seq(Header) /\ Held # <<>> /\ ValidChain(Held)
    BY <2>1, <2>3, HeldFacts DEF BegunInv, SyncEnds, SyncInv, CallsOK, Chains
  <2>6. CASE IsPrefixOf(Held, Held')
    <3>1. Len(begun[s]) \in Nat /\ Len(Held) \in Nat
      BY <2>5
    <3>2. IsPrefixOf(begun[s], Held')
      BY <2>5, <2>6, <3>1 DEF IsPrefixOf
    <3> QED BY <2>4, <3>2
  <2>7. CASE WorkOf(Held') > WorkOf(Held) /\ sync'[s] = Idle("ok")
    <3>1. chain'.work > CumWork[Tip(Held)]
      BY <2>4, <2>7 DEF WorkOf
    <3>2. CumWork[Tip(begun[s])] <= CumWork[Tip(Held)]
      BY <2>5, WorkGrows
    <3>3. Tip(begun[s]) \in Header /\ Tip(Held) \in Header
      BY <2>5 DEF Tip
    <3>4. CumWork[Tip(begun[s])] \in Int /\ CumWork[Tip(Held)] \in Int
      BY <3>3, HeaderTreeAssumption DEF HeaderTreeAssumption
    <3>5. chain'.work \in Int
      BY DEF SyncInv, ChainInv, ChainTypeOK, ChainState
    <3>6. chain'.work > CumWork[Tip(begun[s])]
      BY <3>1, <3>2, <3>4, <3>5
    <3> QED BY <2>7, <3>6 DEF Idle
  <2> QED BY <2>2, <2>3, <2>6, <2>7 DEF Simulated, Kept
<1> QED BY <1>1, <1>2, <1>3, NoCallYet, SyncInvariant, PTL DEF Spec, SyncNeverLosesWork

-----------------------------------------------------------------------------
(* The pinned checkpoint.  A request is made for heights above the chain   *)
(* and up to the claimed tip: if that is not above the pinned height, no   *)
(* batch goes without its branch.                                          *)

AsksForPinned(r, c) ==
  /\ TipHeight(c.headers) < r.serverTip
  /\ r.serverTip <= TipHeight(Pinned) => r.useCp

PinInv ==
  \A s \in Syncers :
    /\ ~up => sync[s].pc = "idle"
    /\ sync[s].pc = "batch" => AsksForPinned(sync[s], chain)

LEMMA RequestPins ==
  ASSUME NEW r \in SyncState, NEW c \in ChainState, TipHeight(c.headers) < r.serverTip
  PROVE  AsksForPinned(Request(r, c), c)
<1> DEFINE h == TipHeight(c.headers)
           count == IF r.serverTip - h < BatchSize THEN r.serverTip - h ELSE BatchSize
           cp == Pinned # <<>> /\ h + count <= TipHeight(Pinned)
<1>1. h \in Int /\ h >= BaseHeight /\ BaseHeight \in Nat /\ h < r.serverTip
  <2>1. Len(c.headers) \in Nat \ {0}
    BY DEF ChainState, Chains
  <2> QED BY <2>1, HeaderTreeAssumption DEF TipHeight, HeightOf, HeaderTreeAssumption
<1>2. r.serverTip \in Int /\ BatchSize \in Nat
  BY SyncAssumption DEF SyncState
<1>3. count \in Int /\ h + count <= r.serverTip
  BY <1>1, <1>2
<1>4. TipHeight(Pinned) \in Int /\ (Pinned = <<>> => TipHeight(Pinned) < BaseHeight)
  <2>1. Len(Pinned) \in Nat /\ (Pinned = <<>> => Len(Pinned) = 0)
    BY SyncAssumption DEF SyncAssumption
  <2> QED BY <1>1, <2>1 DEF TipHeight, HeightOf
<1>5. Request(r, c) = [r EXCEPT !.pc = "batch", !.count = count, !.useCp = cp]
  BY DEF Request
<1>6. r.serverTip <= TipHeight(Pinned) => cp
  <2> HIDE DEF h, count
  <2> QED BY <1>1, <1>2, <1>3, <1>4
<1> HIDE DEF count, cp
<1>7. Request(r, c).serverTip = r.serverTip /\ Request(r, c).useCp = cp
  BY <1>5 DEF SyncState
<1> QED BY <1>6, <1>7 DEF AsksForPinned

\* A rewind leaves the chain below the claimed tip: it never ends a call.
LEMMA RewindAsksOn ==
  ASSUME OneCaller, SyncInv, PinInv, NEW s \in Syncers, NEW batch \in Batches,
         BatchRewinds(s, batch)
  PROVE  sync'[s].pc = "batch" /\ AsksForPinned(sync'[s], chain')
<1> DEFINE r == [sync[s] EXCEPT !.rewinds = @ + 1, !.staging = TRUE,
                   !.preFork = IF sync[s].staging THEN @ ELSE chain]
           c == Rewound(chain, TipHeight(chain.headers) - 1)
           d == IF Len(chain.headers) = 1 THEN chain ELSE Unsaved(c)
<1>1. /\ sync \in [Syncers -> SyncState] /\ sync[s] \in SyncState
      /\ chain \in ChainState /\ Sound(chain)
      /\ TipHeight(chain.headers) < sync[s].serverTip
      /\ LoopOrEnd(s, r, d, file)
  BY DEF SyncInv, CallsOK, ChainInv, ChainTypeOK, ChainSound, PinInv, AsksForPinned,
         BatchRewinds, Answered
<1>2. r \in SyncState /\ r.serverTip = sync[s].serverTip
  <2> DEFINE q == sync[s]
             p == IF q.staging THEN q.preFork ELSE chain
  <2>1. q \in SyncState /\ q.rewinds + 1 \in Nat /\ p \in ChainState
    BY <1>1 DEF SyncState
  <2>2. r = [q EXCEPT !.rewinds = q.rewinds + 1, !.staging = TRUE, !.preFork = p]
    OBVIOUS
  <2> HIDE DEF p, r
  <2>3. r \in SyncState /\ r.serverTip = q.serverTip
    <3> HIDE DEF q
    <3> QED BY <2>1, <2>2 DEF SyncState
  <2> QED BY <2>3
<1>3. d \in ChainState /\ TipHeight(d.headers) < sync[s].serverTip
  <2>1. CASE Len(chain.headers) = 1
    BY <1>1, <2>1
  <2>2. CASE Len(chain.headers) # 1
    <3>1. /\ c \in ChainState /\ Sound(c)
          /\ c.headers = SubSeq(chain.headers, 1, Len(chain.headers) - 1)
      BY <1>1, <2>2, RewoundByOne
    <3> HIDE DEF c
    <3>2. Unsaved(c) \in ChainState /\ Unsaved(c).headers = c.headers
      BY <3>1, FlagSound
    <3>3. chain.headers \in Seq(Header) /\ Len(chain.headers) \in Nat \ {0}
      BY <1>1 DEF ChainState, Chains
    <3>4. Len(c.headers) = Len(chain.headers) - 1
      <4>1. \A x \in Seq(Header) : \A k \in 0 .. Len(x) : Len(SubSeq(x, 1, k)) = k
        OBVIOUS
      <4>2. Len(chain.headers) - 1 \in 0 .. Len(chain.headers)
        BY <3>3
      <4> QED BY <3>1, <3>3, <4>1, <4>2
    <3>5. \A m \in Nat : \A k \in Int : HeightOf(m) < k => HeightOf(m - 1) < k
      BY HeaderTreeAssumption DEF HeaderTreeAssumption, HeightOf
    <3>6. sync[s].serverTip \in Int
      BY <1>1 DEF SyncState
    <3>7. HeightOf(Len(chain.headers)) < sync[s].serverTip
      BY <1>1 DEF TipHeight
    <3>8. HeightOf(Len(c.headers)) < sync[s].serverTip
      BY <3>3, <3>4, <3>5, <3>6, <3>7
    <3> QED BY <2>2, <3>2, <3>8 DEF TipHeight
  <2> QED BY <2>1, <2>2
<1> HIDE DEF r, d
<1>4. TipHeight(d.headers) \in Int /\ r.serverTip \in Int
  <2>1. Len(d.headers) \in Nat
    BY <1>3 DEF ChainState, Chains
  <2> QED BY <1>2, <2>1, HeaderTreeAssumption
          DEF TipHeight, HeightOf, HeaderTreeAssumption, SyncState
<1>5. RequestMore(s, r, d, file)
  BY <1>1, <1>2, <1>3, <1>4 DEF LoopOrEnd
<1>6. sync'[s] = Request(r, d) /\ chain' = d
  BY <1>1, <1>5 DEF RequestMore, SyncGoesOn
<1>7. Request(r, d).pc = "batch"
  BY <1>2 DEF Request, SyncState
<1> QED BY <1>2, <1>3, <1>6, <1>7, RequestPins

\* How the loop goes on or ends.
LEMMA LoopPins ==
  ASSUME NEW s \in Syncers, sync \in [Syncers -> SyncState],
         NEW r \in SyncState, NEW c \in ChainState, NEW f, LoopOrEnd(s, r, c, f)
  PROVE  /\ sync'[s].pc = "batch" => AsksForPinned(sync'[s], chain')
         /\ sync'[s].pc = "idle" /\ sync'[s].result = "ok" => chain'.headers = c.headers
         /\ up' = up \/ sync'[s].pc = "idle"
<1>1. CASE RequestMore(s, r, c, f)
  <2>1. sync'[s] = Request(r, c) /\ chain' = c /\ up' = up
    BY <1>1 DEF RequestMore, SyncGoesOn
  <2>2. AsksForPinned(Request(r, c), c)
    BY <1>1, RequestPins DEF RequestMore
  <2>3. Request(r, c).pc = "batch"
    BY DEF Request, SyncState
  <2> QED BY <2>1, <2>2, <2>3
<1>2. CASE ReturnUnforked(s, r, c, f)
  BY <1>2 DEF ReturnUnforked, SyncReturns, Idle
<1>3. CASE RejectFork(s, r, c, f)
  BY <1>3 DEF RejectFork, SyncReturns, Idle
<1>4. CASE AdoptFork(s, r, c, f)
  <2>1. CASE chain' = Saved(c) /\ up' = up /\ SyncReturns(s, "ok")
    <3>1. Saved(c).headers = c.headers
      BY DEF Saved, ChainState
    <3> QED BY <2>1, <3>1 DEF SyncReturns, Idle
  <2>2. CASE up' = up /\ SyncReturns(s, "failed")
    BY <2>2 DEF SyncReturns, Idle
  <2>3. CASE AllStop
    BY <2>3 DEF AllStop, Idle
  <2> QED BY <1>4, <2>1, <2>2, <2>3 DEF AdoptFork
<1> QED BY <1>1, <1>2, <1>3, <1>4 DEF LoopOrEnd

\* An answer that ends a call well leaves the tip where the branch proves it.
LEMMA AnswerPins ==
  ASSUME OneCaller, SyncInv, PinInv, NEW s \in Syncers, BatchAnswer(s)
  PROVE  /\ sync[s].pc = "batch"
         /\ sync'[s].pc = "batch" => AsksForPinned(sync'[s], chain')
         /\ sync'[s].pc = "idle" /\ sync'[s].result = "ok" /\ sync[s].useCp
              => OnPinned(chain')
         /\ up' = up \/ sync'[s].pc = "idle"
<1>1. sync[s].pc = "batch"
  BY DEF BatchAnswer, BatchExtends, BatchStaged, BatchRewinds, BatchRefused, Answered
<1>2. sync \in [Syncers -> SyncState] /\ sync[s] \in SyncState /\ chain \in ChainState
  BY DEF SyncInv, CallsOK, ChainInv, ChainTypeOK
<1>3. ASSUME NEW c, SyncThrows(s, c) PROVE sync'[s] = Idle("failed")
  BY <1>2, <1>3 DEF SyncThrows, SyncReturns
<1>4. ASSUME AllStop PROVE sync'[s] = Idle("none")
  BY <1>4 DEF AllStop
<1>5. /\ Idle("failed").pc = "idle" /\ Idle("failed").result = "failed"
      /\ Idle("none").pc = "idle" /\ Idle("none").result = "none"
  BY DEF Idle
<1>6. ASSUME NEW c \in ChainState, NEW f, VerifyCpAndLoop(s, c, f)
      PROVE  /\ sync'[s].pc = "batch" => AsksForPinned(sync'[s], chain')
             /\ sync'[s].pc = "idle" /\ sync'[s].result = "ok" /\ sync[s].useCp
                  => OnPinned(chain')
             /\ up' = up \/ sync'[s].pc = "idle"
  <2>1. CASE (sync[s].useCp => OnPinned(c)) /\ LoopOrEnd(s, sync[s], c, f)
    BY <1>2, <2>1, LoopPins DEF OnPinned
  <2>2. CASE SyncThrows(s, c)
    BY <1>3, <1>5, <2>2
  <2> QED BY <1>6, <2>1, <2>2 DEF VerifyCpAndLoop
<1>7. PICK batch \in Batches :
        \/ BatchExtends(s, batch)
        \/ BatchStaged(s, batch)
        \/ BatchRewinds(s, batch)
        \/ BatchRefused(s, batch)
  BY DEF BatchAnswer
<1> DEFINE c == AfterAppend(chain, batch)
<1>8. ASSUME Answered(s, batch, "ok")
      PROVE  Saved(c) \in ChainState /\ Unsaved(c) \in ChainState
  <2>1. c \in ChainState /\ Sound(c)
    BY <1>8, BatchIsSeq, AppendSound
       DEF Answered, SyncInv, ChainInv, ChainTypeOK, ChainSound
  <2> HIDE DEF c
  <2> QED BY <2>1, FlagSound
<1>9. CASE BatchExtends(s, batch)
  BY <1>1, <1>3, <1>4, <1>5, <1>6, <1>8, <1>9 DEF BatchExtends
<1>10. CASE BatchStaged(s, batch)
  BY <1>1, <1>6, <1>8, <1>10 DEF BatchStaged
<1>11. CASE BatchRewinds(s, batch)
  <2>1. sync'[s].pc = "batch" /\ AsksForPinned(sync'[s], chain')
    BY <1>11, RewindAsksOn
  <2>2. up' = up \/ sync'[s].pc = "idle"
    <3>1. ASSUME NEW r, NEW d, NEW f, LoopOrEnd(s, r, d, f)
          PROVE  up' = up \/ sync'[s].pc = "idle"
      BY <1>4, <1>5, <3>1 DEF LoopOrEnd, RequestMore, ReturnUnforked, AdoptFork, RejectFork
    <3> QED BY <1>11, <3>1 DEF BatchRewinds
  <2> QED BY <1>1, <2>1, <2>2
<1>12. CASE BatchRefused(s, batch)
  BY <1>1, <1>3, <1>5, <1>12 DEF BatchRefused
<1> QED BY <1>7, <1>9, <1>10, <1>11, <1>12

LEMMA PinKept ==
  ASSUME OneCaller, SyncInv, PinInv, [Next]_vars
  PROVE  PinInv'
<1>1. PICK s \in Syncers : Syncers = {s}
  BY DEF OneCaller
<1>2. sync \in [Syncers -> SyncState] /\ sync[s] \in SyncState /\ chain \in ChainState
  BY DEF SyncInv, CallsOK, ChainInv, ChainTypeOK
<1>3. SUFFICES /\ ~up' => sync'[s].pc = "idle"
               /\ sync'[s].pc = "batch" => AsksForPinned(sync'[s], chain')
  BY <1>1 DEF PinInv
<1>4. CASE Open
  <2>1. ~up \/ UNCHANGED chainVars
    BY <1>4 DEF Open, OpenFile, OpenNew, OpenRefused
  <2> QED BY <1>4, <2>1 DEF Open, chainVars, PinInv
<1>5. CASE ProcessDies
  BY <1>5 DEF ProcessDies, AllStop, Idle
<1>6. CASE ClockTicks \/ UNCHANGED vars
  BY <1>6 DEF ClockTicks, Tick, vars, chainVars, PinInv
<1>7. CASE SyncStart(s) \/ VersionAnswer(s)
  BY <1>2, <1>7 DEF SyncStart, VersionAnswer, SyncGoesOn, Idle, SyncState, chainVars, PinInv
<1>8. CASE \E serverTip \in 0..MaxServerTip : TipAnswer(s, serverTip)
  <2>1. PICK serverTip \in 0..MaxServerTip : TipAnswer(s, serverTip)
    BY <1>8
  <2> DEFINE r == [sync[s] EXCEPT !.serverTip = serverTip]
  <2>2. serverTip \in Int
    BY SyncAssumption
  <2>3. r \in SyncState /\ r.serverTip = serverTip
    BY <1>2, <2>2 DEF SyncState
  <2>4. chain' = chain /\ up' = up /\ up
    BY <2>1 DEF TipAnswer, PinInv
  <2>5. CASE TipHeight(chain.headers) < serverTip /\ sync' = [sync EXCEPT ![s] = Request(r, chain)]
    <3> HIDE DEF r
    <3>1. AsksForPinned(Request(r, chain), chain)
      BY <1>2, <2>3, <2>5, RequestPins
    <3> QED BY <1>2, <2>4, <2>5, <3>1
  <2>6. CASE SyncReturns(s, "ok")
    BY <1>2, <2>6 DEF SyncReturns, Idle
  <2> QED BY <2>1, <2>5, <2>6 DEF TipAnswer
<1>9. CASE RequestFails(s)
  BY <1>2, <1>9 DEF RequestFails, SyncThrows, SyncReturns, Idle
<1>10. CASE BatchAnswer(s)
  BY <1>10, AnswerPins DEF PinInv
<1> QED BY <1>1, <1>4, <1>5, <1>6, <1>7, <1>8, <1>9, <1>10 DEF Next, RequestSettles

(***************************************************************************)
(* With one caller, whatever fails: a call that returns, having had to     *)
(* fetch headers all of which lie at or below the pinned height, leaves    *)
(* the tip on the pinned chain.                                            *)
(***************************************************************************)
THEOREM SyncAlwaysPinned ==
  ASSUME OneCaller
  PROVE  Spec => PinnedSyncIsPinned
<1>1. Init => PinInv
  BY DEF Init, PinInv, Idle
<1>2. SyncInv /\ PinInv /\ [Next]_vars => PinInv'
  BY PinKept
<1>3. SyncInv /\ PinInv /\ [Next]_vars =>
        [\A s \in Syncers :
           SyncEnds(s) /\ sync'[s].result = "ok" /\ sync[s].serverTip <= TipHeight(Pinned)
             => OnPinned(chain')]_vars
  <2> SUFFICES ASSUME SyncInv, PinInv, [Next]_vars, NEW s \in Syncers,
                      SyncEnds(s), sync'[s].result = "ok",
                      sync[s].serverTip <= TipHeight(Pinned)
               PROVE  OnPinned(chain')
    OBVIOUS
  <2>1. Syncers = {s}
    BY DEF OneCaller
  <2>2. sync[s].pc = "batch" /\ sync'[s].pc = "idle" /\ up' /\ sync[s].useCp
    BY DEF SyncEnds, PinInv, AsksForPinned
  <2>3. sync \in [Syncers -> SyncState]
    BY DEF SyncInv, CallsOK
  <2>4. CASE BatchAnswer(s)
    BY <2>2, <2>4, AnswerPins
  <2>5. CASE RequestFails(s)
    BY <2>3, <2>5 DEF RequestFails, SyncThrows, SyncReturns, Idle
  <2>6. ~ProcessDies
    BY <2>2 DEF ProcessDies, Crash, Dies
  <2>7. ~Open /\ ~ClockTicks /\ ~UNCHANGED vars
    BY <2>2 DEF Open, ClockTicks, vars
  <2>8. ~SyncStart(s) /\ ~VersionAnswer(s) /\ \A t : ~TipAnswer(s, t)
    BY <2>2 DEF SyncStart, VersionAnswer, TipAnswer
  <2> QED BY <2>1, <2>4, <2>5, <2>6, <2>7, <2>8 DEF Next, RequestSettles
<1> QED BY <1>1, <1>2, <1>3, SyncInvariant, PTL DEF Spec, PinnedSyncIsPinned

-----------------------------------------------------------------------------
(* A call runs down.  An answer that does not end it makes the chain       *)
(* longer, towards the tip the server claimed once, or costs a rewind; so  *)
(* the rewinds left, and after them the headers left, count its requests.  *)

Height(c) == TipHeight(c.headers)

\* More than the headers a call may have to fetch after one rewind.
MostHeaders(r) == r.serverTip - BaseHeight + 1

\* The requests a call with the variables r may still make on the chain c.
RequestsLeft(r, c) ==
  (MaxReorg - r.rewinds) * MostHeaders(r) + (r.serverTip - Height(c))

RewindsInv == PinInv /\ \A s \in Syncers : sync[s].rewinds <= MaxReorg

LEMMA HeightFacts ==
  ASSUME NEW c \in ChainState
  PROVE  /\ Len(c.headers) \in Nat \ {0} /\ BaseHeight \in Nat
         /\ Height(c) \in Int /\ Height(c) >= BaseHeight
         /\ Height(c) = BaseHeight + Len(c.headers) - 1
<1>1. Len(c.headers) \in Nat \ {0}
  BY DEF ChainState, Chains
<1> QED BY <1>1, HeaderTreeAssumption DEF Height, TipHeight, HeightOf, HeaderTreeAssumption

\* m, n: rewinds left; k, l: headers left of some below K.
LEMMA RewindsFirst ==
  ASSUME NEW m \in Nat, NEW n \in Nat, NEW K \in Nat, NEW k \in 0 .. K - 1,
         NEW l \in 0 .. K - 1, n < m \/ (n = m /\ l < k)
  PROVE  /\ m * K + k \in Nat /\ n * K + l \in Nat
         /\ n * K + l < m * K + k
<1>1. m * K \in Nat /\ n * K \in Nat
  BY Z3
<1>2. CASE n < m
  <2>1. (n + 1) * K <= m * K
    BY <1>2, Z3
  <2>2. (n + 1) * K = n * K + K
    BY Z3
  <2> QED BY <1>1, <2>1, <2>2
<1>3. CASE n = m /\ l < k
  BY <1>1, <1>3
<1> QED BY <1>1, <1>2, <1>3

\* A call that has headers to fetch has so many requests left, and not none.
LEMMA RequestsLeftCounts ==
  ASSUME NEW r \in SyncState, NEW c \in ChainState, r.rewinds <= MaxReorg,
         Height(c) < r.serverTip
  PROVE  /\ MostHeaders(r) \in Nat /\ MaxReorg - r.rewinds \in Nat
         /\ r.serverTip - Height(c) \in 1 .. MostHeaders(r) - 1
         /\ RequestsLeft(r, c) \in Nat \ {0}
<1>1. r.serverTip \in Int /\ r.rewinds \in Nat /\ MaxReorg \in Nat
  BY SyncAssumption DEF SyncState
<1>2. BaseHeight \in Nat /\ Height(c) \in Int /\ Height(c) >= BaseHeight
  BY HeightFacts
<1>3. /\ MostHeaders(r) \in Nat /\ MaxReorg - r.rewinds \in Nat
      /\ r.serverTip - Height(c) \in 1 .. MostHeaders(r) - 1
  BY <1>1, <1>2 DEF MostHeaders
<1> DEFINE m == MaxReorg - r.rewinds
           k == r.serverTip - Height(c)
           K == MostHeaders(r)
<1>4. m \in Nat /\ K \in Nat /\ k \in 1 .. K - 1
  BY <1>3
<1>5. RequestsLeft(r, c) = m * K + k
  BY DEF RequestsLeft
<1> HIDE DEF m, k, K
<1>6. m * K \in Nat
  BY <1>4, Z3
<1>7. RequestsLeft(r, c) \in Nat \ {0}
  BY <1>4, <1>5, <1>6
<1> QED BY <1>3, <1>7

\* A longer chain leaves fewer, a rewind too, whatever it does to the chain.
LEMMA FewerRequestsLeft ==
  ASSUME NEW r \in SyncState, NEW c \in ChainState, r.rewinds <= MaxReorg,
         Height(c) < r.serverTip,
         NEW q \in SyncState, NEW d \in ChainState, q.rewinds <= MaxReorg,
         Height(d) < q.serverTip, q.serverTip = r.serverTip,
         \/ q.rewinds = r.rewinds /\ Len(d.headers) > Len(c.headers)
         \/ q.rewinds = r.rewinds + 1
  PROVE  RequestsLeft(q, d) < RequestsLeft(r, c)
<1> DEFINE m == MaxReorg - r.rewinds
           n == MaxReorg - q.rewinds
           k == r.serverTip - Height(c)
           l == q.serverTip - Height(d)
           K == MostHeaders(r)
<1>1. /\ m \in Nat /\ n \in Nat /\ K \in Nat /\ k \in 1 .. K - 1
      /\ l \in 1 .. K - 1
  <2>1. MostHeaders(q) = K
    BY DEF MostHeaders
  <2> QED BY <2>1, RequestsLeftCounts
<1>2. n < m \/ (n = m /\ l < k)
  <2>1. /\ Height(c) = BaseHeight + Len(c.headers) - 1
        /\ Height(d) = BaseHeight + Len(d.headers) - 1
        /\ Len(c.headers) \in Nat /\ Len(d.headers) \in Nat /\ BaseHeight \in Nat
    BY HeightFacts
  <2>2. r.serverTip \in Int /\ r.rewinds \in Nat /\ q.rewinds \in Nat /\ MaxReorg \in Nat
    BY SyncAssumption DEF SyncState
  <2>3. CASE q.rewinds = r.rewinds + 1
    BY <2>2, <2>3
  <2>4. CASE q.rewinds = r.rewinds /\ Len(d.headers) > Len(c.headers)
    <3>1. Height(d) > Height(c)
      BY <2>1, <2>4
    <3>2. Height(c) \in Int /\ Height(d) \in Int
      BY HeightFacts
    <3> QED BY <2>2, <2>4, <3>1, <3>2
  <2> QED BY <2>3, <2>4
<1>3. RequestsLeft(r, c) = m * K + k /\ RequestsLeft(q, d) = n * K + l
  BY DEF RequestsLeft, MostHeaders
<1> HIDE DEF m, n, k, l, K
<1>4. k \in 0 .. K - 1 /\ l \in 0 .. K - 1
  BY <1>1
<1>5. n * K + l < m * K + k
  BY <1>1, <1>2, <1>4, RewindsFirst
<1> QED BY <1>3, <1>5

\* If the loop asks for more, it is with the variables and the chain it came with.
LEMMA LoopAsksOn ==
  ASSUME NEW s \in Syncers, sync \in [Syncers -> SyncState], NEW r \in SyncState,
         NEW c, NEW f, LoopOrEnd(s, r, c, f)
  PROVE  \/ /\ sync'[s].pc = "batch" /\ chain' = c
            /\ sync'[s].serverTip = r.serverTip /\ sync'[s].rewinds = r.rewinds
         \/ sync'[s].pc = "idle" /\ sync'[s].rewinds = 0
<1>1. CASE RequestMore(s, r, c, f)
  <2>1. sync'[s] = Request(r, c) /\ chain' = c
    BY <1>1 DEF RequestMore, SyncGoesOn
  <2>2. /\ Request(r, c).pc = "batch" /\ Request(r, c).serverTip = r.serverTip
        /\ Request(r, c).rewinds = r.rewinds
    BY DEF Request, SyncState
  <2> QED BY <2>1, <2>2
<1>2. CASE ReturnUnforked(s, r, c, f) \/ RejectFork(s, r, c, f)
  BY <1>2 DEF ReturnUnforked, RejectFork, SyncReturns, Idle
<1>3. CASE AdoptFork(s, r, c, f)
  BY <1>3 DEF AdoptFork, SyncReturns, AllStop, Idle
<1> QED BY <1>1, <1>2, <1>3 DEF LoopOrEnd

\* What an answer does to a call that it does not end.
AnswerProgress(s) ==
  \/ /\ sync'[s].pc = "batch" /\ sync'[s].serverTip = sync[s].serverTip
     /\ \/ /\ sync'[s].rewinds = sync[s].rewinds
           /\ Len(chain'.headers) > Len(chain.headers)
        \/ /\ sync'[s].rewinds = sync[s].rewinds + 1
           /\ sync[s].rewinds < MaxReorg
  \/ sync'[s].pc = "idle" /\ sync'[s].rewinds = 0

LEMMA AnswerRunsDown ==
  ASSUME SyncInv, NEW s \in Syncers, BatchAnswer(s)
  PROVE  AnswerProgress(s)
<1>1. sync \in [Syncers -> SyncState] /\ sync[s] \in SyncState /\ chain \in ChainState
  BY DEF SyncInv, CallsOK, ChainInv, ChainTypeOK
<1>2. /\ \A c : SyncThrows(s, c) => sync'[s].pc = "idle" /\ sync'[s].rewinds = 0
      /\ AllStop => sync'[s].pc = "idle" /\ sync'[s].rewinds = 0
  BY <1>1 DEF SyncThrows, SyncReturns, AllStop, Idle
<1>3. PICK batch \in Batches :
        \/ BatchExtends(s, batch)
        \/ BatchStaged(s, batch)
        \/ BatchRewinds(s, batch)
        \/ BatchRefused(s, batch)
  BY DEF BatchAnswer
<1> DEFINE c == AfterAppend(chain, batch)
<1>4. ASSUME Answered(s, batch, "ok")
      PROVE  /\ Len(Saved(c).headers) > Len(chain.headers)
             /\ Len(Unsaved(c).headers) > Len(chain.headers)
  <2>1. c \in ChainState /\ Sound(c)
    BY <1>4, BatchIsSeq, AppendSound
       DEF Answered, SyncInv, ChainInv, ChainTypeOK, ChainSound
  <2>2. Len(c.headers) > Len(chain.headers)
    <3>1. batch \in Seq(Header) /\ Len(batch) > 0 /\ batch # <<>>
      BY MaxBatchAssumption DEF Batches
    <3>2. chain.headers \in Seq(Header)
      BY <1>1 DEF ChainState, Chains
    <3>3. c.headers = chain.headers \o batch
      BY <1>1, <3>1 DEF AfterAppend, ChainState
    <3> HIDE DEF c
    <3>4. Len(c.headers) = Len(chain.headers) + Len(batch)
      BY <3>1, <3>2, <3>3
    <3>5. Len(chain.headers) \in Nat /\ Len(batch) \in Nat
      BY <3>1, <3>2
    <3> QED BY <3>1, <3>4, <3>5
  <2> HIDE DEF c
  <2> QED BY <2>1, <2>2, FlagSound
<1>5. ASSUME NEW d, NEW f, VerifyCpAndLoop(s, d, f), Len(d.headers) > Len(chain.headers)
      PROVE  AnswerProgress(s)
  <2>1. CASE LoopOrEnd(s, sync[s], d, f)
    BY <1>1, <1>5, <2>1, LoopAsksOn DEF AnswerProgress
  <2>2. CASE SyncThrows(s, d)
    BY <1>2, <2>2 DEF AnswerProgress
  <2> QED BY <1>5, <2>1, <2>2 DEF VerifyCpAndLoop
<1> HIDE DEF c
<1>6. CASE BatchExtends(s, batch)
  BY <1>2, <1>4, <1>5, <1>6 DEF BatchExtends, AnswerProgress, c
<1>7. CASE BatchStaged(s, batch)
  BY <1>4, <1>5, <1>7 DEF BatchStaged, c
<1>8. CASE BatchRewinds(s, batch)
  <2> DEFINE q == sync[s]
             p == IF q.staging THEN q.preFork ELSE chain
             r == [q EXCEPT !.rewinds = q.rewinds + 1, !.staging = TRUE, !.preFork = p]
  <2>1. q \in SyncState /\ q.rewinds + 1 \in Nat /\ p \in ChainState
    BY <1>1 DEF SyncState
  <2>2. PICK d, f : LoopOrEnd(s, r, d, f)
    BY <1>8 DEF BatchRewinds
  <2>3. q.rewinds < MaxReorg
    BY <1>8 DEF BatchRewinds
  <2> HIDE DEF p, q
  <2>4. r \in SyncState /\ r.serverTip = q.serverTip /\ r.rewinds = q.rewinds + 1
    BY <2>1 DEF SyncState
  <2> HIDE DEF r
  <2> QED BY <1>1, <2>2, <2>3, <2>4, LoopAsksOn DEF AnswerProgress, q
<1>9. CASE BatchRefused(s, batch)
  BY <1>2, <1>9 DEF BatchRefused, AnswerProgress
<1> QED BY <1>3, <1>6, <1>7, <1>8, <1>9

LEMMA RewindsKept ==
  ASSUME OneCaller, SyncInv, RewindsInv, [Next]_vars
  PROVE  RewindsInv'
<1>1. PinInv'
  BY PinKept DEF RewindsInv
<1>2. PICK s \in Syncers : Syncers = {s}
  BY DEF OneCaller
<1>3. sync \in [Syncers -> SyncState] /\ sync[s] \in SyncState /\ MaxReorg \in Nat
  BY SyncAssumption DEF SyncInv, CallsOK
<1>4. sync[s].rewinds <= MaxReorg /\ sync[s].rewinds \in Nat
  BY <1>3 DEF RewindsInv, SyncState
<1>5. SUFFICES sync'[s].rewinds <= MaxReorg
  BY <1>1, <1>2 DEF RewindsInv
<1>6. CASE sync' = sync
  BY <1>4, <1>6
<1>7. CASE sync'[s].rewinds = 0
  BY <1>3, <1>7
<1>8. ASSUME Open \/ ClockTicks \/ UNCHANGED vars PROVE sync' = sync
  BY <1>8 DEF Open, ClockTicks, vars
<1>9. ASSUME ProcessDies \/ SyncStart(s) \/ RequestFails(s) PROVE sync'[s].rewinds = 0
  BY <1>3, <1>9 DEF ProcessDies, AllStop, SyncStart, SyncGoesOn, RequestFails,
                    SyncThrows, SyncReturns, Idle
<1>10. CASE VersionAnswer(s)
  <2>1. sync'[s].rewinds = sync[s].rewinds
    BY <1>3, <1>10 DEF VersionAnswer, SyncGoesOn, SyncState
  <2> QED BY <1>4, <2>1
<1>11. CASE \E serverTip \in 0..MaxServerTip : TipAnswer(s, serverTip)
  <2>1. PICK serverTip \in 0..MaxServerTip : TipAnswer(s, serverTip)
    BY <1>11
  <2> DEFINE r == [sync[s] EXCEPT !.serverTip = serverTip]
  <2>2. r \in SyncState /\ r.rewinds = sync[s].rewinds
    <3>1. serverTip \in Int
      BY SyncAssumption
    <3> QED BY <1>3, <3>1 DEF SyncState
  <2>3. CASE sync' = [sync EXCEPT ![s] = Request(r, chain)]
    <3> HIDE DEF r
    <3>1. Request(r, chain).rewinds = r.rewinds
      BY <2>2 DEF Request, SyncState
    <3> QED BY <1>3, <1>4, <2>2, <2>3, <3>1
  <2>4. CASE SyncReturns(s, "ok")
    BY <1>3, <2>4 DEF SyncReturns, Idle
  <2> QED BY <2>1, <2>3, <2>4 DEF TipAnswer
<1>12. CASE BatchAnswer(s)
  <2>1. AnswerProgress(s)
    BY <1>12, AnswerRunsDown
  <2>2. \/ sync'[s].rewinds \in {0, sync[s].rewinds}
        \/ sync[s].rewinds < MaxReorg /\ sync'[s].rewinds = sync[s].rewinds + 1
    BY <2>1 DEF AnswerProgress
  <2> QED BY <1>3, <1>4, <2>2
<1> QED BY <1>2, <1>6, <1>7, <1>8, <1>9, <1>10, <1>11, <1>12 DEF Next, RequestSettles

LEMMA RewindsInvariant == ASSUME OneCaller PROVE Spec => []RewindsInv
<1>1. Init => RewindsInv
  BY SyncAssumption DEF Init, RewindsInv, PinInv, Idle
<1>2. SyncInv /\ RewindsInv /\ [Next]_vars => RewindsInv'
  BY RewindsKept
<1> QED BY <1>1, <1>2, SyncInvariant, PTL DEF Spec

Fetching(s) == sync[s].pc = "batch"

LEMMA FetchingCounts ==
  ASSUME SyncInv, RewindsInv, NEW s \in Syncers, Fetching(s)
  PROVE  /\ sync[s] \in SyncState /\ chain \in ChainState
         /\ sync[s].rewinds <= MaxReorg /\ Height(chain) < sync[s].serverTip
BY DEF SyncInv, CallsOK, ChainInv, ChainTypeOK, RewindsInv, PinInv, AsksForPinned,
       Height, Fetching

\* A call that fetches stays as it is, or ends, or has fewer requests left.
FetchesOn(s) ==
  Fetching(s) => \/ sync'[s] = sync[s] /\ chain' = chain
                 \/ sync'[s].pc = "idle"
                 \/ /\ sync'[s].pc = "batch"
                    /\ RequestsLeft(sync'[s], chain') < RequestsLeft(sync[s], chain)

LEMMA AnswerFetchesOn ==
  ASSUME SyncInv, SyncInv', RewindsInv, RewindsInv', NEW s \in Syncers, Fetching(s),
         BatchAnswer(s)
  PROVE  \/ sync'[s].pc = "idle"
         \/ /\ sync'[s].pc = "batch"
            /\ RequestsLeft(sync'[s], chain') < RequestsLeft(sync[s], chain)
<1>1. AnswerProgress(s)
  BY AnswerRunsDown
<1>2. SUFFICES ASSUME sync'[s].pc # "idle"
               PROVE  /\ sync'[s].pc = "batch"
                      /\ RequestsLeft(sync'[s], chain') < RequestsLeft(sync[s], chain)
  OBVIOUS
<1>3. /\ sync'[s].pc = "batch" /\ sync'[s].serverTip = sync[s].serverTip
      /\ \/ /\ sync'[s].rewinds = sync[s].rewinds
            /\ Len(chain'.headers) > Len(chain.headers)
         \/ sync'[s].rewinds = sync[s].rewinds + 1
  BY <1>1, <1>2 DEF AnswerProgress
<1>4. /\ sync[s] \in SyncState /\ chain \in ChainState
      /\ sync[s].rewinds <= MaxReorg /\ Height(chain) < sync[s].serverTip
  BY FetchingCounts
<1>5. /\ sync'[s] \in SyncState /\ chain' \in ChainState
      /\ sync'[s].rewinds <= MaxReorg /\ Height(chain') < sync'[s].serverTip
  BY <1>3 DEF SyncInv, CallsOK, ChainInv, ChainTypeOK, RewindsInv, PinInv, AsksForPinned,
              Height
<1> QED BY <1>3, <1>4, <1>5, FewerRequestsLeft

LEMMA StepFetchesOn ==
  ASSUME OneCaller, SyncInv, SyncInv', RewindsInv, RewindsInv', [Next]_vars,
         NEW s \in Syncers
  PROVE  FetchesOn(s)
<1>1. SUFFICES ASSUME Fetching(s)
               PROVE  \/ sync'[s] = sync[s] /\ chain' = chain
                      \/ sync'[s].pc = "idle"
                      \/ /\ sync'[s].pc = "batch"
                         /\ RequestsLeft(sync'[s], chain') < RequestsLeft(sync[s], chain)
  BY DEF FetchesOn
<1>2. Syncers = {s} /\ sync[s].pc = "batch" /\ up
  BY <1>1 DEF OneCaller, RewindsInv, PinInv, Fetching
<1>3. sync \in [Syncers -> SyncState]
  BY DEF SyncInv, CallsOK
<1>4. CASE Open
  BY <1>2, <1>4 DEF Open, OpenFile, OpenNew, OpenRefused, chainVars
<1>5. CASE ProcessDies
  BY <1>5 DEF ProcessDies, AllStop, Idle
<1>6. CASE ClockTicks \/ UNCHANGED vars
  BY <1>6 DEF ClockTicks, Tick, vars, chainVars
<1>7. ~SyncStart(s) /\ ~VersionAnswer(s) /\ \A t : ~TipAnswer(s, t)
  BY <1>2 DEF SyncStart, VersionAnswer, TipAnswer
<1>8. CASE RequestFails(s)
  BY <1>3, <1>8 DEF RequestFails, SyncThrows, SyncReturns, Idle
<1>9. CASE BatchAnswer(s)
  BY <1>1, <1>9, AnswerFetchesOn
<1> QED BY <1>2, <1>4, <1>5, <1>6, <1>7, <1>8, <1>9 DEF Next, RequestSettles

-----------------------------------------------------------------------------

\* A step that changes the chain or the call ends it or leaves it less to ask.
RunsDown(s) ==
  Fetching(s) =>
    \/ sync'[s].pc = "idle"
    \/ /\ sync'[s].pc = "batch"
       /\ RequestsLeft(sync'[s], chain') < RequestsLeft(sync[s], chain)

(***************************************************************************)
(* With one caller, whatever fails: the answers to a call run out.  Each   *)
(* ends it or leaves it fewer requests, a rewind too, which shortens the   *)
(* chain and lengthens what there is to fetch.                             *)
(***************************************************************************)
THEOREM SyncRunsDown ==
  ASSUME OneCaller
  PROVE  Spec => [][\A s \in Syncers : RunsDown(s)]_<<chain, sync>>
<1>1. SyncInv /\ SyncInv' /\ RewindsInv /\ RewindsInv' /\ [Next]_vars
        => [\A s \in Syncers : RunsDown(s)]_<<chain, sync>>
  <2> SUFFICES ASSUME SyncInv, SyncInv', RewindsInv, RewindsInv', [Next]_vars,
                      <<chain, sync>>' # <<chain, sync>>, NEW s \in Syncers
               PROVE  RunsDown(s)
    OBVIOUS
  <2>1. FetchesOn(s)
    BY StepFetchesOn
  <2>2. ~(sync'[s] = sync[s] /\ chain' = chain)
    <3> SUFFICES ASSUME sync'[s] = sync[s] PROVE sync' = sync
      OBVIOUS
    <3>1. Syncers = {s}
      BY DEF OneCaller
    <3>2. sync \in [Syncers -> SyncState] /\ sync' \in [Syncers -> SyncState]
      BY DEF SyncInv, CallsOK
    <3> QED BY <3>1, <3>2
  <2> QED BY <2>1, <2>2 DEF FetchesOn, RunsDown
<1> QED BY <1>1, SyncInvariant, RewindsInvariant, PTL DEF Spec

\* What a call that has headers to fetch may still ask for, and its bound.
FetchesBounded ==
  \A s \in Syncers : Fetching(s) =>
    RequestsLeft(sync[s], chain) \in 1 .. (MaxReorg + 1) * MostHeaders(sync[s])

(***************************************************************************)
(* ... of which there are never more than the headers up to the claimed    *)
(* tip, once for each rewind allowed and once more.                        *)
(***************************************************************************)
THEOREM SyncAlwaysBounded ==
  ASSUME OneCaller
  PROVE  Spec => []FetchesBounded
<1>1. SyncInv /\ RewindsInv => FetchesBounded
  <2> SUFFICES ASSUME SyncInv, RewindsInv, NEW s \in Syncers, Fetching(s)
               PROVE  RequestsLeft(sync[s], chain)
                        \in 1 .. (MaxReorg + 1) * MostHeaders(sync[s])
    BY DEF FetchesBounded
  <2> DEFINE r == sync[s]
             m == MaxReorg - r.rewinds
             n == MaxReorg + 1
             k == r.serverTip - Height(chain)
             K == MostHeaders(r)
  <2>1. /\ r \in SyncState /\ chain \in ChainState /\ r.rewinds <= MaxReorg
        /\ Height(chain) < r.serverTip
    BY FetchingCounts
  <2>2. /\ K \in Nat /\ m \in Nat /\ k \in 1 .. K - 1
        /\ RequestsLeft(r, chain) \in Nat \ {0}
    BY <2>1, RequestsLeftCounts
  <2>3. m < n /\ n \in Nat
    BY <2>1, SyncAssumption DEF SyncState
  <2>4. RequestsLeft(r, chain) = m * K + k
    BY DEF RequestsLeft
  <2> HIDE DEF r, m, n, k, K
  <2>5. k \in 0 .. K - 1 /\ 0 \in 0 .. K - 1
    BY <2>2
  <2>6. m * K + k < n * K + 0 /\ n * K + 0 \in Nat
    BY <2>2, <2>3, <2>5, RewindsFirst
  <2>7. n * K \in Nat
    BY <2>2, <2>3, Z3
  <2>8. RequestsLeft(r, chain) \in 1 .. n * K
    BY <2>2, <2>4, <2>6, <2>7
  <2> QED BY <2>8 DEF r, n, K
<1> QED BY <1>1, SyncInvariant, RewindsInvariant, PTL DEF Spec

-----------------------------------------------------------------------------

Pending(s) == sync[s].pc # "idle"

(***************************************************************************)
(* The fairness of FairSpec, with what enables its action written out: an  *)
(* outstanding request can always fail, which ends the call.               *)
(***************************************************************************)
GuardFairness ==
  \A s \in Syncers : []<>~Pending(s) \/ []<><<RequestSettles(s)>>_vars

AsksVersion(s) == sync[s].pc = "version"
AsksTip(s) == sync[s].pc = "tip"
Asks(s, n) == Fetching(s) /\ RequestsLeft(sync[s], chain) = n
AsksLess(s, n) == Fetching(s) /\ RequestsLeft(sync[s], chain) < n

\* The requests before the first for headers follow one another.
LEMMA StepAsksOn ==
  ASSUME OneCaller, SyncInv, [Next]_vars, NEW s \in Syncers
  PROVE  /\ AsksVersion(s) => \/ AsksVersion(s)' /\ ~RequestSettles(s)
                              \/ AsksTip(s)' \/ ~Pending(s)'
         /\ AsksTip(s) => \/ AsksTip(s)' /\ ~RequestSettles(s)
                          \/ Fetching(s)' \/ ~Pending(s)'
<1>1. Syncers = {s}
  BY DEF OneCaller
<1>2. sync \in [Syncers -> SyncState] /\ sync[s] \in SyncState
  BY DEF SyncInv, CallsOK
<1> SUFFICES ASSUME sync[s].pc \in {"version", "tip"}
             PROVE  /\ AsksVersion(s) => \/ AsksVersion(s)' /\ ~RequestSettles(s)
                                         \/ AsksTip(s)' \/ ~Pending(s)'
                    /\ AsksTip(s) => \/ AsksTip(s)' /\ ~RequestSettles(s)
                                     \/ Fetching(s)' \/ ~Pending(s)'
  BY DEF AsksVersion, AsksTip
<1>3. ASSUME RequestFails(s) \/ ProcessDies PROVE ~Pending(s)'
  BY <1>2, <1>3 DEF RequestFails, SyncThrows, SyncReturns, ProcessDies, AllStop, Idle, Pending
<1>4. ~SyncStart(s) /\ ~BatchAnswer(s)
  BY DEF SyncStart, BatchAnswer, BatchExtends, BatchStaged, BatchRewinds, BatchRefused,
         Answered
<1>5. ASSUME VersionAnswer(s) PROVE AsksVersion(s) /\ ~AsksTip(s) /\ AsksTip(s)'
  BY <1>2, <1>5 DEF VersionAnswer, SyncGoesOn, SyncState, AsksVersion, AsksTip
<1>6. ASSUME NEW serverTip \in 0..MaxServerTip, TipAnswer(s, serverTip)
      PROVE  AsksTip(s) /\ ~AsksVersion(s) /\ (Fetching(s)' \/ ~Pending(s)')
  <2> DEFINE r == [sync[s] EXCEPT !.serverTip = serverTip]
  <2>1. r \in SyncState
    <3>1. serverTip \in Int
      BY SyncAssumption
    <3> QED BY <1>2, <3>1 DEF SyncState
  <2>2. AsksTip(s) /\ ~AsksVersion(s)
    BY <1>6 DEF TipAnswer, AsksTip, AsksVersion
  <2>3. CASE sync' = [sync EXCEPT ![s] = Request(r, chain)]
    <3> HIDE DEF r
    <3>1. Request(r, chain).pc = "batch"
      BY <2>1 DEF Request, SyncState
    <3> QED BY <1>2, <2>2, <2>3, <3>1 DEF Fetching
  <2>4. CASE SyncReturns(s, "ok")
    BY <1>2, <2>2, <2>4 DEF SyncReturns, Idle, Pending
  <2> QED BY <1>6, <2>3, <2>4 DEF TipAnswer
<1>7. CASE RequestSettles(s)
  BY <1>3, <1>4, <1>5, <1>6, <1>7 DEF RequestSettles
<1>8. CASE ~RequestSettles(s) /\ ~ProcessDies
  <2>1. sync' = sync
    BY <1>1, <1>4, <1>8 DEF Next, Open, ClockTicks, vars
  <2> QED BY <1>8, <2>1 DEF AsksVersion, AsksTip
<1>9. CASE ProcessDies
  BY <1>3, <1>9
<1> QED BY <1>7, <1>8, <1>9

(***************************************************************************)
(* With one caller: whatever the server answers, a call gets past each of  *)
(* its first two requests, to the fetching of headers or to its end,       *)
(***************************************************************************)
THEOREM CallsFetchOrEnd ==
  ASSUME OneCaller, NEW s \in Syncers
  PROVE  Spec /\ GuardFairness => (Pending(s) ~> (Fetching(s) \/ ~Pending(s)))
<1>1. GuardFairness => []<>~Pending(s) \/ []<><<RequestSettles(s)>>_vars
  BY DEF GuardFairness
<1>2. SyncInv /\ Pending(s) => AsksVersion(s) \/ AsksTip(s) \/ Fetching(s)
  BY DEF SyncInv, CallsOK, SyncState, Pending, AsksVersion, AsksTip, Fetching
<1>3. SyncInv /\ [Next]_vars =>
        /\ AsksVersion(s) => AsksVersion(s)' \/ AsksTip(s)' \/ ~Pending(s)'
        /\ AsksTip(s) => AsksTip(s)' \/ Fetching(s)' \/ ~Pending(s)'
  BY StepAsksOn
<1>4. SyncInv /\ [Next]_vars /\ <<RequestSettles(s)>>_vars =>
        /\ AsksVersion(s) => AsksTip(s)' \/ ~Pending(s)'
        /\ AsksTip(s) => Fetching(s)' \/ ~Pending(s)'
  BY StepAsksOn
<1>5. AsksVersion(s) \/ AsksTip(s) => Pending(s)
  BY DEF AsksVersion, AsksTip, Pending
<1> QED BY <1>1, <1>2, <1>3, <1>4, <1>5, SyncInvariant, PTL DEF Spec

(***************************************************************************)
(* ... and a call that fetches ends, or has fewer requests left: an answer *)
(* comes, or the failure of its request does.                              *)
(***************************************************************************)
THEOREM AnswersBringOn ==
  ASSUME OneCaller, NEW s \in Syncers, NEW n \in Nat
  PROVE  Spec /\ GuardFairness => (Asks(s, n) ~> (AsksLess(s, n) \/ ~Pending(s)))
<1>1. GuardFairness => []<>~Pending(s) \/ []<><<RequestSettles(s)>>_vars
  BY DEF GuardFairness
<1>2. SyncInv /\ SyncInv' /\ RewindsInv /\ RewindsInv' /\ [Next]_vars /\ Asks(s, n)
        => Asks(s, n)' \/ AsksLess(s, n)' \/ ~Pending(s)'
  <2> SUFFICES ASSUME SyncInv, SyncInv', RewindsInv, RewindsInv', [Next]_vars, Asks(s, n)
               PROVE  Asks(s, n)' \/ AsksLess(s, n)' \/ ~Pending(s)'
    OBVIOUS
  <2>1. FetchesOn(s)
    BY StepFetchesOn
  <2> QED BY <2>1 DEF FetchesOn, Asks, AsksLess, Fetching, Pending
<1>3. SyncInv /\ SyncInv' /\ RewindsInv /\ RewindsInv' /\ Asks(s, n)
        /\ <<RequestSettles(s)>>_vars
        => AsksLess(s, n)' \/ ~Pending(s)'
  <2> SUFFICES ASSUME SyncInv, SyncInv', RewindsInv, RewindsInv', Asks(s, n),
                      RequestSettles(s)
               PROVE  AsksLess(s, n)' \/ ~Pending(s)'
    OBVIOUS
  <2>1. Fetching(s) /\ sync[s].pc = "batch" /\ sync \in [Syncers -> SyncState]
    BY DEF Asks, Fetching, SyncInv, CallsOK
  <2>2. ~VersionAnswer(s) /\ \A t : ~TipAnswer(s, t)
    BY <2>1 DEF VersionAnswer, TipAnswer
  <2>3. CASE RequestFails(s)
    BY <2>1, <2>3 DEF RequestFails, SyncThrows, SyncReturns, Idle, Pending
  <2>4. CASE BatchAnswer(s)
    BY <2>1, <2>4, AnswerFetchesOn DEF Asks, AsksLess, Fetching, Pending
  <2> QED BY <2>2, <2>3, <2>4 DEF RequestSettles
<1>4. Asks(s, n) => Pending(s)
  BY DEF Asks, Fetching, Pending
<1> QED BY <1>1, <1>2, <1>3, <1>4, SyncInvariant, RewindsInvariant, PTL DEF Spec
=============================================================================
