------------------------------ MODULE HeaderTree ------------------------------
(***************************************************************************)
(* The block headers a header source can send, and the checks that         *)
(* HeaderChain.appendBatch makes of each one                               *)
(* (packages/fetch/src/headersync.ts).                                     *)
(*                                                                         *)
(* A header commits to its parent by hash, so the headers form a tree and  *)
(* a header is a member of the constant set Header with its fields given   *)
(* by constant functions.  A header whose parent is in no chain we can     *)
(* hold has the parent Outside.  A chain is a sequence of headers, the     *)
(* configured base first; chain[i] is at height BaseHeight + i - 1.        *)
(***************************************************************************)
EXTENDS Integers, Sequences, FiniteSets

CONSTANTS
  Header,            \* every header a server or a file can present
  Outside,           \* the parent of a header that links to nothing we know
  Base,              \* the trusted base header (HeaderChainOptions.base)
  Parent,            \* Parent[h]: the header h.prevBlock names
  Bits,              \* Bits[h]: the compact target h claims
  Time,              \* Time[h]: h's timestamp
  MeetsTarget,       \* the headers whose hash is below their own target
  Checkpoint,        \* Checkpoint[height]: the header compiled in at height
  CumWork,           \* CumWork[h]: the work from the base to h
  BaseHeight,        \* the height of Base, a retarget boundary
  RetargetInterval,  \* 2016 on mainnet
  NoRetarget,        \* params.noRetarget (regtest)
  MtpWindow,         \* 11 headers, odd
  FutureDrift,       \* MAX_FUTURE_DRIFT_SECONDS
  WorkFromBits(_),   \* the expected work of one header with these bits
  NextBits(_, _)     \* calcNextBits, of the closing bits and the timespan

ASSUME HeaderTreeAssumption ==
  /\ Base \in Header
  /\ Outside \notin Header
  /\ Parent \in [Header -> Header \cup {Outside}]
  /\ Bits \in [Header -> Nat]
  /\ Time \in [Header -> Nat]
  /\ MeetsTarget \in SUBSET Header
  /\ CumWork \in [Header -> Nat]
  /\ BaseHeight \in Nat
  /\ RetargetInterval \in Nat \ {0}
  /\ NoRetarget \in BOOLEAN
  /\ MtpWindow \in Nat \ {0}
  /\ FutureDrift \in Nat

\* The work a run of linked headers adds: the loop's sum telescopes.
ASSUME WorkAssumption ==
  /\ \A h \in Header : WorkFromBits(Bits[h]) \in Nat \ {0}
  /\ CumWork[Base] = WorkFromBits(Bits[Base])
  /\ \A h \in Header :
       Parent[h] \in Header =>
         CumWork[h] = CumWork[Parent[h]] + WorkFromBits(Bits[h])

\* The HeaderChain constructor throws unless the base has these properties.
ASSUME BaseAssumption ==
  /\ BaseHeight % RetargetInterval = 0
  /\ Base \in MeetsTarget
  /\ BaseHeight \in DOMAIN Checkpoint => Checkpoint[BaseHeight] = Base

-----------------------------------------------------------------------------

Chains == Seq(Header) \ {<<>>}

Tip(s) == s[Len(s)]

HeightOf(i) == BaseHeight + i - 1

TipHeight(s) == HeightOf(Len(s))

ExpectedBits(s, i) ==
  IF NoRetarget \/ HeightOf(i) % RetargetInterval # 0
  THEN Bits[s[i - 1]]
  ELSE NextBits(Bits[s[i - 1]], Time[s[i - 1]] - Time[s[i - RetargetInterval]])

\* A boundary whose closing period starts below the base cannot be checked.
BitsAgree(s, i) ==
  /\ (~NoRetarget /\ HeightOf(i) % RetargetInterval = 0) => i > RetargetInterval
  /\ Bits[s[i]] = ExpectedBits(s, i)

\* The middle value of the function times, on an odd number of points.
Median(times) ==
  CHOOSE t \in {times[j] : j \in DOMAIN times} :
    /\ Cardinality({j \in DOMAIN times : times[j] < t}) <= MtpWindow \div 2
    /\ Cardinality({j \in DOMAIN times : times[j] <= t}) > MtpWindow \div 2

MedianTimePast(s, i) == Median([j \in (i - MtpWindow) .. (i - 1) |-> Time[s[j]]])

AfterMedian(s, i) ==
  i - 1 >= MtpWindow => Time[s[i]] > MedianTimePast(s, i)

CheckpointAgrees(s, i) ==
  HeightOf(i) \in DOMAIN Checkpoint => Checkpoint[HeightOf(i)] = s[i]

Links(s, i) == Parent[s[i]] = s[i - 1]

\* The checks of one header that depend only on the chain below it.
Consensus(s, i) ==
  /\ Links(s, i)
  /\ BitsAgree(s, i)
  /\ s[i] \in MeetsTarget
  /\ AfterMedian(s, i)
  /\ CheckpointAgrees(s, i)

\* A chain every header of which would be accepted above the ones before it.
ValidChain(s) ==
  /\ s # <<>>
  /\ s[1] = Base
  /\ \A i \in 2..Len(s) : Consensus(s, i)

(***************************************************************************)
(* What appendBatch makes of a batch.  The link to the tip is the first    *)
(* check of the first header, so its failure is a ReorgLinkError whatever  *)
(* else is wrong with the batch; any other failure is a plain Error.       *)
(***************************************************************************)
BatchVerdict(s, batch, clock) ==
  LET t == s \o batch
      added == (Len(s) + 1) .. Len(t)
  IN IF \A i \in added : Consensus(t, i) /\ Time[t[i]] <= clock + FutureDrift
     THEN "ok"
     ELSE IF ~Links(t, Len(s) + 1) THEN "reorg" ELSE "error"

\* The work of a linked run of headers, first to last.
WorkOfRun(first, last) == CumWork[last] - CumWork[Parent[first]]

IsPrefixOf(s, t) == Len(s) <= Len(t) /\ \A i \in 1..Len(s) : s[i] = t[i]
=============================================================================
