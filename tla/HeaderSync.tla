----------------------------- MODULE HeaderSync -----------------------------
(***************************************************************************)
(* syncHeaders of packages/fetch/src/headersync.ts: one HeaderChain kept   *)
(* up to date from servers that may answer anything, and headerSyncTrust,  *)
(* the anchor that reads it.                                               *)
(*                                                                         *)
(* A Syncer is one call of syncHeaders after another.  The code between    *)
(* two awaits is one step; each await is a request to the server, which    *)
(* is answered (with any tip, with any batch of at most the requested      *)
(* count) or fails (error answer, malformed batch, timeout, lost           *)
(* connection).                                                            *)
(***************************************************************************)
EXTENDS HeaderChain

CONSTANTS
  Syncers,       \* concurrent callers of syncHeaders on the one chain
  BatchSize,     \* options.batchSize
  MaxReorg,      \* options.maxReorgDepth
  Pinned,        \* the chain, base first, whose root is options.checkpoint.root
                 \* and whose tip is at options.checkpoint.height; <<>>: no option
  MaxServerTip   \* bound on the tips a server claims

ASSUME SyncAssumption ==
  /\ BatchSize \in Nat \ {0}
  /\ MaxReorg \in Nat
  /\ Pinned \in Seq(Header)
  /\ MaxServerTip \in Nat

VARIABLES
  sync,   \* sync[s]: the local variables of s's call
  begun   \* history: the chain when s's call read startTip

vars == <<chainVars, sync, begun>>

SyncState ==
  [pc        : {"idle", "version", "tip", "batch"},
   serverTip : Int,
   count     : Int,          \* headers requested
   useCp     : BOOLEAN,
   rewinds   : Nat,
   staging   : BOOLEAN,      \* preFork !== undefined
   preFork   : ChainState,   \* what captureState returned
   result    : {"none", "ok", "failed"}]

\* Between calls; result tells how the last one ended.
Idle(result) ==
  [pc |-> "idle", serverTip |-> 0, count |-> 0, useCp |-> FALSE, rewinds |-> 0,
   staging |-> FALSE, preFork |-> BaseChain, result |-> result]

Init ==
  /\ ChainInit
  /\ sync = [s \in Syncers |-> Idle("none")]
  /\ begun = [s \in Syncers |-> <<Base>>]

-----------------------------------------------------------------------------

AllStop ==
  /\ sync' = [s \in Syncers |-> Idle("none")]
  /\ begun' = [s \in Syncers |-> <<Base>>]

SyncReturns(s, result) ==
  /\ sync' = [sync EXCEPT ![s] = Idle(result)]
  /\ begun' = [begun EXCEPT ![s] = <<Base>>]

SyncGoesOn(s, r) ==
  /\ sync' = [sync EXCEPT ![s] = r]
  /\ UNCHANGED begun

\* mutation: the snapshot's headers come back without its work
SyncThrowsKeepingWork(s, c) ==
  /\ chain' = IF sync[s].staging
              THEN [c EXCEPT !.headers = sync[s].preFork.headers] ELSE c
  /\ SyncReturns(s, "failed")

\* catch (e) { if (preFork) chain.restoreState(preFork); throw e }
SyncThrows(s, c) ==
  /\ chain' = IF sync[s].staging THEN sync[s].preFork ELSE c
  /\ SyncReturns(s, "failed")

\* The next blockchain.block.headers request, and whether it asks for cp_height.
Request(r, c) ==
  LET count == IF r.serverTip - TipHeight(c.headers) < BatchSize
               THEN r.serverTip - TipHeight(c.headers) ELSE BatchSize
  IN [r EXCEPT !.pc = "batch", !.count = count,
               !.useCp = Pinned # <<>>
                         /\ TipHeight(c.headers) + count <= TipHeight(Pinned)]

(***************************************************************************)
(* What follows a handled answer, with the call's variables r, the chain   *)
(* object c and the file f: the next request, or the end of the call. A    *)
(* staged branch is adopted, its file rewritten, only if it carries more   *)
(* work than what it replaces; otherwise what it replaced is restored.     *)
(***************************************************************************)
RequestMore(s, r, c, f) ==
  /\ TipHeight(c.headers) < r.serverTip
  /\ chain' = c /\ file' = f /\ UNCHANGED up
  /\ SyncGoesOn(s, Request(r, c))

ReturnUnforked(s, r, c, f) ==
  /\ ~r.staging
  /\ chain' = c /\ file' = f /\ UNCHANGED up
  /\ SyncReturns(s, "ok")

\* mutation: the taller branch wins
MoreHeaders(new, old) == Len(new.headers) > Len(old.headers)

MoreWork(new, old) == new.work > old.work

AdoptFork(s, r, c, f) ==
  /\ r.staging /\ MoreWork(c, r.preFork)
  /\ \/ /\ chain' = Saved(c)
        /\ file' = IF c.dirty THEN FileWith(c.headers) ELSE f
        /\ UNCHANGED up
        /\ SyncReturns(s, "ok")
     \/ /\ c.dirty
        /\ WriteThrows(RewriteCuts(c.headers))
        /\ chain' = c
        /\ UNCHANGED up
        /\ SyncReturns(s, "failed")
     \/ /\ c.dirty
        /\ WriteCutShort(RewriteCuts(c.headers))
        /\ AllStop

RejectFork(s, r, c, f) ==
  /\ r.staging /\ ~MoreWork(c, r.preFork)
  /\ chain' = r.preFork /\ file' = f /\ UNCHANGED up
  /\ SyncReturns(s, "failed")

LoopOrEnd(s, r, c, f) ==
  \/ RequestMore(s, r, c, f)
  \/ /\ TipHeight(c.headers) >= r.serverTip
     /\ \/ ReturnUnforked(s, r, c, f)
        \/ AdoptFork(s, r, c, f)
        \/ RejectFork(s, r, c, f)

\* A cp_height branch folds to the pinned root only from a header of that chain.
OnPinned(c) ==
  /\ Len(c.headers) <= Len(Pinned)
  /\ Tip(c.headers) = Pinned[Len(c.headers)]

\* mutation: verifyCpBranch is not called
LoopUnverified(s, c, f) == LoopOrEnd(s, sync[s], c, f)

\* verifyCpBranch, after the batch is in the chain; the server may also
\* hold the branch back or send a wrong one.
VerifyCpAndLoop(s, c, f) ==
  \/ /\ sync[s].useCp => OnPinned(c)
     /\ LoopOrEnd(s, sync[s], c, f)
  \/ /\ sync[s].useCp
     /\ file' = f /\ UNCHANGED up
     /\ SyncThrows(s, c)

-----------------------------------------------------------------------------

SyncStart(s) ==
  /\ up
  /\ sync[s].pc = "idle"
  /\ SyncGoesOn(s, [Idle("none") EXCEPT !.pc = "version"])
  /\ UNCHANGED chainVars

VersionAnswer(s) ==
  /\ sync[s].pc = "version"
  /\ SyncGoesOn(s, [sync[s] EXCEPT !.pc = "tip"])
  /\ UNCHANGED chainVars

\* The claimed tip, and the loop's first test.
TipAnswer(s, serverTip) ==
  /\ sync[s].pc = "tip"
  /\ UNCHANGED <<chain, file, up, now>>
  /\ LET r == [sync[s] EXCEPT !.serverTip = serverTip]
     IN \/ /\ TipHeight(chain.headers) < serverTip
           /\ sync' = [sync EXCEPT ![s] = Request(r, chain)]
           /\ begun' = [begun EXCEPT ![s] = chain.headers]
        \/ /\ TipHeight(chain.headers) >= serverTip
           /\ SyncReturns(s, "ok")

\* An error answer, a malformed one, a timeout or a lost connection.
RequestFails(s) ==
  /\ sync[s].pc # "idle"
  /\ SyncThrows(s, chain)
  /\ UNCHANGED <<file, up, now>>

Answered(s, batch, verdict) ==
  /\ sync[s].pc = "batch"
  /\ Len(batch) <= sync[s].count
  /\ BatchVerdict(chain.headers, batch, now) = verdict
  /\ UNCHANGED now

\* The batch extends the adopted chain and is persisted at once.
BatchExtends(s, batch) ==
  /\ Answered(s, batch, "ok")
  /\ ~sync[s].staging
  /\ LET c == AfterAppend(chain, batch)
     IN \/ VerifyCpAndLoop(s, Saved(c),
                           IF HasFile THEN AppendWrites(c, batch) ELSE file)
        \/ /\ HasFile
           /\ WriteThrows(AppendWriteCuts(c, batch))
           /\ UNCHANGED up
           /\ SyncThrows(s, c)
        \/ /\ HasFile
           /\ WriteCutShort(AppendWriteCuts(c, batch))
           /\ AllStop

\* The batch extends a competing branch, in memory only.
BatchStaged(s, batch) ==
  /\ Answered(s, batch, "ok")
  /\ sync[s].staging
  /\ VerifyCpAndLoop(s, Unsaved(AfterAppend(chain, batch)), file)

\* mutation: rewinds are not counted
BatchRewindsUncounted(s, batch) ==
  /\ Answered(s, batch, "reorg")
  /\ LET r == [sync[s] EXCEPT !.staging = TRUE,
                              !.preFork = IF sync[s].staging THEN @ ELSE chain]
     IN LoopOrEnd(s, r, Unsaved(Rewound(chain, BaseHeight)), file)

\* The batch does not link to the tip: drop the tip, in memory, and ask again.
BatchRewinds(s, batch) ==
  /\ Answered(s, batch, "reorg")
  /\ sync[s].rewinds < MaxReorg
  /\ LET r == [sync[s] EXCEPT !.rewinds = @ + 1, !.staging = TRUE,
                              !.preFork = IF sync[s].staging THEN @ ELSE chain]
         c == Rewound(chain, TipHeight(chain.headers) - 1)
     IN IF Len(chain.headers) = 1
        THEN LoopOrEnd(s, r, chain, file)
        ELSE LoopOrEnd(s, r, Unsaved(c), file)

BatchRefused(s, batch) ==
  /\ \/ Answered(s, batch, "error")
     \/ Answered(s, batch, "reorg") /\ sync[s].rewinds >= MaxReorg
  /\ SyncThrows(s, chain)
  /\ UNCHANGED <<file, up>>

BatchAnswer(s) ==
  \E batch \in Batches :
    \/ BatchExtends(s, batch)
    \/ BatchStaged(s, batch)
    \/ BatchRewinds(s, batch)
    \/ BatchRefused(s, batch)

-----------------------------------------------------------------------------

Open == (OpenFile \/ OpenNew \/ OpenRefused) /\ UNCHANGED <<sync, begun>>

ProcessDies == Crash /\ AllStop

ClockTicks == Tick /\ UNCHANGED <<sync, begun>>

\* The outstanding request settles: the transport's timer sees to it.
RequestSettles(s) ==
  \/ VersionAnswer(s)
  \/ \E serverTip \in 0..MaxServerTip : TipAnswer(s, serverTip)
  \/ BatchAnswer(s)
  \/ RequestFails(s)

Next ==
  \/ Open
  \/ ProcessDies
  \/ ClockTicks
  \/ \E s \in Syncers : SyncStart(s) \/ RequestSettles(s)

Spec == Init /\ [][Next]_vars

\* The event loop runs the handlers; every request is answered or times out.
FairSpec == Spec /\ \A s \in Syncers : WF_vars(RequestSettles(s))

-----------------------------------------------------------------------------

(***************************************************************************)
(* headerSyncTrust(chain, {minConfirmations}): the header is attested iff  *)
(* it is the chain's header at the height now, deep enough below its tip.  *)
(***************************************************************************)
HeaderSyncTrust(header, height, minConfirmations) ==
  LET i == height - BaseHeight + 1
  IN /\ i \in DOMAIN chain.headers
     /\ chain.headers[i] = header
     /\ TipHeight(chain.headers) - height + 1 >= minConfirmations

\* The chain a caller has adopted: the branch it is staging is not part of it.
Adopted(s) == IF sync[s].staging THEN sync[s].preFork.headers ELSE chain.headers

\* ... and the one a restart would adopt from the file.
AdoptedFromFile ==
  IF ~HasFile \/ ~file.there THEN <<Base>>
  ELSE IF FileLoads(file) THEN file.hs ELSE <<>>

\* What a process with one caller has adopted, or the next process would.
Held ==
  IF ~up THEN AdoptedFromFile
  ELSE IF \E s \in Syncers : sync[s].staging
       THEN Adopted(CHOOSE s \in Syncers : sync[s].staging)
       ELSE chain.headers

WorkOf(s) == CumWork[Tip(s)]

\* With one caller, its calls implement AdoptedChain.
Promise == INSTANCE AdoptedChain WITH live <- up, adopted <- Held

\* The adopted chain only grows, or moves to strictly more work; a crash in
\* the middle of a write may shorten it, and never leaves a foreign header.
ImplementsAdoptedChain == Promise!AdoptedSpec

-----------------------------------------------------------------------------

\* The types of the variables.
TypeOK ==
  /\ ChainTypeOK
  /\ sync \in [Syncers -> SyncState]
  /\ begun \in [Syncers -> Chains]

(***************************************************************************)
(* The chain is sound at every await, in the middle of a rewind too, and   *)
(* so is every snapshot a call may yet restore, whatever the other calls   *)
(* on the same chain did since it was taken.                               *)
(***************************************************************************)
SyncSound == ChainSound /\ \A s \in Syncers : Sound(sync[s].preFork)

(***************************************************************************)
(* A call never leaves the chain with less than it found: when it throws,  *)
(* whatever it had staged is gone and the chain it started from is still   *)
(* there, at most extended; when it returns, the chain either extends that *)
(* one or carries strictly more work.                                      *)
(***************************************************************************)
SyncEnds(s) == sync[s].pc = "batch" /\ sync'[s].pc = "idle" /\ up'

SyncNeverLosesWork ==
  [][\A s \in Syncers : SyncEnds(s) =>
       \/ IsPrefixOf(begun[s], chain'.headers)
       \/ /\ sync'[s].result = "ok"
          /\ chain'.work > CumWork[Tip(begun[s])]]_vars

(***************************************************************************)
(* A call that returns, having had to fetch headers all of which lie at or *)
(* below the pinned height, leaves the tip on the pinned chain, even over  *)
(* headers an earlier failed call left behind unproven.                    *)
(***************************************************************************)
PinnedSyncIsPinned ==
  [][\A s \in Syncers :
       SyncEnds(s) /\ sync'[s].result = "ok" /\ sync[s].serverTip <= TipHeight(Pinned)
         => OnPinned(chain')]_vars

(***************************************************************************)
(* "Rewinds and the competing branch are staged IN MEMORY and adopted only *)
(* if the resulting chain carries strictly more cumulative work"           *)
(* (headersync.ts:542-546): the anchor attests no header of a branch that  *)
(* is not adopted and does not carry more work than the adopted chain.     *)
(***************************************************************************)
AttestsAdoptedOnly ==
  \A s \in Syncers, h \in Header, i \in 1..Len(chain.headers) :
    HeaderSyncTrust(h, HeightOf(i), 0) =>
      \/ i \in DOMAIN Adopted(s) /\ Adopted(s)[i] = h
      \/ chain.work > CumWork[Tip(Adopted(s))]

\* Every call of syncHeaders ends, whatever the server answers.
SyncTerminates ==
  \A s \in Syncers : sync[s].pc # "idle" ~> sync[s].pc = "idle"
=============================================================================
