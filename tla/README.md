# Verification of ordspv

TLA+ models of ordspv: of the parts that keep state, wait for somebody they do not trust, or decide
something from several answers, and of the algorithms those decisions rest on; TLC configurations
that check them on small instances; and proofs, checked by TLAPS, of what holds for every instance.

ordspv resolves `ord:` URIs to bytes proved against Bitcoin's proof of work. No server is trusted:
whatever an esplora backend, an Electrum server or an ord gateway sends is checked locally, and what
cannot be checked (which chain is the best one, whether an output is still unspent) is asked of
several servers. So the concurrent models have one adversary, the servers, and one question: what do
the answers of a few lying or dead servers do to the state, the verdict and the progress of the
code? The algorithms have one too: is there any input, shaped by a server, for which they say
something else than Bitcoin or ord says?

## Inventory

| Component | State | Operations | What is hard |
|---|---|---|---|
| Header chain, `fetch/src/headersync.ts` (`HeaderChain`) | headers, work, `dirty`, a file | open, appendBatch, truncateTo, flush, captureState, restoreState | memory and file after a crash or a failed write; work after rewinds |
| Header sync, same file (`syncHeaders`, `headerSyncTrust`) | locals of each call; the shared chain | start, three requests, the rewind loop | awaits between reads and writes of a shared object; most-work rule; checkpoint branch |
| Electrum transport, same file (`ElectrumTcpTransport`) | socket, dial promise, pending map, timers, buffer | request, close, socket events, timers | stale events of an old socket; a dial or an answer that never comes |
| Header trust, `fetch/src/headertrust.ts` | none | checkHeader | who may vote, quorums, median tip |
| HTTP client and pools, `fetch/src/http.ts`, `backends.ts` | cursor, servers used; attempts and deadline of each request | fetchCapped, get, run | deadlines, retry budgets, one cursor under concurrent requests |
| Custody fetch, `fetch/src/custodybuilder.ts`, `failover.ts` | attempts, hops, who served | failover loop, walk, verify, anchor, tip | hostile leader, refusals against failures, the chain moves meanwhile |
| Sat identity, `core/src/satnumber.ts`, `fetch/src/satbuilder.ts` | attempts, genealogy, who served | rotation, walk back, anchor, verify | pool and lead both serve; exhausted pools; heights nothing binds |
| Custody verifier, `core/src/custody.ts` | none | verifyCustodyBundle, satpoints, envelope binding | order of the checks, fee and unbound sats, prev transactions from the server |
| Merkle trees and headers, `core/src/merkle.ts`, `header.ts`, `block.ts` | none | roots, branches, compact bits, retargets | odd levels, positions, sign bit, lost digits |
| Witness commitment and taproot, `core/src/witnesscommit.ts`, `taproot.ts` | none | witness section, script path commitment | which check binds which bytes |
| Content proofs and resolver, `core/src/proof.ts`, `fetch/src/proofbuilder.ts`, `resolver.ts`, `uri.ts` | a cache | build, verify, resolve in four modes | levels, delegates, integrity pins |
| Gateway, `gateway/src/*.ts` | LRU cache, token buckets, metrics | handle, proxy, take, shutdown | concurrent misses, what may be cached, clocks that step back |
| Sidecar, `sidecar/src/index.ts` | the gateway's cache and limiter | handler, Core RPC | absence against failure of its one node |
| Command line, `cli/src/main.ts`, `taxonomy.ts` | none | parse, object, work, exit | flags that change nothing, exit codes that say what kind of failure it was |
| Parsers and encoders, rest of `core/src` | none | envelopes, galleries in CBOR; transactions, ids | the numbering of envelopes, the place of a gallery's members; the rest byte grammars |
| Browser extension | none to speak of | | an adapter |

How they interact: `syncHeaders` calls `ElectrumTcpTransport.request` and owns nothing but a
reference to a `HeaderChain`; `headerSyncTrust` reads the same object. `fetchCustody`,
`fetchSatIdentity` and the resolver call backends through the HTTP client, `fetchSatIdentity`
through a pool of them as well, verify with the pure functions of `core`, and anchor with header
trust. The gateway calls the resolver and caches what it returned; the sidecar is the gateway's
proof route before a Bitcoin Core node. The command line orders one of these and reports how it
ended.

## What is hard in this code

- **Waiting.** Everything runs in one event loop, so the steps of the models are what runs between
  two awaits. State that is read before an await and used after it: the snapshot `preFork` of a
  sync, the `connecting` promise of the transport, the cache lookup of a gateway miss, the cursor of
  a pool, the leader of a walk.
- **Failure.** The process dies inside a write of the header file; a write throws part of the way; a
  socket closes between a request and its answer; a backend dies in the middle of a walk; the clock
  of the rate limiter is set back.
- **Order.** A header batch arrives before it is proved by its checkpoint branch; answers of one
  server reach one request while another is storing; hops of a path arrive newest block first.
- **Timeouts.** An answer that comes after its timer, a body that drips, a retry of what timed out,
  a dial that never comes to an end.
- **Adversaries.** Backends that lie, one at a time or together, in the role of prover, attester or
  both. Proofs of true facts about the wrong thing: another leaf, place, depth, count or coinbase.
- **Seams.** Odd levels of a tree, the last sat of an input, zero-value outputs, halvings, the sign
  bit of compact targets, a probe of the envelope parser that fails half way.

`PROJECT.json` lists the hazards one by one, at their lines, with the properties that cover them.
One has no property: a reorganisation between the anchoring of two hops. The walk has no code that
would notice it, and the models of the walks have a chain that only grows.

## Modules

| Module | Models | Form |
|---|---|---|
| `HeaderTree` | the headers a server can send; the checks of one header and of a batch | constants and operators |
| `HeaderChain` | class `HeaderChain` with its file | state machine |
| `HeaderSync` | `syncHeaders` over one chain, any number of callers, and `headerSyncTrust` | state machine, extends `HeaderChain` |
| `AdoptedChain` | what a sync promises | abstract specification |
| `ElectrumTransport` | class `ElectrumTcpTransport` | state machine |
| `HeaderTrust` | the attesters, votes and verdict of `makeHeaderTrust` | operators |
| `HttpPool` | `fetchCapped`, `EsploraBackend.get`, `PooledEsploraBackend.run` | state machine |
| `CustodyFetch` | `fetchCustody`, `buildCustodyBundle`, the verdict of `verifyCustodyBundle` | state machine, extends `HeaderTrust`, `Refusals` |
| `SatFetch` | `fetchSatIdentity`, `buildSatGenealogyBundle`, the verdict of `verifySatGenealogy` | state machine, extends `HeaderTrust`, `SatSpace`, `Refusals` |
| `ProofFetch` | `buildProofBundle`, `verifyProofBundle`, `checkpointTrustHeader`, `statusForCauses` | operators, extends `HeaderTrust` |
| `ByteLru` | class `ByteLru` | operators |
| `Gateway` | `createGateway`'s `handle` and `proxy`, and the verified path of `OrdResolver` behind them | state machine, extends `ProofFetch`, `ByteLru` |
| `Sidecar` | `createSidecar` and `coreRpc` | state machine, extends `Gateway` |
| `TokenBucket` | class `TokenBucketLimiter` and `retryAfterSeconds` | state machine |
| `SatSpace` | the numbering of sats, names and rarity; the hop back and the hop forward through a transaction | operators |
| `SatLedger` | the reference of `SatSpace`: outputs that hold the sats themselves | state machine |
| `Merkle` | `merkle.ts`, `witnesscommit.ts` | operators |
| `BlockCommitments` | a growing block and all claims about it | state machine, extends `Merkle` |
| `Taproot` | `taproot.ts`, `verifyEnvelopeBinding`, over trees that grow | state machine |
| `Envelope` | `envelope.ts` and what it reads of `script.ts`, and ord's one-pass reader beside it, over a script that is being written | state machine |
| `Gallery` | `cbor.ts`, `gallery.ts`, over a gallery that is declared and every way it may be written | state machine |
| `CompactBits` | targets, compact form and retarget of `header.ts`, over periods | state machine |
| `Resolver` | `resolve` in its four modes, over what the parts of an inscription can be | operators |
| `Refusals` | `taxonomy.ts`: categories and exit codes | operators |
| `CommandLine` | `main.ts`, over a line that is typed | state machine, extends `Resolver`, `Refusals` |
| `MCFormats` | one machine at a time of those from `SatLedger` to `CommandLine`, and `HeaderChain` | composition |
| `MCGateway` | the gateway or the sidecar, or the limiter in front of them | composition |
| `MCHeaderTree`, `MCHeaderChain`, `MCHeaderSync`, `MCCustodyFetch`, `MCSatFetch` | the instances TLC runs | |
| `HeaderSyncProofs`, `TransportProofs` (of `ElectrumTransport` and `HttpPool`), `HeaderTrustProofs`, `CustodyFetchProofs`, `SatProofs` (of `SatFetch` and `SatLedger`), `GatewayProofs` (with those of `TokenBucket`), `FormatProofs` (of `BlockCommitments`, `Taproot`, `CompactBits`, `Envelope` and `CommandLine`), `GalleryProofs` | theorems | |

A definition whose comment calls it a mutant or a mutation is a plausible bug of what follows it. It
is used by no specification; it says which mistake a property is there to catch.

### How state and actions correspond to the code

**HeaderChain.** `chain` is the object: `headers`, `work`, `dirty`. `file` is the file as a sequence
of whole headers, with `torn` when it ends inside one. A write is a set of outcomes: done, cut short
by the death of the process after any part (`WriteCutShort`), or thrown after any part
(`WriteThrows`), each only when `Faults` holds `"crash"` or `"ioerror"`. A header is a name with a
parent, difficulty, time and whether it meets its target; `BatchVerdict` makes the checks of
`appendBatch` in its order, and a retarget, the median time past, the two hours of future drift and
the checkpoints are computed as there. `open` is three actions: a file that loads, no file, a file
that is refused.

**HeaderSync.** `sync[s]` holds the local variables of one call between two awaits, and `pc` which
answer it waits for. `SyncStart`, `VersionAnswer`, `TipAnswer` and `BatchAnswer` are the stretches
between awaits; `BatchAnswer` splits by what `appendBatch` says and by whether a fork is staged
(`BatchExtends`, `BatchStaged`, `BatchRewinds`, `BatchRefused`). What follows each handled batch,
the head of the loop and the decision after it, is `LoopOrEnd`. A `cp_height` branch is the fact
that it can fold only a header of the pinned chain to the pinned root; that a branch over a tree of
hashes does so is `BranchPinsPosition` of `BlockCommitments`.

**ElectrumTransport.** One action per callback: `Call` and `Send` are `request` before and after its
await, `Timeout` the timer, `DialSucceeds`, `DialFails`, `SocketBreaks`, `SocketCloses` the socket
events, `FirstHalf` and `SecondHalf` the data event with half a line and with its end, `Close` the
owner's. Closed and broken sockets keep delivering events, as they do in node.

**HttpPool.** `call[r]` is one request of a pool: where it is, the turn it began with, how many
members it has gone through, the attempt, and the body so far. `Headers`, `NoBody`, `Chunk`,
`BodyEnds`, `Cancelled`, `NetworkError` are what the server's answer does, piece by piece;
`Deadline` is the timer, which may win against any of them, `Wake` the end of a backoff.
`MemberFails` moves on to the next member, `TryLater` to the next attempt while there is one.
Work that has lost the race against its deadline is not followed: its promise is read by nobody.
`failed` is history.

**HeaderTrust.** An endpoint is a spelling, a server is who answers: attesters are compared by
server, as `sourceIdentity` does. `MayAnchor` and `MayRefuse` say what the verdict may be over all
the answers the attesters may give; both hold where the answers leave it open.

**CustodyFetch.** `phase` is where `fetchCustody` waits; `ended` is how earlier leaders failed, and
is what `sharedDomainRefusal` judges. A claim stands for the answers about one hop; what a liar may
claim is `Possible`: anything but a fold that the chain does not allow. `build.gave` is history,
read by properties only; `world` is the environment, drawn at the start and never changed.
`ExitCode` is what the command line makes of the outcome.

**SatFetch.** As `CustodyFetch`, with two kinds of requests: those that decide a refusal go to the
lead (`TakeReveal`, `TakeCoinbase`), the funding transactions to the pool (`WalkFunding`), whose
members are recorded in `build.used`. A txid fixes the funding transactions, so nobody can lie about
them; it fixes neither the reveal's witness, which is `executed` or the ledger's `other`, nor the
blocks. `world.hook` is `makeHeaderTrust`, or a caller's hook that only rejects headers.

**Gateway.** `slot[s]` is one running call of `handle`; its phases are its awaits. A miss is looked
up in `Arrive` and stored in `ProofBuilt`, `Anchored` or `UpstreamAnswers`, with anything between.
`answer` is the response of the last step. `KeyFor`, `RefusedEncoding`, `Immutable` are the
functions of those names (`cacheKeyFor`, `refusedEncoding`, the test of the path in `proxy`).

**Sidecar.** A process is a gateway or a sidecar, as its configuration has it (`Serve`). The handler
is `SidecarArrive` up to its first call to the node and `HealthAnswers`, `SidecarFails`,
`SidecarBuilt` after; the node is the server of the first backend and may lie, be down or run
without txindex.

**TokenBucket.** A token is counted in the time it takes to earn it, so the refill of `take` is
exact in integers. `order` is the insertion order of the map, which decides whom the cap evicts.
`window` and `due` are history about one client, any one.

**SatSpace, SatLedger.** The operators have the functions' names. The ledger is consensus: it moves
sats first in, first out, lets a coinbase underpay, and marks sats that were a fee, which the code
refuses to follow. The code sees only the values. `LedgerSpec` allows any spends and any outputs;
`MCFormats` takes those it can enumerate (`SpendSome`, `MineSome`): one or two inputs, all paid out to
one output, or all but one sat to two, of which the first gets none or one.

**Merkle, BlockCommitments, Taproot.** A hash is the term that was hashed, so equal hashes are equal
terms; a branch, a claim or a witness ranges over everything that can be put together from nodes an
adversary knows. The point of an output key is internal key and root, its parity a number.

**Envelope.** A script is a sequence of instructions over the pushes that matter: empty, `ord`, an
even tag in two spellings, number opcodes, and a push that is cut. `Read` is ord's reader, which
never goes back; `fromInstructions` is the cursor parser.

**Gallery.** A field is a sequence of CBOR heads with their own bytes; the widths of txids and
indices, the values of a byte and the depth of nesting are constants (32, 4, 256, 128 in the code).
The decoder is a function of the place in the field and the depth, `decodeFrom`. `Declare` adds an
entry to the gallery, of the kinds that `IsEntry` admits; `Written` is the field its author may write
it in, and `DeclaredAt` what the entry says, by the forms an id has and not by how they are parsed.
Only false, true, null and undefined keep a kind of their own: every other simple value, in its head
or in a byte behind it, and every whole float comes out of the decoder as a plain number
(`SimpleValue`), and may then be a key or an index. So `DeclaredAt` takes for an index whatever
stands for a number (`NumberForms`); that gallery.ts says otherwise is `NonItemsAreSkipped`.

**CompactBits.** Radix and width are constants, 256 and 32 in the code, and a shift by some digits is
a product or a quotient with their `Power`. `PeriodEnds` closes a period of any length and retargets;
`TargetToBitsUnsigned` shows what the sign bit is for.

**CommandLine.** `argv` grows token by token; `parseArgs`, `FlagObjections` and `ArmObjections` are
the checks in the order of `main`, `Works` is what a command leaves behind for each way its work may
end. A flag's value is `<<>>` where the code has `true`. `Ordered` and `Said` are what the line says
to who reads it: its first word behind no flag is the command, or the URI; a flag has the word behind
it. parse and proof do not read `--json` and put out JSON all the same, as `main.ts:295` has it.
`OrdersAreHonoured` excludes three lines by name: one with a word behind `--json` (`WordBehindJson`;
`JsonSwallowsNothing` is about it), one with a flag typed twice (`FlagTypedTwice`: the last counts),
and the pin of a delegated body (`PinsADelegate`: `docs/spec/SPEC-URI.md:79` has the code's rule,
`uri.ts:19` another).

## Runs

| Run | Question | Result |
|---|---|---|
| `header_sync` | Does one caller at a time, against any server, with deaths at any point, implement `AdoptedChain`, never lose work, respect the pinned checkpoint, and end? | holds |
| `header_sync_disk_error` | Is `dirty` true whenever memory and file differ, after a write error too? | violated |
| `header_sync_attest_staged` | Is what `headerSyncTrust` attests always adopted? | violated |
| `electrum` | Does every waiter have a timer, does a failed dial leave the transport usable, does every request settle once dials end? | holds |
| `electrum_hung_dial` | Does a request settle although its dial never ends? | violated |
| `http_pool` | Does a request ask every member once and end, and are exactly the members that served recorded, with requests, deadlines and retries interleaved? | holds |
| `custody_fetch` | Is the custody returned true with fewer liars than the quorum, is one honest backend enough, is a unanimous refusal the chain's, and out of scope only what is? | holds |
| `sat_fetch` | The same of a sat's identity: is the number the ledger's, does what was built verify, is one live member enough, is a unanimous refusal the chain's? | holds |
| `gateway` | Gateway and sidecar: is the cache honest, accounted for and does it fit the request; is what is served verified true; is a 404 an absence? The limiter: are rate and burst kept and `Retry-After` enough, through sweeps, evictions and a clock set back? | holds |
| `formats` | Do the algorithms agree with their references for every input within the bounds, does the command line do what it was told, and do calls in any order, files of every kind and deaths inside writes keep chain, total work and file of headers consistent? | holds |
| `gallery_simple_index` | Is every entry that is no item skipped? | violated |
| `json_takes_word` | Does `--json` swallow no word? | violated |

`formats` asks thirteen questions. `SatsAreFollowed`: the walks back and forth find every sat where the
ledger put it, refuse exactly the fees, and custody and identity speak of one sat. `NumbersAgree`:
heights, epochs, names and degrees are one numbering. `BranchPinsPosition` and
`CommitmentPinsWitness`: what a root, or a witness commitment, can be made to say of a block.
`EnvelopeIsCommitted`: a reveal's script is a leaf, at the reported depth, of the output it spends.
`ParserFollowsOrd`, `TakenOnce`: inscriptions are numbered and bound as by ord. `GalleryIsDeclared`:
a gallery has the members that were declared, each in its place, and only a whole field is one.
`RetargetsAreConsensus`: a retarget yields the largest target that compact form can write, within
limit and clamp. `OrdersAreHonoured`: work begins only if it is what the first free word orders and
it reads every flag that was typed, as it was typed, but for the lines excluded above. `ChainSound`:
a chain of headers is one that was accepted header by header, and its work is theirs.
`DirtyTracksFile`: memory and file differ only where `dirty` says so. `NeverUnloadable`: no death
inside a write leaves a file that `open` refuses.

Each violation is a finding in `PROJECT.json`, with the sentence of the repository it contradicts.
In short:

1. *Disk error.* `appendBatch` commits in memory, then writes. When the write throws part of the
   way, `dirty` is still false, and the next persisting append adds to a file with a gap.
2. *Staged branch.* "Staged in memory" means staged in the shared object: while the sync awaits,
   `headerSyncTrust` attests headers of a branch that may never be adopted.
3. *Hung dial.* `request` arms its timer after the dial it awaits, and the dial has no deadline.
4. *Simple value as index.* `gallery.ts:20` says that entries which do not decode as items are
   skipped. An entry whose index is the CBOR simple value 1, or the float 2.0, is listed as a member.
5. *`--json` takes a word.* `main.ts:294` says that it "can swallow no value", but it is parsed like
   any flag: `ord-resolve --json custody <id>` does not walk custody, it resolves `<id>`.

In the passing runs of the same modules these circumstances are absent, and said to be: no write
errors in `formats` and `header_sync` (a death inside a write is there), one caller in
`header_sync`, dials that end in `electrum`, one faulty server in `gateway`; and `NoFalseAbsence`
speaks only of backends that have the whole interface.

Read off the models, or off the code while they were written, and not given a run:

- Two overlapping calls of `syncHeaders` can lose work: a restore brings back a snapshot that is
  older than what the other call appended. `SyncSound` holds all the same.
- A batch is appended and persisted before its `cp_height` branch is verified; `headersync.ts:522`
  says that it "must fold".
- Whatever of a backend's paths answers 404, the gateway counts it as an absence: a backend without
  the merkle-proof path makes a confirmed inscription a 404.
- `README.md:70` says the coinbase's own height is cross-checked "so the one figure a server could
  otherwise choose freely is verified too". Below 230 000 a caller's hook that only rejects headers
  leaves that figure to the coinbase's push where there is one, and a push was not yet required to
  be the block's height there. `SatIsTrue` names the case.
- Of a repeated flag the last one counts and the others are dropped in silence, while `main.ts:144`
  says that a flag which changes nothing must not be.
- `proof` and `resolve` exit with 1 when no backend answered, where the usage gives 5 to "a
  build no configured backend completed" and says that "the code does not depend on the command".
- `taxonomy.ts:57` says the mapping is the same on both contexts; `SatPositionError` is `INVALID` of
  a document and `UNPROVEN` live.
- `uri.ts:19` says the pin is of the undelegated body; on `/content` it is checked against the
  delegate's, as `docs/spec/SPEC-URI.md:79` says it should.
- A deadline that fires while an oversized body is being cancelled turns the final cap error into a
  timeout, which is retried.

### Bounds

- *Headers.* A tree of 15 headers over heights 2 to 7, a retarget every 2 headers, a median over 3.
  It has two rivals for the most-work rule at height 5 and above (one shorter and heavier, one
  taller and lighter), a fork from the base, and one header for each check of `appendBatch`. Batches
  of up to 2, so that a batch can end before, at and after a boundary or a fault. `MaxReorg` 2 lets
  the third rewind be refused. `formats` begins from six files: none, sound, torn, of another
  base, with a gap, with wrong bits.
- *Sync.* One caller. A server may claim any tip up to height 7 and answer any batch at any time;
  the pinned height is 4, so batches lie below, across and above it.
- *Electrum.* Three requests and three sockets: one request can find a socket, one await its dial
  and one await the dial after it, with a stale socket still to close. The buffer cap of one half
  line makes both the overflow and its absence happen.
- *HTTP.* Two requests, three members, two attempts, a cap of two bytes with chunks of up to two:
  requests that start from different turns can meet at one member, a body can end below, at and over
  the cap, and an attempt can be the last.
- *Custody.* Two backends, of which the second is an attester too, and two more attesters, one of
  them listed under two spellings; a quorum of 2 and a depth of 2; up to 3 of the 4 servers lie and
  one is down; three paths: within the cap, beyond it with two hops in one block, and one that burns
  the sat.
- *Sat identity.* The same servers and a quorum of 2; six ledgers over four heights: a provable sat,
  an old coinbase that pushes a height to come, a reveal that points at a fee, one of two inputs, an
  unbound one, and an ancestry beyond the cap. Each ledger has a second witness that a liar may
  show.
- *Token bucket.* Three clients under a cap of two, of which the two that are not watched are
  interchangeable; a token costs 2 units, a bucket holds 4, a second is 2. 5 units of clock, each of
  which may also be set back: a bucket can be emptied, refilled, swept, and met again from before.
- *Gateway.* Two handlers, a cache of 3 bytes with entries of at most 2, so that eviction,
  replacement and refusal happen. Each behaviour draws one workload of requests that compete for
  something: two levels of one proof, two ways to one content with and without the coding, content
  beside what moves with the tip. All three personalities and the sidecar; block 1 is a checkpoint
  and block 2 is vouched for by attesters; one server lies, is down or lacks a path. The two
  handlers are interchangeable. A behaviour is about the handlers or about the limiter: they share
  no state.
- *Sats.* Blocks of a subsidy of 4 that halves every 2, three blocks with up to two spends: enough
  for a fee, a zero-value output, two inputs, an underpaid coinbase and a halving in one ledger.
- *Blocks and trees.* Up to five transactions: all odd levels of up to three levels occur. Up to
  four tapscript leaves, one level deeper than the limit of depth 2.
- *Scripts.* Up to three instructions after each of three beginnings (nothing, an open payload, a
  stutter before an empty envelope), beside an input with an envelope of its own or without one.
- *Galleries.* Two entries, each of any kind, written with lengths or breaks, after a list that is
  overwritten or none, with txids for both, for one and a half, or for none: a member behind one that
  is skipped, the edge of the index and of the depth. An index is an integer up to the edge or beyond,
  a negative one, a simple value (1, true, undefined, 23 in a byte of its own), or the float 2 or -1.
  Every field is also cut at every place.
- *Compact bits.* Radix 4, six digits, a timespan of 4, periods up to 18 long: beyond both clamps.
- *Command line.* Up to four tokens over all commands, an id and its URIs, a number, a level, an
  empty word, and names of every sort: of one command, of several, boolean, misspelt.

Custody, sat identity, HTTP, gateway, transport and formats (all but the file of headers) come to an
end, which is why their configurations say `CHECK_DEADLOCK FALSE`.

### Fairness

`FairSpec` of `HeaderSync` lets every outstanding request settle: the transport under it arms a
timer for each request it has sent. (Where the transport does not, run `electrum_hung_dial`, the
sync does not end either.) `LoopSpec` of `ElectrumTransport` assumes what the event loop does by
itself: promises resume, armed timers fire, a destroyed socket gets its close event. It assumes
nothing of servers. `FairSpec` adds that dials end, which is the network's doing and not the code's;
that is what the two runs of the module tell apart. `PoolSpec` of `HttpPool` assumes that the deadline
of an attempt and the end of a backoff fire, both being timers that are armed before anything is
awaited. None assumes that a server answers. The other modules state safety only.

## Proofs

All theorems hold for every value of the constants that meets the named `ASSUME`s of the modules.

| Theorem | Says | Inductive invariant |
|---|---|---|
| `ChainTypeCorrect`, `ChainAlwaysSound` | `ChainSpec => []ChainTypeOK`, `[]ChainSound` | `ChainInv`, both together |
| `DirtyAlwaysTracksFile`, `NeverMadeUnloadable` | without write errors, `ChainSpec` implies `[]DirtyTracksFile` and `NeverUnloadable` | `FileInv` on top of `ChainInv` |
| `SyncTypeCorrect`, `SyncAlwaysSound` | `Spec => []TypeOK`, `[]SyncSound` for any number of overlapping callers | `SyncInv`: `ChainInv`, and each call's locals typed, its snapshot sound |
| `SyncImplementsAdoptedChain` | with one caller, no write error and no file to begin with, `Spec => ImplementsAdoptedChain` | `OneCallInv` on top of `SyncInv`; step simulation (`Simulated`) |
| `SyncAlwaysKeepsWork`, `SyncAlwaysPinned` | with one caller (the first without write errors), `Spec` implies `SyncNeverLosesWork`, `PinnedSyncIsPinned` | `BegunInv` on top of these; `PinInv` on top of `SyncInv` |
| `TransportTypeCorrect`, `WaitersAlwaysTimed`, `TransportNeverWedged` | `Spec => []TypeOK`, `[]EveryWaiterIsTimed`, `[]NeverWedged` | `Inv`: with types and `DialsTracked` |
| `RequestsAlwaysSettle` | `Spec /\ GuardFairness => RequestsSettle`, for any number of requests and sockets | `LiveInv`: `Inv` with `DialsBegun` |
| `PoolTypeCorrect`, `ExhaustedAlwaysMeansAll`, `ServersAlwaysRecorded` | `PoolSpec => []PoolTypeOK`, `[]ExhaustedMeansAll`, `[]ServersAreRecorded` for any number of requests and members | `PoolInv`: with types and `Progress` |
| `PoolRunsDown`, `StepsAlwaysBounded`, `TimersBringOn` | each step of a request takes it nearer its end, by a bounded count (`StepsLeft`); the timers make it take one | `CountedInv`: `PoolInv`, and an attempt under way is counted |
| `SyncRunsDown`, `SyncAlwaysBounded`, `CallsFetchOrEnd`, `AnswersBringOn` | with one caller, each answer that does not end a call leaves it fewer requests, by a bounded count (`RequestsLeft`); requests that settle bring it on | `RewindsInv`: `PinInv` and the bound on rewinds, on top of `SyncInv` |
| `QuorumNamesTheBlock`, `EnforcedDepthIsReal` | what an anchored header and an enforced depth show, by counting attesters | none: `HeaderTrust` has no state |
| `CustodyTypeCorrect`, `CustodyAlwaysTrue`, `DepthAlwaysReal`, `BuildAlwaysVerifies`, `OneHonestBackendAlwaysSuffices`, `UnanimousRefusalAlwaysTrue` | `Spec => []TypeOK` and `[]` of every property of run `custody_fetch` | `Inv`: with types, `BundleIsSound`, `LeadIsTrue`, `EndsAreTrue`, `AnchorsAreTrue` |
| `SatFetchTypeCorrect`, `SatAlwaysTrue`, `BuildAlwaysVerifies`, `OneLiveMemberAlwaysSuffices`, `GivenUpAlwaysHopeless`, `UnanimousRefusalAlwaysTrue` | `Spec => []Typed` and `[]` of every property of run `sat_fetch`; `[]GivenUpIsHopeless` | `Inv`: `Typed`, `Control`, `BuildIsSound`, `AnchorsAreTrue`, `EndsAreTrue`, `OutcomeIsTrue` |
| `LedgerIsKept`, `SatsAreAlwaysFollowed`, `NumbersAlwaysAgree` | `LedgerSpec => []LedgerInv`, `[]SatsAreFollowed`, `[]NumbersAgree`, for chains of any length, any inputs and outputs, any schedule of subsidies | `LedgerInv`: each transaction `Filled`, and `Minted` or `Fifo`; each sat `MintedAt` its place; what is unspent an output |
| `GatewayTyped`, `GatewayCacheHonest`, `GatewayVerifiedIsTrue`, `GatewayAnswersFit`, `GatewayNoFalseAbsence`, `GatewayCacheAccounted` | `Serving => []Typed` and `[]` of every property of run `gateway` | `Inv`: `Typed`, a cache of `Genuine` entries, `SlotOK` of each handler, and the two of the last answer; `Account` of the cache on top |
| `RateAlwaysHolds`, `RetryAfterAlwaysSuffices` | `BucketSpec => []RateHolds`, `[]RetryAfterSuffices` | `BucketInv`: `BucketTyped`, `Covered`, `RateHolds`, `EarnedByDue` |
| `BlockAlwaysPinsPosition`, `BlockAlwaysPinsWitness` | `BlockSpec => []BranchPinsPosition`, `[]CommitmentPinsWitness`, for blocks of any size | `BlockTypeOK`; before there is a coinbase nothing is committed to. The work is in the lemmas about trees |
| `TreeIsFaithful`, `EnvelopeAlwaysCommitted` | `TreeSpec => []Faithful(tree)`, `[]EnvelopeIsCommitted`, for trees of any size | `Faithful`: `Sound`, `Complete`, `Alone` |
| `RetargetsAlwaysConsensus` | `BitsSpec => []RetargetsAreConsensus`, for any even radix, width, limit and timespan | `BitsTypeOK`: the bits of a period stand for a target no easier than the limit |
| `ReaderKeepsUp`, `ParserAlwaysFollowsOrd`, `AlwaysTakenOnce` | `EnvelopeSpec => []EnvelopeInv`, `[]ParserFollowsOrd`, `[]TakenOnce`, for scripts and payloads of any length | `EnvelopeInv`: the reader has read the script from its start, or came to a cut |
| `OrdersAlwaysHonoured` | `CommandSpec => []OrdersAreHonoured`, for any command line of any words and flags | `ArgvTyped` |
| `GalleryAlwaysDeclared` | `GallerySpec => []GalleryIsDeclared`, for galleries of any size, entries of any kind, fields of any length, any widths of txid and index, any depth | `GalleryTyped`. The work is in the lemmas about the decoder |

The type invariants of these modules are proved and not run, and so is `GivenUpIsHopeless`, that the
loop of `SatFetch` is left early only when the members that never led are of no use; the type
invariants of the other modules document the state.

*Chain.* The heart is that a header is judged by the chain below it alone (`ConsensusBelow`): so a
prefix of a valid chain is valid (`ValidPrefix`: rewinds, files cut short) and a chain extended by
an accepted batch is valid (`ValidAppend`). The running total follows from `CumWork` being the
parent's plus the header's own, which `WorkAssumption` says of the tree. `BaseAssumption` says what
the code's default base satisfies: it meets its target, starts a retarget period and agrees with its
checkpoint.

*File.* `DirtyTracksFile` and `NeverUnloadable` are not inductive: that a write leaves a file which
`open` accepts needs that the chain in memory would be accepted if it were written now. `FileInv`
says so (`Loadable`: valid, and no header ahead of the clock, which only moves on). A death inside a
write leaves a prefix of a loadable chain or a torn file (`RewriteCutIsSane`, `AppendCutIsSane`).
The hypothesis `NoDiskErrors` is needed: run `header_sync_disk_error` is the counterexample without
it.

*Sync.* A snapshot is restored after arbitrary steps of other calls. That is why the invariant must
say of every snapshot by itself that it is sound, and not only that it was the chain once. `TypeOK`
and `ChainSound` do not imply that; with it every action preserves the invariant, `LoopKeeps` and
`VerifyKeeps` being the common parts.

*One caller.* `OneCallInv` says where the adopted chain is at any time (`Held`): in the snapshot
while a branch is staged, and always in the file, which is why a death loses nothing but the tail of
a write cut short. The staged branch keeps all but the topmost `rewinds <= MaxReorg` headers of the
snapshot, so that its adoption is a reorganisation of no more; a branch that is staged and not marked
dirty is the snapshot itself, so that no adoption skips its write. Each action has one lemma, and
each lemma shows both the step of `AdoptedChain` and that what is held stays or gives way to more
work in a call that returns (`Kept`). From `Kept` follows that what a call began with is still there
when it ends (`BegunInv`), or outweighed: that a chain outweighs its prefixes (`WorkGrows`) is by
induction over its length. The provers take no induction theorem with a predicate as parameter; the
least member of a set of naturals, from `WFMin`, serves as well (`SetInduction`). `PinInv` says that
a call waits for headers only above its chain and up to the claimed tip, with the branch asked for
if that tip is not above the pinned height, so that a rewind never ends a call. With two callers the
three properties are false (TLC finds each violated with `Syncers = {s1, s2}`): one call may rewind
the chain under the other, or restore a snapshot over what the other has appended.

*Every call ends.* An answer that does not end a call makes the chain longer, or costs a rewind and
makes it shorter (`AnswerRunsDown`). So the rewinds left count first and the headers left second:
`RequestsLeft` is both in one number, with `MostHeaders` above any number of headers left, which is
where `PinInv` is needed again (a call never waits with nothing to fetch). It decreases with every
step that changes the chain or the call (`SyncRunsDown`) and is bounded by what the server claimed at
the beginning (`SyncAlwaysBounded`). As outstanding requests settle, a call gets past its first two
(`CallsFetchOrEnd`) and, with `n` requests left, comes to fewer or to its end (`AnswersBringOn`).

*Transport.* `NeverWedged` alone is not inductive: a socket that breaks could leave a finished dial
behind. `DialsTracked` says that the current socket still has its close event to come and that a
dial is over exactly when its socket is up.

*Every request settles.* Nothing brings a request back to an earlier stage (`OneWay`), and a dial that
has begun is not forgotten (`DialsBegun`: the socket of a call that still connects has been dialled).
So a request waits for a dial, which ends (`DialsEnd`), then for its continuation
(`ResumableGoesOn`), then for its timer (`WaitingIsSettled`). `GuardFairness` says of each of the three
what `FairSpec` says with `WF`, with what enables the action written out, since the provers do not know
`ENABLED`: it is implied by `FairSpec`, as where the guard holds the action can be taken and changes a
variable. Of the fairness of `FairSpec` that of `SocketCloses` is not used.

*Pool.* That a request gives up only when all have failed it does not follow from what failed last.
`Progress` says which members have failed a request at any time: those behind it, going round from
where it began (`Distance`). The one fact of arithmetic is that the member asked is the one at the
distance of the count (`AskedIsAtDistance`); after the last one all are behind. The cursor that the
requests share does not occur in `Progress`, and that is the point.

*Every request of the pool ends.* `StepsLeft` counts, for a request, the members left, the attempts left
with the one it is at, and the bytes left of its answer, in this order of weight. Every step of the
pool is a step of one request and decreases its count (`PoolRunsDown`), from a bound in the constants
(`StepsAlwaysBounded`); and where a count is positive and the request under way a timer runs, which
brings it down by itself (`TimersBringOn`).

*Header trust.* If a block that is not the one of its height is anchored, every attester that agrees
is a liar, and attesters are no more than the servers they are (`VotersAreCounted`: one place for
each server): so `MinAgreement` of them lie. A tip above the chain's is a liar's too; if it were the
median, at least half of the stated tips would be liars', while every truthful attester states one
(`MedianHalves`).

*Custody.* `BundleIsSound` says of a bundle that is being built what the verifier will ask of it,
with who served recorded as who gave; `LeadIsTrue` that a truthful lead builds the path itself,
since its next hop passes every check; `EndsAreTrue` what a finished attempt says of the chain;
`AnchorsAreTrue` what the header trust lemmas say of the hops anchored so far. The first hop that is
not on the path would have to spend one that is (`CustodyAlwaysTrue`). `PathAssumption` says that a
path is in the order of the chain. No bound on the liars, the heights or the hops is used.

*Sat identity.* `BuildIsSound` says of each part of a bundle what was checked of it, from the phase
in which it was taken: the block of the reveal is its own or forged, the witness the executed one
unless the lead lies or no block of the chain shows it, the walk within the cap and not at a fee,
the coinbase first in its block and stating its height. The rest is as for custody. `EndsAreTrue`
speaks of what a liar in the pool may do to a truthful lead too: cost it the attempt, never make it
refuse. `LedgerAssumption` is all the proofs use of the ledgers, and of the walk: that the reveal
and the coinbase the walk ends at have heights, and that from the boundary on a coinbase states its
own. What number the walk finds is another matter, of the sats.

*Sats.* The ledger moves sats and the code moves values, so `LedgerInv` ties them: an output holds as
many sats as it is worth (`Filled`); the sat at a place of the outputs of a spend is the one at the same
place of its inputs (`Fifo`); that of a coinbase has the number `coinbaseSatAt` gives its place, or was
a fee (`Minted`). Spends and coinbases keep it because a stream that is joined from pieces and cut into
others has one order (`FlattenPieces`, `CutPieces`). Inputs and outputs of a hop are two ways to cut one
stream, and in each a sat is in exactly one piece (`PieceIsFound`, `PlaceIsUnique`): that is the walk
back (`BackFollows`: one step leads from an output to the sat it came from) and the hop forward
(`HopForward`, where that no outpoint is spent twice matters). The walk ends, since each step leads to
an earlier transaction (`WalkEnds`). The two verifiers start from one position (`OnePosition`). Nothing
is assumed of the ledger but how it moves: zero values, many inputs, underpaid coinbases and a subsidy
that has run out are in it.

*Numbers.* One more block adds its subsidy to `firstSatOfBlock`, in the same epoch or at the start of
the next (`OneMoreBlock`, `NextFirstSat`), so that `minted` grows as the closed form says. `HeightOfSat`
inverts it: the sats of an epoch are its subsidy times its blocks, division with remainder is unique
(`DivModUnique`), and no earlier epoch reaches as far (`SatsBeforeGrow`). A name is that of the quotient
with the remainder behind it; the next number has the next remainder, or none and the next quotient,
which is what `Successor` does to the letters (`SuccessorOfLast`, `SuccessorCarries`,
`NamesSucceed`). Sums, names and the walk are recursive functions chosen by their equations: that
each has a solution is shown a round at a time (`LoopRuns`, `NameRuns`). `SubsidyAssumption` says that
the subsidy runs out at the final epoch and no earlier, as 50 * 10^8 does at the 33rd halving.

*Gateway.* An entry outlives the handler that stored it, and a handler waits while the chain grows,
the upstream moves and others store under its key: so the invariant says of every entry by itself
what a request with its key may be sent (`Genuine`), and of every handler what it may go on with
(`SlotOK`), and both are facts that growth keeps (`GenuineStays`, `SlotStays`). `Genuine` says more
than `CacheHonest`: what is marked as coded is, without which a hit could evade the negotiation, and
what was anchored is true, which the header trust lemma gives at the moment of anchoring
(`AnchoredIsTrue`) and nothing later could. `CausesAreTrue` says of each backend that has said
absent why it might (`AbsenceExcused`), as of the time the request came. Of the cache only this much
is used: what `get` and `set` leave was there before, or is the new entry (`LruGetKeeps`,
`LruSetKeeps`), whatever is evicted. The cache's account is an invariant of its own (`Account`),
kept by each `get` and `set` (`GetAccounted`, `SetAccounted`), which are all that a step does to the
cache (`OneCacheStep`). The bytes of a sequence are a recursive function, which is shown to exist
and to add up over the segments of the sequence by induction on their length (`BytesAreTotals`,
`SegmentBytes`), with a set of naturals for the predicate. The assumption that some backend is
configured is the code's (`ProofAssumption`).

*Token bucket.* `RateHolds` counts what was granted, the bucket what may yet be. `Covered` adds the
two: what was granted in the window and what the bucket would hold now are within a full bucket and
what the time since earned; a bucket that is gone counts as full, which is why the sweep may drop
only what has refilled. `EarnedByDue` does the same for the time a client was told, and rests on the
rounding up of `Retry-After` (`RoundedUp`). The bounds on the clock and on the number of clients are
not used.

*Merkle branches.* No state is needed: a block of `n` transactions is its ids, and what is to be shown
is what a root binds. The run compares the code's fold with all branches over the nodes of trees of up
to five leaves; the proof takes any branch of any terms. It follows the fold down from the root
(`AcceptedLeaf`): at every level the node of the fold is the level's node at the fold's index. The
step (`StepDown`) is where the claimed count matters, since one count of the tree's depth is as good as
another to `treeHeight`. A node of the padding of an odd level would be at an index beyond the level;
the fold is then in the last pair of an even claimed width with two equal nodes, or claims a last odd
node, and both are what the code refuses. For that the invariant of the descent carries that the
claimed width is no larger than the level where the index is the level's last. In the other direction
(`BuiltIsAccepted`) a built branch stays on the path and is never refused, unless a level ends in a
pair of equal nodes, which distinct leaves exclude at every level (`ParentsDistinct`). That a root is
of one list (`RootIsOfOne`) goes down two trees at once: levels of the same parents and without a
duplicated tail are the same (`ParentsOfOneList`), so the trees have the same levels until the lower
one is at its leaves, which are ids and no hashes. The heights, levels and folds are recursive
functions: that their equations have solutions, that two solutions agree, and what holds at each level
is by induction on a set of naturals (`InductionBySet`).

*Witness commitment.* The coinbase is pinned by its txid at place 0, its outputs with it, and so the
last matching output, the miner's commitment; the commitment is a hash of the root of the wtxids and
the reserved value, so that a branch which meets it folds to that root, and the descent applies to the
tree of wtxids with a zero in the first place.

*Taproot.* `EnvelopeIsCommitted` says nothing of how a tree was grown, so it is not inductive.
`Faithful` says that a path folds to the root exactly if it is that of a leaf, for paths of any terms;
joining two trees keeps it because a branch is the unordered pair of its nodes and no branch is a leaf
(`JoinFaithful`). `Alone` is for the depth that is reported: an empty path means that there is nothing
beside the script.

*Compact bits.* A target can be written (`Written`) if it is a mantissa below the sign bit, so many
digits up. `targetToBits` rounds down to one (`RoundedTo`), in one of five ways: short targets are
exact unless their mantissa would set the sign bit and gives up a digit, long ones lose the digits
below three, or below two (`ShortTarget`, `LongTarget`). None that can be written is between
(`RoundedIsLargest`): with as many digits up or more it would be a multiple of the rounding unit, with
fewer its mantissa is too small, as the top digit of the rounded one is at least half the radix's. The
scaled, clamped and limited target is in turn the bound of all that may follow (`ScaledBounds`), by
rules of order for products and quotients, since the solver knows no multiplication of two variables.
`BitsAssumption` says what the code's numbers satisfy: 256 is even, 1 209 600 a multiple of four and
`powLimitBits` stands for a target.

*Envelopes.* The reader goes through a script once; the parser's scan is a recursive function that
starts over at cursors of its own. `Follows` relates the two in the middle of a script: what the
reader has found, followed by what the parser finds from where the reader's attempt began, is all the
parser finds. It is by where the reader is: scanning, after an empty push, after `OP_IF`, or in a
payload, of which it says that the parser's attempt will run to the same end (`Within`). Each
instruction keeps it (`FollowsScanning` to `FollowsEnd`): a probe that fails must leave the cursor
where the reader is, with the same stutter flag, which is the property's point. At the end of the
script the parser finds no more (`NoneIsLeft`). That the scan exists (`ScanExists`) is by induction
from the end of the script, and rests on attempts that never go back (`AttemptFacts`). For `TakenOnce`
the places of the fields are those of the keys before the body (`FieldPlaces`), and more than one
pointer means one that is not the first (`ManyAre`).

*Command line.* For any words, any names of flags and any number of tokens. What was typed and what
was parsed meet in `Says`: from a place to the end, the parser has the flags that stand there, each
with the value behind its last occurrence. It is shown from the end of the command line (`SaysAll`),
as the parser prepends, and there is such a parse (`ParseExists`) because a token is only ever read
with what follows it. In the same way its first word is the first that stands behind no flag
(`BeginsWith`, `FirstStands`, `CommandIsOrdered`), where no word stands behind `--json`. The rest is
of any arguments and any end of main (`EndsAreSound`): if no objection holds, a flag is in a row of
`FLAG_COMMANDS` that names the command, and so among what its work reads (`NamesAreConsulted`), but
for `--max-steps`, which verify reads only of a genealogy and objects to otherwise
(`VerifyObjects`), and `--json`, whose intent parse and proof serve without reading it (`IsServed`);
no failure of the work has the exit code of a usage error (`FailuresAreNoUsageErrors`); and what
resolves meets its pin in every mode (`ResolutionsAreIntact`, `PinsAlwaysAgree`).

*Galleries.* The decoder calls itself with places further on in the field. That there is such a
function (`ReadingExists`) is by induction from the end of the field, and rests on every read moving
forward (`ReadsForward`). A property that quantifies over all cuts of a field and all that may
follow it would be a case for each; instead `IsRead` says of the words of an item that they are read
as its value wherever in whatever field they stand, and are not where the field ends within them,
and `IsNoItem` that they are read nowhere. Then a cut or a longer field follows from the item alone
(`FieldIsRead`). Strings in chunks and tagged values are read as the plain ones (`SpelledIsRead`);
lists and maps by induction over what is in them (`ItemsRun`, `ContainerIsRead`), lists in lists by
induction over their depth, up to the last that is decoded (`NestedIsRead`). Of a map only what it
says at the two keys of the code matters (`MapSays`): it is built pair by pair (`PairExtends`,
`MapSaid`), of a repeated key the last value stays (`PutIsMap`), and a key without a value, which
can only be written where a break would stand, makes the map none (`HalfIsWritten`,
`HalfMapIsNoItem`). Ids are the other half: digits of one width spell a number in one way
(`SameDigits`), the shortest is the one without a trailing zero (`ShortestForm`), so that what is
parsed is what the value was a form of, and only that (`IdOfForm`, `FormOfId`). An index that is
read is the number its head is a form of, and there is none where the head is a form of no number
that an index may be (`IndexSays`, `IndexIsDeclared`). `MemberIsDeclared` joins the halves at one
place, and as entries and txids are counted by the same places, `FieldIsDeclared` for the whole
list. `GalleryAssumption` says that the widths are numbers and the depth, 128 in the code, admits a
field, a list, a map and a tag.

*Model-checked only.* Of the liveness properties `RequestsSettle` is proved, from fairness with its
guards written out; that `WF` implies that form is not, for want of `ENABLED`. Of `Settles` and
`SyncTerminates` the proofs have all but the last step: a bounded count of what is left, which every
step decreases and which fairness brings down from each `n`. To conclude that it comes to its end is
an induction over the naturals on a temporal formula, which cannot be put to the provers; TLC checks
both. Every safety property that a passing run checks is stated by a theorem.

## What is not modelled

- Bytes. Hashes, signatures and encodings are symbols or facts about what can be served. The
  grammars of transactions, ids and content codings (`bytes.ts`, `tx.ts`, `inscriptionId.ts`,
  `block.ts`, `decompress.ts`) have no state and large test suites. Of CBOR, the floats
  that are no whole numbers and the rewriting of metadata as JSON are left out.
- The `flag` mode of header trust, and the anchors other than checkpoints, attesters and
  `headerSyncTrust`.
- Reorganisations of blocks a proof is anchored in: `CustodyFetch`, `SatFetch` and `Gateway` have a
  chain that only grows or stands still.
- The gateway's `/metrics`, logging and shutdown; the byte cap of the gateway's own upstream
  requests beyond what `Gateway` says of refused bodies; redirects.
- The rounding of floating point in the rate limiter; a taproot tweak beyond the curve order.
- What the command line prints.
- The browser extension: it redirects `ord:` URIs to a page that calls the resolver and lays out the
  answer. `dist-unpacked/viewer.js` is the generated bundle of the packages modelled here.

## Plan

1. **Refinement.** An abstract specification of a walk (facts that may be served) that
   `CustodyFetch` and `SatFetch` implement.
2. **Composition.** The walks over `HttpPool` instead of an abstract pool, so that the failure of a
   member is that of a timed request.
3. **Gateway, the rest**: shutdown while requests are in flight.
4. **Header trust, the rest**: the `flag` mode and the remaining anchors.
