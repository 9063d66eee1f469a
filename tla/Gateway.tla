------------------------------- MODULE Gateway -------------------------------
(***************************************************************************)
(* The request handler of packages/gateway/src/index.ts, with the verified *)
(* path of packages/fetch/src/resolver.ts behind it.                       *)
(*                                                                         *)
(* Requests are handled at the same time in one event loop.  What runs     *)
(* between two awaits is one step: from the arrival to the first request   *)
(* to a server, and from each server's answer to the next.  A miss is      *)
(* looked up in the first of these and stored in the last.                 *)
(***************************************************************************)
EXTENDS ProofFetch, ByteLru

CONSTANTS
  Slots,       \* the requests there may be at one time
  Requests,    \* the requests there may be
  Workloads,   \* sets of them: what the clients of one run ask for
  Configs,     \* options.mode and options.verification
  MaxFaulty,   \* bound on the servers that lie, are down or lack a path
  MaxVersion   \* bound on the changes of what moves with the tip

Malformed == "malformed"   \* an id inscriptionIdError finds fault with

Routes == {"proof", "verified", "content", "tip", "health", "unknown"}

\* accepts: the Accept-Encoding admits the coding that a body may be in.
ASSUME GatewayAssumption ==
  /\ Requests \subseteq [route : Routes, id : Ids \cup {Malformed}, level : Levels,
                         accepts : BOOLEAN]
  /\ Workloads \subseteq SUBSET Requests
  /\ Configs \subseteq [mode : {"proxy", "verify", "sidecar"}, level : Levels]

VARIABLES
  world,    \* the configuration, the workload, and which servers are faulty
  top,      \* the height of the chain
  version,  \* what the upstream's tip endpoints say by now
  cache,    \* the ByteLru
  slot,     \* what each handler waits for
  answer    \* the response sent in the last step

vars == <<world, top, version, cache, slot, answer>>

NoRequest == [route |-> "unknown", id |-> Malformed, level |-> "L2", accepts |-> TRUE]

Idle ==
  [phase |-> "idle", req |-> NoRequest, top |-> 0, version |-> 0,
   id |-> NoId, causes |-> << >>, bundles |-> << >>, source |-> NoId]

NoAnswer == [status |-> 0]

Worlds ==
  [config : Configs, requests : Workloads,
   liars : SUBSET Servers, down : SUBSET Servers, partial : SUBSET Servers]

PossibleWorlds ==
  {w \in Worlds :
     /\ Cardinality(w.liars \cup w.down \cup w.partial) <= MaxFaulty
     /\ w.liars \cap w.down = {} /\ w.partial \cap (w.liars \cup w.down) = {}}

Init ==
  /\ world \in PossibleWorlds
  /\ top = 1
  /\ version = 0
  /\ cache = EmptyLru
  /\ slot = [s \in Slots |-> Idle]
  /\ answer = NoAnswer

-----------------------------------------------------------------------------
(* Answers.                                                                *)

\* mutation: one key for the two levels
KeyForAnyLevel(req) == [route |-> req.route, id |-> req.id, level |-> "L2"]

\* cacheKeyFor: the path, and of the query the level of a proof.
KeyFor(req) ==
  [route |-> req.route, id |-> req.id,
   level |-> IF req.route = "proof" THEN req.level ELSE "L2"]

\* A response as sent, with how things stood when its request came, where that
\* matters: what the upstream said, or, of an id no backend has found, the
\* height of the chain.
Error(status) == [status |-> status]

Ok(waited, body) ==
  [status |-> 200, body |-> body, req |-> waited.req, version |-> waited.version]

Absent(waited) == [status |-> 404, about |-> waited.id, top |-> waited.top]

Replies(s, response) ==
  /\ answer' = response
  /\ slot' = [slot EXCEPT ![s] = Idle]

\* refusedEncoding, of a stored value.
RefusedEncoding(req, value) == value.coded /\ ~req.accepts

\* sendCached
SendsCached(s, value) ==
  /\ cache' = LruSet(cache, KeyFor(slot[s].req), value)
  /\ Replies(s, Ok(slot[s], value.body))

Fails(s, response) ==
  /\ Replies(s, response)
  /\ UNCHANGED cache

Waits(s, fields) ==
  /\ slot' = [slot EXCEPT ![s] = fields]
  /\ answer' = NoAnswer
  /\ UNCHANGED cache

External == UNCHANGED <<world, top, version>>

-----------------------------------------------------------------------------
(* handle, up to its first await.                                          *)

\* The handler that a miss goes to.
Verifies(req) ==
  \/ req.route = "verified"
  \/ req.route = "content" /\ world.config.mode = "verify"

FirstPhase(req) ==
  CASE req.route = "proof" -> "proof"
    [] Verifies(req) -> "content"
    [] OTHER -> "upstream"

\* What a handler keeps of its request while it waits.
Received(req) ==
  [Idle EXCEPT !.phase = FirstPhase(req), !.req = req, !.id = req.id,
               !.top = IF FirstPhase(req) = "upstream" THEN 0 ELSE top,
               !.version = IF req.route = "tip" THEN version ELSE 0]

\* mutation: a hit is sent as it was first negotiated
HitAsNegotiated(req, value) == Ok(Received(req), value.body)

HitResponse(req, value) ==
  IF RefusedEncoding(req, value) THEN Error(406) ELSE Ok(Received(req), value.body)

\* The rate limiter lets no request or any request through; /healthz is not
\* limited.
Arrive(s, req) ==
  /\ slot[s].phase = "idle"
  /\ LET key == KeyFor(req)
     IN \/ /\ req.route # "health"
           /\ answer' = Error(429)
           /\ UNCHANGED <<cache, slot>>
        \/ /\ req.route = "health"
           /\ answer' = Ok(Received(req), << >>)
           /\ UNCHANGED <<cache, slot>>
        \/ /\ Holds(cache, key)
           /\ cache' = LruGet(cache, key)
           /\ answer' = HitResponse(req, Found(cache, key))
           /\ UNCHANGED slot
        \/ /\ ~Holds(cache, key)
           /\ \/ /\ req.route = "unknown"
                 /\ answer' = Error(404)
              \/ /\ req.id = Malformed /\ FirstPhase(req) # "upstream"
                 /\ answer' = Error(400)
           /\ UNCHANGED <<cache, slot>>
        \/ /\ ~Holds(cache, key)
           /\ req.route \notin {"health", "unknown"}
           /\ req.id # Malformed \/ FirstPhase(req) = "upstream"
           /\ Waits(s, Received(req))
  /\ External

-----------------------------------------------------------------------------
(* The loops over the backends: tryBackends and withEsplora.               *)

Asked(s) == Backends[Len(slot[s].causes) + 1]

\* The level a bundle is built for.
Wanted(s) == IF slot[s].phase = "proof" THEN slot[s].req.level ELSE world.config.level

\* The last backend failed: statusForFailure.
LoopFails(s, causes) ==
  IF AbsentToAll(causes) THEN Fails(s, Absent(slot[s])) ELSE Fails(s, Error(502))

AttemptFails(s) ==
  /\ slot[s].phase \in {"proof", "content"}
  /\ \E cause \in BuildFailures(ServerOf[Asked(s)], slot[s].id, Wanted(s), world, top) :
       LET causes == Append(slot[s].causes, cause)
       IN IF Len(causes) < Len(Backends)
          THEN Waits(s, [slot[s] EXCEPT !.causes = causes])
          ELSE LoopFails(s, causes)
  /\ External

\* The proof route: a bundle is verified offline, then stored and sent.
ProofBuilt(s) ==
  /\ slot[s].phase = "proof"
  /\ \E b \in Built(ServerOf[Asked(s)], slot[s].id, Wanted(s), world, top) :
       IF Verified(b, top) /\ CheckpointsAllow(b)
       THEN SendsCached(s, [body |-> <<b>>, size |-> 1, coded |-> FALSE])
       ELSE Fails(s, Error(502))
  /\ External

\* verifyInscription, up to the anchor; no other backend is asked when the
\* bundle of one does not verify.
ContentBuilt(s) ==
  /\ slot[s].phase = "content"
  /\ \E b \in Built(ServerOf[Asked(s)], slot[s].id, Wanted(s), world, top) :
       IF Verified(b, top)
       THEN Waits(s, [slot[s] EXCEPT !.phase = "anchor", !.source = Asked(s), !.causes = << >>,
                                     !.bundles = Append(@, b)])
       ELSE Fails(s, Error(502))
  /\ External

-----------------------------------------------------------------------------
(* resolveVerified: the anchor, the delegate and the body.                 *)

\* mutation: the proof's backend may vouch for its own header
NoSource(s) == {}

\* Who may not vouch for the header.
ProofSource(s) == {slot[s].source}

Refused(s) ==
  /\ slot[s].phase = "anchor"
  /\ LET b == Last(slot[s].bundles)
     IN MayRefuse(b.block, b.height, ProofSource(s), world, top)
  /\ Fails(s, Error(502))
  /\ External

\* The content of the last bundle is served; NO_CONTENT if it has no body.
SendsBody(s, bundles) ==
  LET content == Last(bundles).content
      value == [body |-> bundles, size |-> content.size, coded |-> content.coded]
  IN IF content.size = 0 THEN Fails(s, Error(404))
     ELSE IF RefusedEncoding(slot[s].req, value) THEN Fails(s, Error(406))
     ELSE SendsCached(s, value)

\* One hop of delegation, as ord does it.
Anchored(s) ==
  /\ slot[s].phase = "anchor"
  /\ LET bundles == slot[s].bundles
         b == Last(bundles)
     IN /\ MayAnchor(b.block, b.height, ProofSource(s), world, top)
        /\ IF Len(bundles) = 1 /\ b.content.delegate # NoId
           THEN Waits(s, [slot[s] EXCEPT !.phase = "content", !.id = b.content.delegate])
           ELSE SendsBody(s, bundles)
  /\ External

-----------------------------------------------------------------------------
(* proxy                                                                   *)

\* mutation: what moves with the tip is taken for immutable
AnyImmutable(req) == TRUE

Immutable(req) == req.route = "content"

\* The upstream's response.  forbids: its Cache-Control vetoes the cache; fits:
\* its Content-Length is stated and within the cap, true or not; size: of the
\* body, 0 if it has none.
UpstreamResponses ==
  [status : {200, 404}, forbids : BOOLEAN, fits : BOOLEAN, size : {0, 1, CacheMaxEntry + 1}]

\* The upstream is trusted to send what the path names.
UpstreamBody(req) == IF req.route = "content" THEN <<[of |-> req.id]>> ELSE <<[at |-> version]>>

\* Mutable, vetoed, oversized or of unknown length: streamed through.
UpstreamAnswers(s) ==
  /\ slot[s].phase = "upstream"
  /\ \E r \in UpstreamResponses :
       LET mayCache == Immutable(slot[s].req) /\ ~r.forbids
           buffered == (mayCache /\ r.fits) \/ r.size = 0
           body == UpstreamBody(slot[s].req)
       IN IF buffered /\ r.size > CacheMaxEntry
          THEN Fails(s, Error(502))
          ELSE IF buffered /\ mayCache /\ r.status = 200
          THEN SendsCached(s, [body |-> body, size |-> r.size, coded |-> FALSE])
          ELSE Fails(s, IF r.status = 200 THEN Ok(slot[s], body) ELSE Error(r.status))
  /\ External

\* An error, or upstreamTimeoutMs is over.
UpstreamFails(s) ==
  /\ slot[s].phase = "upstream"
  /\ Fails(s, Error(502))
  /\ External

-----------------------------------------------------------------------------
(* The chain and the upstream.                                             *)

Grow ==
  /\ top < MaxHeight
  /\ top' = top + 1
  /\ answer' = NoAnswer
  /\ UNCHANGED <<world, version, cache, slot>>

TipMoves ==
  /\ version < MaxVersion
  /\ version' = version + 1
  /\ answer' = NoAnswer
  /\ UNCHANGED <<world, top, cache, slot>>

Next ==
  \/ \E s \in Slots :
       \/ \E req \in world.requests : Arrive(s, req)
       \/ AttemptFails(s)
       \/ ProofBuilt(s)
       \/ ContentBuilt(s)
       \/ Refused(s)
       \/ Anchored(s)
       \/ UpstreamAnswers(s)
       \/ UpstreamFails(s)
  \/ Grow
  \/ TipMoves

Spec == Init /\ [][Next]_vars

-----------------------------------------------------------------------------

Kept == {cache.entries[i] : i \in DOMAIN cache.entries}

(***************************************************************************)
(* "in-process byte-budgeted LRU" (SPEC-GATEWAY.md:150): the running total *)
(* is the bytes held, each key is held once, and the total is within the   *)
(* budget but for a single entry, though several handlers that missed the  *)
(* same key store it one after another.                                    *)
(***************************************************************************)
CacheAccounted ==
  /\ cache.bytes = BytesOf(cache.entries)
  /\ Cardinality({e.key : e \in Kept}) = Len(cache.entries)
  /\ cache.bytes <= CacheMaxBytes \/ Len(cache.entries) = 1

(***************************************************************************)
(* "never relay a bundle we cannot verify", "keeps level as a real cache   *)
(* dimension", "serve /content/<id> only after locally verifying": what is *)
(* kept under a key is what a request with that key asks for, verified as  *)
(* that request would have it verified, whichever handler put it there.    *)
(***************************************************************************)
CacheHonest ==
  \A e \in Kept :
    LET key == e.key
        body == e.value.body
    IN CASE key.route = "proof" ->
              /\ body[1].id = key.id /\ body[1].level = key.level
              /\ Verified(body[1], top) /\ CheckpointsAllow(body[1])
         [] Verifies(key) ->
              /\ \A i \in DOMAIN body : body[i].level = world.config.level /\ Verified(body[i], top)
              /\ body[1].id = key.id
              /\ IF body[1].content.delegate = NoId THEN Len(body) = 1
                 ELSE Len(body) = 2 /\ body[2].id = body[1].content.delegate
         [] OTHER -> key.route = "content" /\ body = <<[of |-> key.id]>>

\* Whoever lies, those left to vouch for its bundles are too few.
LiarsOutvoted ==
  \A i \in DOMAIN Backends :
    ServerOf[Backends[i]] \in world.liars =>
      Cardinality(LyingAttesters({Backends[i]}, world)) < MinAgreement

(***************************************************************************)
(* "A compromised upstream cannot make a verify-gateway serve forged       *)
(* bytes" (SPEC-GATEWAY.md:38): content that is served as verified comes   *)
(* from the block and height it says, and is what was revealed there or,   *)
(* at L2, something else the commit output commits to; and so does that of *)
(* its delegate.                                                           *)
(***************************************************************************)
VerifiedIsTrue ==
  LiarsOutvoted =>
    \A e \in Kept :
      Verifies(e.key) =>
        \A i \in DOMAIN e.value.body :
          LET b == e.value.body[i]
          IN /\ b.block = Chain[b.id].block /\ b.height = b.block /\ b.block <= top
             /\ b.content \in IF b.level = "L3" THEN {Chain[b.id].revealed} ELSE Committed(b.id)

(***************************************************************************)
(* An answer is one that a miss could have had, whoever filled the cache:  *)
(* of the id and level asked for; where it was verified, in no coding that *)
(* the request does not admit ("otherwise MUST return 406",                *)
(* SPEC-GATEWAY.md:69); and no older than the request where it moves with  *)
(* the tip, which "must never be served stale from the LRU" (index.ts:356).*)
(***************************************************************************)
AnswersFitRequests ==
  answer.status = 200 /\ answer.req.route # "health" =>
    LET req  == answer.req
        body == answer.body
    IN  CASE req.route = "tip"   -> body[1].at >= answer.version
          [] req.route = "proof" -> body[1].id = req.id /\ body[1].level = req.level
          [] Verifies(req) ->
               body[1].id = req.id /\ (Last(body).content.coded => req.accepts)
          [] OTHER -> body[1].of = req.id

\* The backends of the process: a sidecar has one node.
Consulted == IF world.config.mode = "sidecar" THEN {1} ELSE DOMAIN Backends

\* A request was told that an id is not there.
SaidAbsent == answer.status = 404 /\ "about" \in DOMAIN answer

\* A server that may not say so: one that never speaks, or has it confirmed.
MayHave(server) ==
  \/ server \in world.down
  \/ server \notin world.liars /\ Chain[answer.about].block <= answer.top

(***************************************************************************)
(* "one backend timing out while another answers 404 is not an absence"    *)
(* (index.ts:650): no request is told that an inscription is not there     *)
(* while a backend is down, or one that is truthful and complete has had   *)
(* it since before the request came.                                       *)
(***************************************************************************)
NoFalseAbsence ==
  SaidAbsent =>
    \A i \in Consulted :
      ServerOf[Backends[i]] \notin world.partial => ~MayHave(ServerOf[Backends[i]])
=============================================================================
