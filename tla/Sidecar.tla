------------------------------- MODULE Sidecar -------------------------------
(***************************************************************************)
(* The proof sidecar (packages/sidecar/src/index.ts): the gateway's proof  *)
(* route in front of one Bitcoin Core node, with the gateway's cache, rate *)
(* limiter and error predicate around a handler of its own.  A process is  *)
(* a gateway or a sidecar as its configuration has it; a sidecar's node is *)
(* the server of the first backend, and lacks a path where it runs without *)
(* txindex.                                                                *)
(***************************************************************************)
EXTENDS Gateway

Node == ServerOf[Backends[1]]

\* How a call to the node may end: it answers, says that there is no such key,
\* or the call fails in any other way, the deadline and the size cap included.
coreRpc(present) ==
  CASE Node \in world.liars -> {"result", "RPC_INVALID_ADDRESS_OR_KEY", "error"}
    [] Node \in world.down  -> {"error"}
    [] OTHER -> {IF present THEN "result" ELSE "RPC_INVALID_ADDRESS_OR_KEY"}

\* buildProofBundle over CoreRpcBackend; only getTxStatus says "not found".
NodeFailures(id) ==
  {IF end = "error" THEN "other" ELSE "absent" :
     end \in coreRpc(Chain[id].block <= top /\ Node \notin world.partial) \ {"result"}}

\* What runs before the first call to the node.
SidecarArrive(s, req) ==
  /\ slot[s].phase = "idle"
  /\ LET key == KeyFor(req)
     IN \/ answer' = Error(429) /\ UNCHANGED <<cache, slot>>
        \/ /\ req.route = "health"
           /\ Waits(s, [Idle EXCEPT !.phase = "health", !.req = req])
        \/ /\ req.route \notin {"health", "proof"}
           /\ answer' = Error(404) /\ UNCHANGED <<cache, slot>>
        \/ /\ req.route = "proof" /\ req.id = Malformed
           /\ answer' = Error(400) /\ UNCHANGED <<cache, slot>>
        \/ /\ req.route = "proof" /\ Holds(cache, key)
           /\ cache' = LruGet(cache, key)
           /\ answer' = HitResponse(req, Found(cache, key))
           /\ UNCHANGED slot
        \/ /\ req.route = "proof" /\ req.id # Malformed /\ ~Holds(cache, key)
           /\ Waits(s, Received(req))
  /\ External

HealthAnswers(s) ==
  /\ slot[s].phase = "health"
  /\ \E end \in coreRpc(TRUE) :
       Fails(s, IF end = "result" THEN Ok(slot[s], << >>) ELSE Error(502))
  /\ External

SidecarFails(s) ==
  /\ slot[s].phase = "proof"
  /\ \E cause \in NodeFailures(slot[s].id) :
       Fails(s, IF cause = "absent" THEN Absent(slot[s]) ELSE Error(502))
  /\ External

\* verifyProofBundle under the checkpoints, as the gateway's proof route has it.
SidecarBuilt(s) ==
  /\ slot[s].phase = "proof"
  /\ NodeFailures(slot[s].id) = {} \/ Node \in world.liars
  /\ \E b \in Built(Node, slot[s].id, slot[s].req.level, world, top) :
       IF Verified(b, top) /\ CheckpointsAllow(b)
       THEN SendsCached(s, [body |-> <<b>>, size |-> 1, coded |-> FALSE])
       ELSE Fails(s, Error(502))
  /\ External

SidecarNext ==
  \/ \E s \in Slots :
       \/ \E req \in world.requests : SidecarArrive(s, req)
       \/ HealthAnswers(s)
       \/ SidecarFails(s)
       \/ SidecarBuilt(s)
  \/ Grow

Serve ==
  \/ world.config.mode \in {"proxy", "verify"} /\ Next
  \/ world.config.mode = "sidecar" /\ SidecarNext

Serving == Init /\ [][Serve]_vars
=============================================================================
