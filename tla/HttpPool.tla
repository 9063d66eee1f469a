------------------------------- MODULE HttpPool -------------------------------
(***************************************************************************)
(* The requests of @ordspv/fetch: http.ts, one attempt under a deadline    *)
(* and a byte cap; EsploraBackend.get, which tries again what the server   *)
(* said "later" to; PooledEsploraBackend.run, which asks the members in    *)
(* turn.  The requests of a hop are under way at once and share the pool's *)
(* cursor.  A server may answer anything, at any pace, or never.           *)
(*                                                                         *)
(* A work that has lost the race against its deadline changes nothing any  *)
(* more, its promise being read by nobody: it is not followed further.     *)
(***************************************************************************)
EXTENDS Integers, FiniteSets

CONSTANTS Calls,          \* calls of a pool's methods
          MemberCount,    \* its members are 0 .. MemberCount - 1
          MaxAttempts,    \* retry.maxAttempts
          MaxBytes,       \* the cap of the endpoint
          MaxChunk        \* a bound on the bytes of one chunk

ASSUME PoolAssumption ==
  /\ MemberCount \in Nat \ {0} /\ MaxAttempts \in Nat \ {0}
  /\ MaxBytes \in Nat /\ MaxChunk \in Nat

Members == 0 .. MemberCount - 1

VARIABLES
  cursor,         \* the member the next request starts with
  usedBaseUrls,   \* the members that served bytes
  call,           \* call[r]: where the request r is
  failed          \* failed[r]: the members whose error it has collected

poolVars == <<cursor, usedBaseUrls, call, failed>>

Statuses == {"ok", "later", "no"}             \* 2xx; 429 and 503; any other
Unsettled == {"connecting", "reading", "cancelling"}

NoCall == [at |-> "idle", start |-> 0, i |-> 0, attempt |-> 0, status |-> "no", received |-> 0]

PoolInit ==
  /\ cursor \in Members /\ usedBaseUrls = {}
  /\ call = [r \in Calls |-> NoCall]
  /\ failed = [r \in Calls |-> {}]

\* A mutant: the shared cursor is read anew for every member.
AskedByCursor(r) == (cursor + call[r].i) % MemberCount

\* The member a request is asking.
Asked(r) == (call[r].start + call[r].i) % MemberCount

Connect(c, attempt) ==
  [c EXCEPT !.at = "connecting", !.attempt = attempt, !.status = "no", !.received = 0]

(* run: the start is read, and the cursor moved, before anything is awaited. *)
Ask(r) ==
  /\ call[r].at = "idle"
  /\ call' = [call EXCEPT ![r] = Connect([NoCall EXCEPT !.start = cursor], 1)]
  /\ cursor' = (cursor + 1) % MemberCount
  /\ UNCHANGED <<usedBaseUrls, failed>>

(* The member's error is collected and the next one asked, if there is one. *)
MemberFails(r) ==
  /\ failed' = [failed EXCEPT ![r] = @ \cup {Asked(r)}]
  /\ call' = [call EXCEPT ![r] = IF @.i + 1 < MemberCount
                                 THEN Connect([@ EXCEPT !.i = call[r].i + 1], 1)
                                 ELSE [@ EXCEPT !.at = "exhausted"]]
  /\ UNCHANGED <<cursor, usedBaseUrls>>

(* get: an attempt that a later one may mend, unless it was the last.      *)
TryLater(r) ==
  IF call[r].attempt < MaxAttempts
  THEN /\ call' = [call EXCEPT ![r].at = "backoff"]
       /\ UNCHANGED <<cursor, usedBaseUrls, failed>>
  ELSE MemberFails(r)

\* A mutant: a member is recorded before its answer is parsed.
RecordedUnparsed(r, status, received) ==
  \/ /\ status = "ok"
     /\ call' = [call EXCEPT ![r] = [@ EXCEPT !.at = "answered", !.status = "ok",
                                              !.received = received]]
     /\ usedBaseUrls' = usedBaseUrls \cup {Asked(r)}
     /\ UNCHANGED <<cursor, failed>>
  \/ /\ status = "ok" /\ call[r].i + 1 < MemberCount
     /\ usedBaseUrls' = usedBaseUrls \cup {Asked(r)}
     /\ failed' = [failed EXCEPT ![r] = @ \cup {Asked(r)}]
     /\ call' = [call EXCEPT ![r] = Connect([@ EXCEPT !.i = call[r].i + 1], 1)]
     /\ UNCHANGED cursor
  \/ status = "later" /\ TryLater(r)

(* fetchCapped has returned: a 2xx answer is parsed, which may fail, and is *)
(* not asked for again.                                                    *)
Returned(r, status, received) ==
  \/ /\ status = "ok"
     /\ call' = [call EXCEPT ![r] = [@ EXCEPT !.at = "answered", !.status = "ok",
                                              !.received = received]]
     /\ usedBaseUrls' = usedBaseUrls \cup {Asked(r)}
     /\ UNCHANGED <<cursor, failed>>
  \/ status \in {"ok", "no"} /\ MemberFails(r)
  \/ status = "later" /\ TryLater(r)

\* The headers come; a declared length over the cap fails fast, with the cap error.
Headers(r) ==
  /\ call[r].at = "connecting"
  /\ \/ MemberFails(r)
     \/ /\ \E status \in Statuses :
             call' = [call EXCEPT ![r] = [@ EXCEPT !.at = "reading", !.status = status]]
        /\ UNCHANGED <<cursor, usedBaseUrls, failed>>

\* A response without a stream is read at once and measured afterwards.
NoBody(r) ==
  /\ call[r].at = "connecting"
  /\ \E received \in 0 .. MaxBytes + 1, status \in Statuses :
       IF received > MaxBytes THEN MemberFails(r) ELSE Returned(r, status, received)

Chunk(r) ==
  /\ call[r].at = "reading"
  /\ \E length \in 1 .. MaxChunk :
       call' = [call EXCEPT ![r] = IF @.received + length > MaxBytes
                                   THEN [@ EXCEPT !.at = "cancelling"]
                                   ELSE [@ EXCEPT !.received = call[r].received + length]]
  /\ UNCHANGED <<cursor, usedBaseUrls, failed>>

BodyEnds(r) ==
  call[r].at = "reading" /\ Returned(r, call[r].status, call[r].received)

\* The reader has cancelled: the work aborts, and rejects with the cap error,
\* which is not a hiccup to try again after.
Cancelled(r) == call[r].at = "cancelling" /\ MemberFails(r)

NetworkError(r) == call[r].at \in {"connecting", "reading"} /\ TryLater(r)

\* A mutant: the timer is cleared when the headers have come.
DeadlineOfHeaders(r) == call[r].at = "connecting" /\ TryLater(r)

\* The timer's abort wins the race, also while a body is being cancelled: then
\* the attempt has timed out, and the oversized body is asked for again.
Deadline(r) == call[r].at \in Unsettled /\ TryLater(r)

\* The backoff is over, be it a Retry-After or a draw: another attempt, with a
\* deadline of its own.
Wake(r) ==
  /\ call[r].at = "backoff"
  /\ call' = [call EXCEPT ![r] = Connect(@, @.attempt + 1)]
  /\ UNCHANGED <<cursor, usedBaseUrls, failed>>

Step(r) ==
  \/ Ask(r) \/ Headers(r) \/ NoBody(r) \/ Chunk(r) \/ BodyEnds(r) \/ Cancelled(r)
  \/ NetworkError(r) \/ Deadline(r) \/ Wake(r)

PoolNext == \E r \in Calls : Step(r)

(* Timers fire; nothing is asked of the servers.                           *)
PoolSpec ==
  /\ PoolInit /\ [][PoolNext]_poolVars
  /\ \A r \in Calls : WF_poolVars(Deadline(r)) /\ WF_poolVars(Wake(r))

-----------------------------------------------------------------------------

PoolTypeOK ==
  /\ cursor \in Members /\ usedBaseUrls \subseteq Members
  /\ call \in [Calls -> [at : {"idle", "backoff", "answered", "exhausted"} \cup Unsettled,
                         start : Members, i : Members, attempt : 0 .. MaxAttempts,
                         status : Statuses, received : 0 .. MaxBytes]]
  /\ failed \in [Calls -> SUBSET Members]

(***************************************************************************)
(* A request gives up only when every member of the pool has failed it,    *)
(* and has asked no member again that failed it, however the requests that *)
(* move the shared cursor interleave.                                      *)
(***************************************************************************)
ExhaustedMeansAll ==
  \A r \in Calls :
    /\ call[r].at = "exhausted" <=> failed[r] = Members
    /\ call[r].at \in {"backoff", "answered"} \cup Unsettled => Asked(r) \notin failed[r]

(***************************************************************************)
(* The members excluded from the vote on a header are those that answered: *)
(* all of them, and none that only failed, timed out or served what does   *)
(* not parse.                                                              *)
(***************************************************************************)
ServersAreRecorded ==
  usedBaseUrls = {Asked(r) : r \in {r \in Calls : call[r].at = "answered"}}

(***************************************************************************)
(* A request that was made ends: answered, or failed by every member,      *)
(* whatever the servers do or leave undone.                                *)
(***************************************************************************)
Settles ==
  \A r \in Calls : call[r].at # "idle" ~> call[r].at \in {"answered", "exhausted"}
=============================================================================
