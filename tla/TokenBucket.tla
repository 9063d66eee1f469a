----------------------------- MODULE TokenBucket -----------------------------
(***************************************************************************)
(* class TokenBucketLimiter of packages/gateway/src/ratelimit.ts: one      *)
(* bucket per client, refilled when it is next used; idle buckets are      *)
(* swept away and the number of buckets is capped.                         *)
(*                                                                         *)
(* Tokens are counted in the time it takes to earn them, so a token is     *)
(* Cost units (1 / ratePerSec), a full bucket Capacity units (burst times  *)
(* Cost), and a bucket gains one unit with each unit of the clock.  The    *)
(* rounding of floating point is not modelled.                             *)
(***************************************************************************)
EXTENDS Integers, Sequences, FiniteSets

CONSTANTS
  Keys,        \* the clients
  Client,      \* the one whose grants are watched, any of them
  Cost,        \* what a token costs
  Capacity,    \* what a full bucket holds
  MaxTracked,  \* maxTrackedKeys
  SweepEvery,  \* 60 s
  IdleFor,     \* 120 s
  Second,      \* a second, in units of the clock
  LastClock    \* bound on the clock

ASSUME BucketAssumption ==
  /\ Client \in Keys
  /\ Cost \in Nat \ {0} /\ Capacity \in Nat /\ Capacity >= Cost
  /\ MaxTracked \in Nat \ {0}
  /\ SweepEvery \in Nat /\ IdleFor \in Nat
  /\ Second \in Nat \ {0}
  /\ LastClock \in Nat

VARIABLES
  clock,      \* this.now()
  bucket,     \* this.buckets: the bucket of each tracked client
  order,      \* ... and the order in which the map lists them
  lastSweep,  \* this.lastSweep
  window,     \* history: what the Client was granted since a time it may choose
  due         \* history: when the Client, if refused, was told to come back

bucketVars == <<clock, bucket, order, lastSweep, window, due>>

Undue == -1

FreshWindow(t) == [from |-> t, spent |-> 0]

BucketInit ==
  /\ clock = 0
  /\ bucket = << >>
  /\ order = << >>
  /\ lastSweep = clock
  /\ window = FreshWindow(clock)
  /\ due = Undue

-----------------------------------------------------------------------------

\* mutation: an idle bucket goes, full or not
StaleOnceIdle(k) == bucket[k].last < clock - IdleFor

\* Idle, and full again had it been refilled.
Stale(k) ==
  /\ bucket[k].last < clock - IdleFor
  /\ bucket[k].tokens + (clock - bucket[k].last) >= Capacity

\* What maybeSweep leaves.
Swept ==
  IF clock - lastSweep < SweepEvery THEN DOMAIN bucket
  ELSE {k \in DOMAIN bucket : ~Stale(k)}

\* The bucket tracked longest makes room for a new one at the cap.
Evicted(k) ==
  IF k \notin Swept /\ Cardinality(Swept) >= MaxTracked
  THEN {order[CHOOSE i \in DOMAIN order :
                order[i] \in Swept /\ \A j \in 1..(i - 1) : order[j] \notin Swept]}
  ELSE {}

StillTracked(k) == Swept \ Evicted(k)

Refilled(k) ==
  IF k \notin Swept THEN [tokens |-> Capacity, last |-> clock]
  ELSE LET tokens == bucket[k].tokens + (clock - bucket[k].last)
       IN [tokens |-> IF tokens < Capacity THEN tokens ELSE Capacity, last |-> clock]

\* mutation: the seconds are rounded down
RetryAfterRounded(tokens) == (Cost - tokens) \div Second

\* retryAfterSeconds, of a bucket without a whole token.
RetryAfter(tokens) == -((tokens - Cost) \div Second)

\* A client the cap has evicted starts over, and so does its window.
Take(k) ==
  LET b == Refilled(k)
      granted == b.tokens >= Cost
      after == IF granted THEN [b EXCEPT !.tokens = @ - Cost] ELSE b
  IN /\ lastSweep' = IF clock - lastSweep < SweepEvery THEN lastSweep ELSE clock
     /\ bucket' = [j \in StillTracked(k) \cup {k} |-> IF j = k THEN after ELSE bucket[j]]
     /\ order' = LET kept == SelectSeq(order, LAMBDA j : j \in StillTracked(k))
                 IN IF k \in Swept THEN kept ELSE Append(kept, k)
     /\ window' = IF Client \in Evicted(k) THEN FreshWindow(clock)
                  ELSE IF k = Client /\ granted THEN [window EXCEPT !.spent = @ + Cost]
                  ELSE window
     /\ due' = IF k # Client THEN due
               ELSE IF granted THEN Undue
               ELSE clock + Second * RetryAfter(b.tokens)
     /\ UNCHANGED clock

Tick ==
  /\ clock < LastClock
  /\ clock' = clock + 1
  /\ UNCHANGED <<bucket, order, lastSweep, window, due>>

\* Date.now() may be set back; what was measured or promised by it is void.
StepBack ==
  /\ clock > 0
  /\ clock' = clock - 1
  /\ window' = FreshWindow(clock')
  /\ due' = Undue
  /\ UNCHANGED <<bucket, order, lastSweep>>

\* A window may begin at any time.
OpenWindow ==
  /\ window' = FreshWindow(clock)
  /\ UNCHANGED <<clock, bucket, order, lastSweep, due>>

BucketNext ==
  \/ \E k \in Keys : Take(k)
  \/ OpenWindow
  \/ Tick
  \/ StepBack

BucketSpec == BucketInit /\ [][BucketNext]_bucketVars

-----------------------------------------------------------------------------

(***************************************************************************)
(* "ratePerSec sustained, burst peak" (ratelimit.ts:2): in any stretch of  *)
(* time a client is granted no more than a full bucket and what the rate   *)
(* earns in that time, whatever is swept.  The stretch ends where the cap  *)
(* takes the client's bucket or the clock is set back.                     *)
(***************************************************************************)
RateHolds ==
  window.spent <= Capacity + (clock - window.from)

(***************************************************************************)
(* A client that is refused and comes back no earlier than Retry-After     *)
(* told it to finds a token, whatever happened to its bucket meanwhile.    *)
(***************************************************************************)
RetryAfterSuffices ==
  due # Undue /\ clock >= due => Refilled(Client).tokens >= Cost
=============================================================================
