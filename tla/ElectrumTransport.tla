-------------------------- MODULE ElectrumTransport --------------------------
(***************************************************************************)
(* class ElectrumTcpTransport of packages/fetch/src/headersync.ts: JSON    *)
(* RPC requests multiplexed over one TCP or TLS socket, which is dialled   *)
(* when first needed and again after it closed.                            *)
(*                                                                         *)
(* The steps are the callbacks of the event loop: what the caller calls,   *)
(* the resumption of request() after its await, socket events and timers.  *)
(* nextId is never reset, so a request stands for its own id.  A line of   *)
(* the protocol arrives as two halves, the second of which ends it.        *)
(***************************************************************************)
EXTENDS Naturals, Sequences, FiniteSets

CONSTANTS
  Requests,    \* the calls of request(), each made once
  Notice,      \* a line that is no answer: a notification, or garbage
  MaxSockets,  \* bound on the sockets dialled
  MaxBuffer    \* maxBufferBytes, in half lines

ASSUME TransportAssumption ==
  /\ IsFiniteSet(Requests) /\ Notice \notin Requests
  /\ MaxSockets \in Nat \ {0} /\ MaxBuffer \in Nat \ {0}

VARIABLES
  request,     \* how far each call of request() has come
  awaits,      \* the dial a call awaits; 0: it found a socket
  pending,     \* the pending map, by id
  timers,      \* the armed timers
  socket,      \* this.socket, 0 when undefined
  connecting,  \* this.connecting, by the socket it dials, 0 when undefined
  dialled,     \* the state of the promise of each dial
  state,       \* the state of each socket
  buffer,      \* what was received since the last newline
  outbox,      \* the requests each socket carried to the server, not yet answered
  halfSent     \* the line the server is in the middle of, on each socket

callVars == <<request, awaits>>
waiterVars == <<pending, timers>>
socketVars == <<socket, connecting, dialled, state>>
dataVars == <<buffer, outbox, halfSent>>
vars == <<callVars, waiterVars, socketVars, dataVars>>

Sockets == 1..MaxSockets

None == "none"

Init ==
  /\ request = [r \in Requests |-> "unmade"]
  /\ awaits = [r \in Requests |-> 0]
  /\ pending = {} /\ timers = {}
  /\ socket = 0 /\ connecting = 0
  /\ dialled = [n \in Sockets |-> "pending"]
  /\ state = [n \in Sockets |-> "unused"]
  /\ buffer = <<>>
  /\ outbox = [n \in Sockets |-> {}]
  /\ halfSent = [n \in Sockets |-> None]

-----------------------------------------------------------------------------

Rejected(rs) ==
  [r \in Requests |-> IF r \in rs /\ request[r] = "waiting" THEN "rejected"
                      ELSE request[r]]

\* mutation: the map is cleared and nobody is told
FailAllSilently ==
  /\ request' = request
  /\ timers' = timers \ pending
  /\ pending' = {}
  /\ UNCHANGED awaits

FailAll ==
  /\ request' = Rejected(pending)
  /\ timers' = timers \ pending
  /\ pending' = {}
  /\ UNCHANGED awaits

-----------------------------------------------------------------------------
(* request() and the dial it may start.                                    *)

\* connect(), up to its await: a socket, a dial in progress, or a new dial.
Call(r) ==
  /\ request[r] = "unmade"
  /\ request' = [request EXCEPT ![r] = "connecting"]
  /\ \/ /\ socket # 0
        /\ awaits' = [awaits EXCEPT ![r] = 0]
        /\ UNCHANGED <<connecting, state>>
     \/ /\ socket = 0 /\ connecting # 0
        /\ awaits' = [awaits EXCEPT ![r] = connecting]
        /\ UNCHANGED <<connecting, state>>
     \/ /\ socket = 0 /\ connecting = 0
        /\ \E n \in Sockets :
             /\ state[n] = "unused" /\ \A m \in 1..(n - 1) : state[m] # "unused"
             /\ state' = [state EXCEPT ![n] = "dialling"]
             /\ connecting' = n
             /\ awaits' = [awaits EXCEPT ![r] = n]
  /\ UNCHANGED <<waiterVars, socket, dialled, dataVars>>

\* The continuation of request().  Without a socket, which close() may have
\* taken since, the write throws: the caller is told, the entry stays.
Send(r) ==
  /\ request[r] = "connecting"
  /\ awaits[r] # 0 => dialled[awaits[r]] = "resolved"
  /\ pending' = pending \cup {r}
  /\ timers' = timers \cup {r}
  /\ \/ /\ socket # 0
        /\ request' = [request EXCEPT ![r] = "waiting"]
        /\ outbox' = IF state[socket] = "open"
                     THEN [outbox EXCEPT ![socket] = @ \cup {r}] ELSE outbox
     \/ /\ socket = 0
        /\ request' = [request EXCEPT ![r] = "rejected"]
        /\ UNCHANGED outbox
  /\ UNCHANGED <<awaits, socketVars, buffer, halfSent>>

\* await this.connecting throws.
ConnectFails(r) ==
  /\ request[r] = "connecting"
  /\ awaits[r] # 0 /\ dialled[awaits[r]] = "rejected"
  /\ request' = [request EXCEPT ![r] = "rejected"]
  /\ UNCHANGED <<awaits, waiterVars, socketVars, dataVars>>

\* mutation: the entry outlives its timer
TimeoutLeavingEntry(r) ==
  /\ r \in timers
  /\ timers' = timers \ {r}
  /\ request' = Rejected({r})
  /\ UNCHANGED <<pending, awaits, socketVars, dataVars>>

Timeout(r) ==
  /\ r \in timers
  /\ timers' = timers \ {r}
  /\ pending' = pending \ {r}
  /\ request' = Rejected({r})
  /\ UNCHANGED <<awaits, socketVars, dataVars>>

-----------------------------------------------------------------------------
(* Socket events.  A socket that is being destroyed still has its close    *)
(* event to come.                                                          *)

DialSucceeds(n) ==
  /\ state[n] = "dialling"
  /\ state' = [state EXCEPT ![n] = "open"]
  /\ dialled' = [dialled EXCEPT ![n] = "resolved"]
  /\ socket' = n
  /\ UNCHANGED <<callVars, waiterVars, connecting, dataVars>>

\* An error event fails whoever waits; a certificate that is not the pinned
\* one destroys the socket without an error event.
DialFails(n) ==
  /\ state[n] = "dialling"
  /\ state' = [state EXCEPT ![n] = "destroyed"]
  /\ dialled' = [dialled EXCEPT ![n] = "rejected"]
  /\ connecting' = 0
  /\ FailAll \/ UNCHANGED <<callVars, waiterVars>>
  /\ UNCHANGED <<socket, dataVars>>

\* The server hangs up, or an error event comes first.
SocketBreaks(n) ==
  /\ state[n] = "open"
  /\ state' = [state EXCEPT ![n] = "destroyed"]
  /\ FailAll \/ UNCHANGED <<callVars, waiterVars>>
  /\ UNCHANGED <<socket, connecting, dialled, dataVars>>

\* mutation: the dial is forgotten only with the current socket
SocketClosesKeepingDial(n) ==
  /\ state[n] = "destroyed"
  /\ state' = [state EXCEPT ![n] = "closed"]
  /\ FailAll
  /\ socket' = IF socket = n THEN 0 ELSE socket
  /\ connecting' = IF socket = n THEN 0 ELSE connecting
  /\ UNCHANGED <<dialled, dataVars>>

SocketCloses(n) ==
  /\ state[n] = "destroyed"
  /\ state' = [state EXCEPT ![n] = "closed"]
  /\ FailAll
  /\ socket' = IF socket = n THEN 0 ELSE socket
  /\ connecting' = 0
  /\ UNCHANGED <<dialled, dataVars>>

\* close(), called by the owner at any time.
Close ==
  /\ socket # 0
  /\ state' = [state EXCEPT ![socket] = IF @ = "open" THEN "destroyed" ELSE @]
  /\ socket' = 0
  /\ UNCHANGED <<callVars, waiterVars, connecting, dialled, dataVars>>

-----------------------------------------------------------------------------
(* onData, for the two halves of a line.                                   *)

FirstHalf(n, line) ==
  /\ state[n] = "open" /\ halfSent[n] = None
  /\ line \in outbox[n] \cup {Notice}
  /\ halfSent' = [halfSent EXCEPT ![n] = line]
  /\ \/ /\ Len(buffer) < MaxBuffer
        /\ buffer' = Append(buffer, line)
        /\ UNCHANGED <<callVars, waiterVars, state>>
     \/ /\ Len(buffer) >= MaxBuffer
        /\ buffer' = <<>>
        /\ FailAll
        /\ state' = [state EXCEPT ![n] = "destroyed"]
  /\ UNCHANGED <<socket, connecting, dialled, outbox>>

\* A line parses only if it is one line's halves, and settles only the
\* request it answers.
SecondHalf(n) ==
  /\ state[n] = "open" /\ halfSent[n] # None
  /\ LET line == halfSent[n]
     IN /\ halfSent' = [halfSent EXCEPT ![n] = None]
        /\ outbox' = [outbox EXCEPT ![n] = @ \ {line}]
        /\ buffer' = <<>>
        /\ \/ /\ buffer = <<line>> /\ line \in pending
              /\ request' = [request EXCEPT ![line] = IF @ = "waiting" THEN "resolved" ELSE @]
              /\ pending' = pending \ {line}
              /\ timers' = timers \ {line}
           \/ /\ ~(buffer = <<line>> /\ line \in pending)
              /\ UNCHANGED <<request, waiterVars>>
  /\ UNCHANGED <<awaits, socketVars>>

Next ==
  \/ \E r \in Requests : Call(r) \/ Send(r) \/ ConnectFails(r) \/ Timeout(r)
  \/ \E n \in Sockets :
       \/ DialSucceeds(n) \/ DialFails(n) \/ SocketBreaks(n) \/ SocketCloses(n)
       \/ SecondHalf(n)
       \/ \E line \in Requests \cup {Notice} : FirstHalf(n, line)
  \/ Close

Spec == Init /\ [][Next]_vars

\* Promises resume, timers fire, and a destroyed socket gets its close event.
LoopFairness ==
  /\ \A r \in Requests : WF_vars(Send(r) \/ ConnectFails(r)) /\ WF_vars(Timeout(r))
  /\ \A n \in Sockets : WF_vars(SocketCloses(n))

LoopSpec == Spec /\ LoopFairness

\* ... and the network gives every dial an end.
FairSpec == LoopSpec /\ \A n \in Sockets : WF_vars(DialSucceeds(n) \/ DialFails(n))

-----------------------------------------------------------------------------

\* The types of the variables; what is buffered is bounded, whatever sockets
\* break in the middle of a line.
TypeOK ==
  /\ request \in [Requests -> {"unmade", "connecting", "waiting", "resolved", "rejected"}]
  /\ awaits \in [Requests -> 0..MaxSockets]
  /\ pending \subseteq Requests /\ timers \subseteq Requests
  /\ socket \in 0..MaxSockets /\ connecting \in 0..MaxSockets
  /\ dialled \in [Sockets -> {"pending", "resolved", "rejected"}]
  /\ state \in [Sockets -> {"unused", "dialling", "open", "destroyed", "closed"}]
  /\ buffer \in Seq(Requests \cup {Notice}) /\ Len(buffer) <= MaxBuffer
  /\ outbox \in [Sockets -> SUBSET Requests]
  /\ halfSent \in [Sockets -> Requests \cup {Notice, None}]

(***************************************************************************)
(* Every entry of the pending map has a timer that will take it away, and  *)
(* every caller still waiting has an entry: neither an answer, a timeout,  *)
(* a failed socket nor a write that threw leaves a waiter behind, or an    *)
(* entry nothing will ever remove.                                         *)
(***************************************************************************)
EveryWaiterIsTimed ==
  /\ timers = pending
  /\ \A r \in Requests : request[r] = "waiting" => r \in pending

(***************************************************************************)
(* The transport is never wedged: when there is no socket and connect()    *)
(* would await a dial that is already over, the close event that clears    *)
(* this.connecting is still to come.                                       *)
(***************************************************************************)
NeverWedged ==
  socket = 0 /\ connecting # 0 /\ dialled[connecting] # "pending"
    => \E n \in Sockets : state[n] = "destroyed"

\* Every request settles, whatever the server and the owner do.
RequestsSettle ==
  \A r \in Requests : request[r] = "connecting" ~> request[r] \in {"resolved", "rejected"}

(***************************************************************************)
(* "Every network read in this package goes through a deadline and a byte  *)
(* cap: backends are untrusted, so a hung socket must reject"              *)
(* (http.ts:2-4): a request settles although its dial never ends.          *)
(***************************************************************************)
HungDialRejects == RequestsSettle
=============================================================================
