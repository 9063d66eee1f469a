---------------------------- MODULE TransportProofs ---------------------------
(***************************************************************************)
(* How requests end, over TCP and over HTTP.                               *)
(*                                                                         *)
(* Electrum, for any requests, sockets and buffer: no waiter is ever       *)
(* without its timer, and the transport is never wedged on a dial that is  *)
(* over; and if dials end, every request settles.                          *)
(*                                                                         *)
(* The pool, for any requests, members and limits: a request gives up only *)
(* when every member has failed it, asks no member twice, and the members  *)
(* recorded as servers are those that answered.  Asked goes round the pool *)
(* from where the request started, so the members that have failed it are  *)
(* those Distance says are behind it: that is the invariant the properties *)
(* lack, and the rest is case by case.  And every step takes a request     *)
(* nearer its end, by a bounded count.                                     *)
(***************************************************************************)
EXTENDS ElectrumTransport, HttpPool, TLAPS

(* ------------------------------- Electrum ------------------------------ *)

\* What keeps a transport without a socket able to dial: its current socket
\* has its close event to come, and a dial is over when its socket is up.
DialsTracked ==
  /\ socket # 0 => state[socket] \in {"open", "destroyed"}
  /\ \A n \in Sockets :
       dialled[n] = "pending" <=> state[n] \in {"unused", "dialling"}

Inv == TypeOK /\ EveryWaiterIsTimed /\ DialsTracked /\ NeverWedged

-----------------------------------------------------------------------------

\* failAll settles everyone it takes out of the map.
LEMMA FailAllOK ==
  ASSUME TypeOK, EveryWaiterIsTimed, FailAll
  PROVE  /\ request' \in [Requests -> {"unmade", "connecting", "waiting",
                                       "resolved", "rejected"}]
         /\ awaits' = awaits /\ pending' = {} /\ timers' = {}
         /\ \A r \in Requests : request'[r] # "waiting"
BY DEF TypeOK, EveryWaiterIsTimed, FailAll, Rejected

\* Either nothing happens to the waiters, or failAll.
LEMMA MayFailAllOK ==
  ASSUME Inv, FailAll \/ UNCHANGED <<callVars, waiterVars>>
  PROVE  /\ request' \in [Requests -> {"unmade", "connecting", "waiting",
                                       "resolved", "rejected"}]
         /\ awaits' \in [Requests -> 0..MaxSockets]
         /\ pending' \subseteq Requests /\ timers' = pending'
         /\ \A r \in Requests : request'[r] = "waiting" => r \in pending'
<1>1. CASE FailAll
  BY <1>1, FailAllOK DEF Inv, TypeOK
<1>2. CASE UNCHANGED <<callVars, waiterVars>>
  BY <1>2 DEF callVars, waiterVars, Inv, TypeOK, EveryWaiterIsTimed
<1> QED BY <1>1, <1>2

LEMMA CallKeeps == ASSUME Inv, NEW r \in Requests, Call(r) PROVE Inv'
<1> USE DEF Inv, waiterVars, dataVars
<1>1. EveryWaiterIsTimed'
  BY DEF Call, TypeOK, EveryWaiterIsTimed
<1>2. CASE /\ awaits' \in {[awaits EXCEPT ![r] = 0], [awaits EXCEPT ![r] = connecting]}
           /\ UNCHANGED <<connecting, state>>
  <2>1. awaits' \in [Requests -> 0..MaxSockets]
    <3>1. 0 \in 0..MaxSockets /\ connecting \in 0..MaxSockets
      BY TransportAssumption DEF TypeOK
    <3>2. awaits \in [Requests -> 0..MaxSockets]
      BY DEF TypeOK
    <3> QED BY <1>2, <3>1, <3>2, Zenon
  <2>2. request' \in [Requests -> {"unmade", "connecting", "waiting",
                                   "resolved", "rejected"}]
    BY DEF Call, TypeOK
  <2>3. TypeOK'
    BY <1>2, <2>1, <2>2 DEF Call, TypeOK
  <2> QED BY <1>1, <1>2, <2>3 DEF Call, DialsTracked, NeverWedged
<1>3. CASE \E n \in Sockets :
             /\ socket = 0
             /\ state[n] = "unused"
             /\ state' = [state EXCEPT ![n] = "dialling"]
             /\ connecting' = n
             /\ awaits' = [awaits EXCEPT ![r] = n]
  <2> PICK n \in Sockets :
        /\ socket = 0
        /\ state[n] = "unused"
        /\ state' = [state EXCEPT ![n] = "dialling"]
        /\ connecting' = n
        /\ awaits' = [awaits EXCEPT ![r] = n]
    BY <1>3
  <2>1. n \in 0..MaxSockets
    BY TransportAssumption DEF Sockets
  <2>2. TypeOK'
    BY <2>1 DEF Call, TypeOK
  <2>3. DialsTracked'
    BY DEF Call, TypeOK, DialsTracked
  <2>4. dialled'[connecting'] = "pending"
    BY DEF Call, DialsTracked
  <2> QED BY <1>1, <2>2, <2>3, <2>4 DEF NeverWedged
<1> QED BY <1>2, <1>3 DEF Call

LEMMA SendKeeps == ASSUME Inv, NEW r \in Requests, Send(r) PROVE Inv'
<1> USE DEF Inv, socketVars
<1>1. TypeOK'
  <2>1. socket # 0 => socket \in Sockets /\ outbox[socket] \cup {r} \in SUBSET Requests
    BY DEF TypeOK, Sockets
  <2>2. outbox' \in {outbox, [outbox EXCEPT ![socket] = @ \cup {r}]}
    BY DEF Send
  <2>3. outbox' \in [Sockets -> SUBSET Requests]
    BY <2>1, <2>2 DEF Send, TypeOK
  <2> QED BY <2>3 DEF Send, TypeOK
<1>2. EveryWaiterIsTimed'
  BY DEF Send, TypeOK, EveryWaiterIsTimed
<1>3. DialsTracked' /\ NeverWedged'
  BY DEF Send, DialsTracked, NeverWedged
<1> QED BY <1>1, <1>2, <1>3

LEMMA ConnectFailsKeeps == ASSUME Inv, NEW r \in Requests, ConnectFails(r) PROVE Inv'
<1> USE DEF Inv, socketVars, waiterVars, dataVars, ConnectFails
<1>1. TypeOK' /\ EveryWaiterIsTimed'
  BY DEF TypeOK, EveryWaiterIsTimed
<1>2. DialsTracked' /\ NeverWedged'
  BY DEF DialsTracked, NeverWedged
<1> QED BY <1>1, <1>2

LEMMA TimeoutKeeps == ASSUME Inv, NEW r \in Requests, Timeout(r) PROVE Inv'
<1> USE DEF Inv, socketVars, dataVars, Timeout
<1>1. TypeOK' /\ EveryWaiterIsTimed'
  BY DEF TypeOK, EveryWaiterIsTimed, Rejected
<1>2. DialsTracked' /\ NeverWedged'
  BY DEF DialsTracked, NeverWedged
<1> QED BY <1>1, <1>2

LEMMA DialSucceedsKeeps == ASSUME Inv, NEW n \in Sockets, DialSucceeds(n) PROVE Inv'
<1> USE DEF Inv, callVars, waiterVars, dataVars, DialSucceeds
<1>1. TypeOK' /\ EveryWaiterIsTimed'
  BY DEF TypeOK, EveryWaiterIsTimed, Sockets
<1>2. DialsTracked'
  BY DEF TypeOK, DialsTracked
<1>3. NeverWedged'
  BY DEF NeverWedged, Sockets
<1> QED BY <1>1, <1>2, <1>3

LEMMA DialFailsKeeps == ASSUME Inv, NEW n \in Sockets, DialFails(n) PROVE Inv'
<1> USE DEF Inv, dataVars, DialFails
<1>1. /\ request' \in [Requests -> {"unmade", "connecting", "waiting",
                                    "resolved", "rejected"}]
      /\ awaits' \in [Requests -> 0..MaxSockets]
      /\ pending' \subseteq Requests
      /\ EveryWaiterIsTimed'
  BY MayFailAllOK DEF EveryWaiterIsTimed
<1>0. TypeOK'
  BY <1>1, TransportAssumption DEF TypeOK, EveryWaiterIsTimed
<1>2. DialsTracked'
  BY DEF TypeOK, DialsTracked
<1>3. NeverWedged'
  BY DEF NeverWedged
<1> QED BY <1>0, <1>1, <1>2, <1>3

LEMMA SocketBreaksKeeps == ASSUME Inv, NEW n \in Sockets, SocketBreaks(n) PROVE Inv'
<1> USE DEF Inv, dataVars, SocketBreaks
<1>1. /\ request' \in [Requests -> {"unmade", "connecting", "waiting",
                                    "resolved", "rejected"}]
      /\ awaits' \in [Requests -> 0..MaxSockets]
      /\ pending' \subseteq Requests
      /\ EveryWaiterIsTimed'
  BY MayFailAllOK DEF EveryWaiterIsTimed
<1>0. TypeOK'
  BY <1>1, TransportAssumption DEF TypeOK, EveryWaiterIsTimed
<1>2. DialsTracked'
  BY DEF TypeOK, DialsTracked
<1>3. NeverWedged'
  BY DEF TypeOK, NeverWedged
<1> QED BY <1>0, <1>1, <1>2, <1>3

LEMMA SocketClosesKeeps == ASSUME Inv, NEW n \in Sockets, SocketCloses(n) PROVE Inv'
<1> USE DEF Inv, dataVars, SocketCloses
<1>1. /\ request' \in [Requests -> {"unmade", "connecting", "waiting",
                                    "resolved", "rejected"}]
      /\ awaits' \in [Requests -> 0..MaxSockets]
      /\ pending' \subseteq Requests
      /\ EveryWaiterIsTimed'
  BY MayFailAllOK DEF EveryWaiterIsTimed
<1>0. TypeOK'
  BY <1>1, TransportAssumption DEF TypeOK, EveryWaiterIsTimed
<1>2. DialsTracked'
  BY DEF TypeOK, DialsTracked
<1>3. NeverWedged'
  BY DEF NeverWedged
<1> QED BY <1>0, <1>1, <1>2, <1>3

LEMMA CloseKeeps == ASSUME Inv, Close PROVE Inv'
<1> USE DEF Inv, callVars, waiterVars, dataVars, Close
<1>1. socket \in Sockets
  BY DEF TypeOK, Sockets
<1>2. TypeOK' /\ EveryWaiterIsTimed'
  <2>1. state' \in [Sockets -> {"unused", "dialling", "open", "destroyed", "closed"}]
    BY <1>1 DEF TypeOK
  <2>2. socket' \in 0..MaxSockets
    BY TransportAssumption
  <2> QED BY <2>1, <2>2 DEF TypeOK, EveryWaiterIsTimed
<1>3. state'[socket] = "destroyed"
  BY <1>1 DEF TypeOK, DialsTracked
<1>4. DialsTracked'
  BY <1>1, <1>3 DEF TypeOK, DialsTracked
<1>5. NeverWedged'
  BY <1>1, <1>3 DEF NeverWedged
<1> QED BY <1>2, <1>4, <1>5

LEMMA FirstHalfKeeps ==
  ASSUME Inv, NEW n \in Sockets, NEW line \in Requests \cup {Notice}, FirstHalf(n, line)
  PROVE  Inv'
<1> USE DEF Inv, FirstHalf
<1>1. /\ halfSent' \in [Sockets -> Requests \cup {Notice, None}]
      /\ buffer' \in Seq(Requests \cup {Notice}) /\ Len(buffer') <= MaxBuffer
  <2>1. Append(buffer, line) \in Seq(Requests \cup {Notice})
    BY DEF TypeOK
  <2>2. halfSent' \in [Sockets -> Requests \cup {Notice, None}]
    BY DEF TypeOK
  <2>3. <<>> \in Seq(Requests \cup {Notice}) /\ buffer' \in {Append(buffer, line), <<>>}
    OBVIOUS
  <2>4. Len(buffer') <= MaxBuffer
    <3>1. CASE Len(buffer) < MaxBuffer /\ buffer' = Append(buffer, line)
      BY <3>1, TransportAssumption DEF TypeOK
    <3>2. CASE buffer' = <<>>
      BY <3>2, TransportAssumption DEF TypeOK
    <3> QED BY <3>1, <3>2
  <2> QED BY <2>1, <2>2, <2>3, <2>4
<1>2. CASE UNCHANGED <<callVars, waiterVars, state>>
  <2>1. TypeOK' /\ EveryWaiterIsTimed'
    BY <1>1, <1>2 DEF TypeOK, EveryWaiterIsTimed, callVars, waiterVars
  <2>2. DialsTracked' /\ NeverWedged'
    BY <1>2 DEF DialsTracked, NeverWedged
  <2> QED BY <2>1, <2>2
<1>3. CASE FailAll /\ state' = [state EXCEPT ![n] = "destroyed"]
  <2>1. TypeOK' /\ EveryWaiterIsTimed'
    BY <1>1, <1>3, MayFailAllOK DEF TypeOK, EveryWaiterIsTimed
  <2>2. DialsTracked'
    BY <1>3 DEF TypeOK, DialsTracked
  <2>3. NeverWedged'
    BY <1>3 DEF TypeOK, NeverWedged
  <2> QED BY <2>1, <2>2, <2>3
<1> QED BY <1>2, <1>3

LEMMA SecondHalfKeeps == ASSUME Inv, NEW n \in Sockets, SecondHalf(n) PROVE Inv'
<1> DEFINE line == halfSent[n]
<1> USE DEF Inv, socketVars, waiterVars, SecondHalf
<1>1. /\ halfSent' \in [Sockets -> Requests \cup {Notice, None}]
      /\ buffer' \in Seq(Requests \cup {Notice}) /\ Len(buffer') <= MaxBuffer
      /\ outbox' \in [Sockets -> SUBSET Requests]
  BY TransportAssumption DEF TypeOK
<1>2. DialsTracked' /\ NeverWedged'
  BY DEF DialsTracked, NeverWedged
<1>3. CASE /\ line \in pending
           /\ request' = [request EXCEPT ![line] = IF @ = "waiting" THEN "resolved" ELSE @]
           /\ pending' = pending \ {line}
           /\ timers' = timers \ {line}
  <2>1. line \in Requests
    BY <1>3 DEF TypeOK
  <2>2. TypeOK' /\ EveryWaiterIsTimed'
    BY <1>1, <1>3, <2>1 DEF TypeOK, EveryWaiterIsTimed
  <2> QED BY <1>2, <2>2
<1>4. CASE UNCHANGED <<request, waiterVars>>
  <2>1. TypeOK' /\ EveryWaiterIsTimed'
    BY <1>1, <1>4 DEF TypeOK, EveryWaiterIsTimed
  <2> QED BY <1>2, <2>1
<1> QED BY <1>3, <1>4

\* Together, an inductive invariant.
THEOREM Invariant == Spec => []Inv
<1>1. Init => Inv
  BY TransportAssumption
     DEF Init, Inv, TypeOK, EveryWaiterIsTimed, DialsTracked, NeverWedged
<1>2. Inv /\ [Next]_vars => Inv'
  <2> SUFFICES ASSUME Inv, [Next]_vars PROVE Inv'
    OBVIOUS
  <2>1. CASE \E r \in Requests : Call(r) \/ Send(r) \/ ConnectFails(r) \/ Timeout(r)
    BY <2>1, CallKeeps, SendKeeps, ConnectFailsKeeps, TimeoutKeeps
  <2>2. CASE \E n \in Sockets : DialSucceeds(n) \/ DialFails(n)
                                \/ SocketBreaks(n) \/ SocketCloses(n)
    BY <2>2, DialSucceedsKeeps, DialFailsKeeps, SocketBreaksKeeps, SocketClosesKeeps
  <2>3. CASE \E n \in Sockets : SecondHalf(n)
                                \/ \E line \in Requests \cup {Notice} : FirstHalf(n, line)
    BY <2>3, FirstHalfKeeps, SecondHalfKeeps
  <2>4. CASE Close
    BY <2>4, CloseKeeps
  <2>5. CASE UNCHANGED vars
    BY <2>5 DEF vars, callVars, waiterVars, socketVars, dataVars, Inv, TypeOK,
               EveryWaiterIsTimed, DialsTracked, NeverWedged
  <2> QED BY <2>1, <2>2, <2>3, <2>4, <2>5 DEF Next
<1> QED BY <1>1, <1>2, PTL DEF Spec

\* Every timer has its entry in the map, no buffer outgrows its cap, and the
\* variables keep their types.
THEOREM TransportTypeCorrect == Spec => []TypeOK
<1>1. Inv => TypeOK
  BY DEF Inv
<1> QED BY <1>1, Invariant, PTL

\* No waiter is without a timer, and no entry is left that nothing removes.
THEOREM WaitersAlwaysTimed == Spec => []EveryWaiterIsTimed
<1>1. Inv => EveryWaiterIsTimed
  BY DEF Inv
<1> QED BY <1>1, Invariant, PTL

\* A transport without a socket dials again, or is about to be able to.
THEOREM TransportNeverWedged == Spec => []NeverWedged
<1>1. Inv => NeverWedged
  BY DEF Inv
<1> QED BY <1>1, Invariant, PTL
-----------------------------------------------------------------------------
(* Every request settles.  A call goes one way: it awaits a dial, waits    *)
(* for its answer, and is settled; and whatever it awaits, the loop's      *)
(* fairness is about.                                                      *)

\* A dial that somebody awaits, or may come to await, was begun.
DialsBegun ==
  /\ connecting # 0 => state[connecting] # "unused"
  /\ \A r \in Requests : request[r] = "connecting" /\ awaits[r] # 0 =>
                           state[awaits[r]] # "unused"

LiveInv == Inv /\ DialsBegun

Connecting(r) == request[r] = "connecting"
Waiting(r) == request[r] = "waiting"
Settled(r) == request[r] \in {"resolved", "rejected"}

\* The loop has a continuation, or a timer, of the call to run.
Resumable(r) == Connecting(r) /\ (awaits[r] = 0 \/ dialled[awaits[r]] # "pending")
Timed(r) == r \in timers
Dialling(n) == state[n] = "dialling"
Awaiting(r, n) == Connecting(r) /\ awaits[r] = n /\ Dialling(n)
AwaitingSome(r) == \E n \in Sockets : Awaiting(r, n)

Resumes(r) == Send(r) \/ ConnectFails(r)
DialEnds(n) == DialSucceeds(n) \/ DialFails(n)

(***************************************************************************)
(* The fairness of FairSpec that the requests need, with what enables each *)
(* action written out: a weaker assumption than WF, as a step that changes *)
(* the variables is possible wherever these guards hold.                   *)
(***************************************************************************)
GuardFairness ==
  /\ \A r \in Requests :
       /\ []<>~Resumable(r) \/ []<><<Resumes(r)>>_vars
       /\ []<>~Timed(r) \/ []<><<Timeout(r)>>_vars
  /\ \A n \in Sockets : []<>~Dialling(n) \/ []<><<DialEnds(n)>>_vars

OneWay(r) ==
  /\ Connecting(r) => /\ awaits'[r] = awaits[r]
                      /\ \/ Connecting(r)'
                         \/ Resumable(r) /\ request'[r] \in {"waiting", "rejected"}
  /\ Waiting(r) => Waiting(r)' \/ Settled(r)'

Begun(n) ==
  /\ state[n] # "unused" => state'[n] # "unused"
  /\ dialled[n] # "pending" => dialled'[n] # "pending"

OnlyForward ==
  /\ \A r \in Requests : OneWay(r)
  /\ \A n \in Sockets : Begun(n)

\* Settling those who wait moves no call back.
LEMMA RejectedIsForward ==
  ASSUME TypeOK, NEW rs, request' = Rejected(rs), awaits' = awaits
  PROVE  /\ \A r \in Requests : OneWay(r)
         /\ \A r \in Requests : Connecting(r)' => Connecting(r)
BY DEF TypeOK, Rejected, OneWay, Connecting, Waiting, Settled

LEMMA CallIsForward ==
  ASSUME LiveInv, NEW r \in Requests, Call(r)
  PROVE  OnlyForward /\ DialsBegun'
<1> USE DEF LiveInv, Inv, TypeOK, Sockets
<1>1. \A n \in Sockets : Begun(n)
  BY DEF Call, Begun
<1>2. \A q \in Requests : OneWay(q)
  BY DEF Call, OneWay, Connecting, Waiting, Settled
<1>3. \A n \in Sockets : state[n] # "unused" => state'[n] # "unused"
  BY <1>1 DEF Begun
<1>4. connecting' # 0 => connecting' \in Sockets /\ state'[connecting'] # "unused"
  <2>1. CASE UNCHANGED connecting
    BY <2>1, <1>3 DEF DialsBegun
  <2>2. CASE \E n \in Sockets : state' = [state EXCEPT ![n] = "dialling"] /\ connecting' = n
    BY <2>2
  <2> QED BY <2>1, <2>2 DEF Call
<1>5. awaits' \in {[awaits EXCEPT ![r] = 0], [awaits EXCEPT ![r] = connecting']}
  BY DEF Call
<1>6. ASSUME NEW q \in Requests, request'[q] = "connecting", awaits'[q] # 0
      PROVE  state'[awaits'[q]] # "unused"
  <2>1. CASE q = r
    <3>1. awaits'[q] = connecting'
      BY <1>5, <1>6, <2>1
    <3> QED BY <3>1, <1>4, <1>6
  <2>2. CASE q # r
    <3>1. awaits'[q] = awaits[q] /\ request[q] = "connecting"
      BY <1>5, <1>6, <2>2 DEF Call
    <3>2. awaits[q] \in Sockets /\ state[awaits[q]] # "unused"
      BY <3>1, <1>6 DEF DialsBegun
    <3> QED BY <3>1, <3>2, <1>3
  <2> QED BY <2>1, <2>2
<1>7. DialsBegun'
  BY <1>4, <1>6 DEF DialsBegun
<1> QED BY <1>1, <1>2, <1>7 DEF OnlyForward

\* Any other step begins no dial and leaves what is awaited.
LEMMA OthersBegin ==
  ASSUME LiveInv, OnlyForward, awaits' = awaits, connecting' \in {0, connecting},
         TypeOK',
         \A r \in Requests : Connecting(r)' => Connecting(r)
  PROVE  DialsBegun'
BY DEF LiveInv, Inv, TypeOK, OnlyForward, OneWay, Begun, DialsBegun, Connecting, Sockets

LEMMA StepIsForward ==
  ASSUME LiveInv, Inv', [Next]_vars
  PROVE  OnlyForward /\ DialsBegun'
<1> USE DEF LiveInv, Inv
<1>1. ASSUME NEW r \in Requests, Call(r)
      PROVE  OnlyForward /\ DialsBegun'
  BY <1>1, CallIsForward
<1>2. ASSUME NEW r \in Requests, Send(r)
      PROVE  OnlyForward /\ DialsBegun'
  <2>1. /\ \A q \in Requests : OneWay(q)
        /\ \A q \in Requests : Connecting(q)' => Connecting(q)
    BY <1>2 DEF Send, TypeOK, OneWay, Connecting, Waiting, Settled, Resumable
  <2>2. \A n \in Sockets : Begun(n)
    BY <1>2 DEF Send, Begun, socketVars
  <2> QED BY <1>2, <2>1, <2>2, OthersBegin DEF Send, OnlyForward, socketVars
<1>3. ASSUME NEW r \in Requests, ConnectFails(r)
      PROVE  OnlyForward /\ DialsBegun'
  <2>1. /\ \A q \in Requests : OneWay(q)
        /\ \A q \in Requests : Connecting(q)' => Connecting(q)
    BY <1>3 DEF ConnectFails, TypeOK, OneWay, Connecting, Waiting, Settled, Resumable
  <2>2. \A n \in Sockets : Begun(n)
    BY <1>3 DEF ConnectFails, Begun, socketVars
  <2> QED BY <1>3, <2>1, <2>2, OthersBegin DEF ConnectFails, OnlyForward, socketVars
<1>4. ASSUME NEW r \in Requests, Timeout(r)
      PROVE  OnlyForward /\ DialsBegun'
  <2>1. /\ \A q \in Requests : OneWay(q)
        /\ \A q \in Requests : Connecting(q)' => Connecting(q)
    BY <1>4, RejectedIsForward DEF Timeout
  <2>2. \A n \in Sockets : Begun(n)
    BY <1>4 DEF Timeout, Begun, socketVars
  <2> QED BY <1>4, <2>1, <2>2, OthersBegin DEF Timeout, OnlyForward, socketVars
<1>5. ASSUME NEW n \in Sockets,
             DialSucceeds(n) \/ DialFails(n) \/ SocketBreaks(n) \/ SocketCloses(n)
      PROVE  OnlyForward /\ DialsBegun'
  <2>1. FailAll \/ UNCHANGED <<callVars, waiterVars>>
    BY <1>5 DEF DialSucceeds, DialFails, SocketBreaks, SocketCloses, callVars, waiterVars
  <2>2. /\ \A q \in Requests : OneWay(q)
        /\ \A q \in Requests : Connecting(q)' => Connecting(q)
        /\ awaits' = awaits
    BY <2>1, RejectedIsForward DEF FailAll, callVars, OneWay, Connecting, Waiting
  <2>3. \A m \in Sockets : Begun(m)
    BY <1>5 DEF DialSucceeds, DialFails, SocketBreaks, SocketCloses, Begun, TypeOK
  <2>4. connecting' \in {0, connecting}
    BY <1>5 DEF DialSucceeds, DialFails, SocketBreaks, SocketCloses
  <2> QED BY <2>2, <2>3, <2>4, OthersBegin DEF OnlyForward
<1>6. ASSUME NEW n \in Sockets, NEW line \in Requests \cup {Notice}, FirstHalf(n, line)
      PROVE  OnlyForward /\ DialsBegun'
  <2>1. FailAll \/ UNCHANGED <<callVars, waiterVars>>
    BY <1>6 DEF FirstHalf
  <2>2. /\ \A q \in Requests : OneWay(q)
        /\ \A q \in Requests : Connecting(q)' => Connecting(q)
        /\ awaits' = awaits
    BY <2>1, RejectedIsForward DEF FailAll, callVars, OneWay, Connecting, Waiting
  <2>3. \A m \in Sockets : Begun(m)
    BY <1>6 DEF FirstHalf, Begun, TypeOK
  <2> QED BY <1>6, <2>2, <2>3, OthersBegin DEF FirstHalf, OnlyForward
<1>7. ASSUME NEW n \in Sockets, SecondHalf(n)
      PROVE  OnlyForward /\ DialsBegun'
  <2>1. /\ \A q \in Requests : OneWay(q)
        /\ \A q \in Requests : Connecting(q)' => Connecting(q)
    BY <1>7 DEF SecondHalf, TypeOK, OneWay, Connecting, Waiting, Settled
  <2>2. \A m \in Sockets : Begun(m)
    BY <1>7 DEF SecondHalf, Begun, socketVars
  <2> QED BY <1>7, <2>1, <2>2, OthersBegin DEF SecondHalf, OnlyForward, socketVars
<1>8. ASSUME Close
      PROVE  OnlyForward /\ DialsBegun'
  <2>1. /\ \A q \in Requests : OneWay(q)
        /\ \A q \in Requests : Connecting(q)' => Connecting(q)
    BY <1>8 DEF Close, callVars, OneWay, Connecting, Waiting
  <2>2. \A m \in Sockets : Begun(m)
    BY <1>8 DEF Close, Begun, TypeOK
  <2> QED BY <1>8, <2>1, <2>2, OthersBegin DEF Close, OnlyForward, callVars
<1>9. CASE UNCHANGED vars
  BY <1>9 DEF vars, callVars, socketVars, OnlyForward, OneWay, Begun, DialsBegun,
              Connecting, Waiting
<1> QED BY <1>1, <1>2, <1>3, <1>4, <1>5, <1>6, <1>7, <1>8, <1>9 DEF Next

LEMMA LiveInvariant == Spec => []LiveInv
<1>1. Init /\ Inv => LiveInv
  BY DEF Init, LiveInv, DialsBegun
<1>2. LiveInv /\ Inv' /\ [Next]_vars => LiveInv'
  BY StepIsForward DEF LiveInv
<1> QED BY <1>1, <1>2, Invariant, PTL DEF Spec

-----------------------------------------------------------------------------

\* A dial that a call awaits ends, and the call can go on.
LEMMA DialsEnd ==
  ASSUME NEW r \in Requests, NEW n \in Sockets
  PROVE  Spec /\ GuardFairness => [](Awaiting(r, n) => <>Resumable(r))
<1>1. GuardFairness => ([]<>~Dialling(n) \/ []<><<DialEnds(n)>>_vars)
  BY DEF GuardFairness
<1>2. Awaiting(r, n) => Dialling(n)
  BY DEF Awaiting
<1>3. LiveInv /\ LiveInv' /\ Awaiting(r, n) /\ [Next]_vars => Awaiting(r, n)' \/ Resumable(r)'
  <2> SUFFICES ASSUME LiveInv, LiveInv', Awaiting(r, n), [Next]_vars
               PROVE  Awaiting(r, n)' \/ Resumable(r)'
    OBVIOUS
  <2>1. OneWay(r) /\ Begun(n)
    BY StepIsForward DEF OnlyForward, LiveInv
  <2>2. dialled[n] = "pending" /\ awaits[r] = n
    BY DEF Awaiting, Dialling, LiveInv, Inv, DialsTracked
  <2>3. Connecting(r)' /\ awaits'[r] = n
    BY <2>1, <2>2 DEF OneWay, Awaiting, Resumable, Sockets
  <2>4. dialled'[n] = "pending" => state'[n] = "dialling"
    BY <2>1 DEF Awaiting, Dialling, Begun, LiveInv, Inv, DialsTracked
  <2> QED BY <2>3, <2>4 DEF Awaiting, Dialling, Resumable
<1>4. LiveInv /\ LiveInv' /\ Awaiting(r, n) /\ [Next]_vars /\ <<DialEnds(n)>>_vars =>
        Resumable(r)'
  <2> SUFFICES ASSUME LiveInv, LiveInv', Awaiting(r, n), [Next]_vars, DialEnds(n)
               PROVE  Resumable(r)'
    OBVIOUS
  <2>1. state'[n] # "dialling"
    BY DEF DialEnds, DialSucceeds, DialFails, LiveInv, Inv, TypeOK
  <2> QED BY <1>3, <2>1 DEF Awaiting, Dialling
<1> QED BY <1>1, <1>2, <1>3, <1>4, LiveInvariant, PTL DEF Spec

\* A call that can go on goes on: it is sent, or told that it was not.
LEMMA ResumableGoesOn ==
  ASSUME NEW r \in Requests
  PROVE  Spec /\ GuardFairness => [](Resumable(r) => <>(Waiting(r) \/ Settled(r)))
<1>1. GuardFairness => ([]<>~Resumable(r) \/ []<><<Resumes(r)>>_vars)
  BY DEF GuardFairness
<1>2. LiveInv /\ LiveInv' /\ Resumable(r) /\ [Next]_vars =>
        Resumable(r)' \/ Waiting(r)' \/ Settled(r)'
  <2> SUFFICES ASSUME LiveInv, LiveInv', Resumable(r), [Next]_vars
               PROVE  Resumable(r)' \/ Waiting(r)' \/ Settled(r)'
    OBVIOUS
  <2>1. OneWay(r) /\ \A n \in Sockets : Begun(n)
    BY StepIsForward DEF OnlyForward, LiveInv
  <2>2. CASE Connecting(r)' /\ awaits'[r] = awaits[r]
    BY <2>1, <2>2 DEF Resumable, Begun, LiveInv, Inv, TypeOK, Sockets
  <2>3. CASE request'[r] \in {"waiting", "rejected"}
    BY <2>3 DEF Waiting, Settled
  <2> QED BY <2>1, <2>2, <2>3 DEF OneWay, Resumable
<1>3. LiveInv /\ <<Resumes(r)>>_vars => Waiting(r)' \/ Settled(r)'
  BY DEF Resumes, Send, ConnectFails, LiveInv, Inv, TypeOK, Waiting, Settled
<1> QED BY <1>1, <1>2, <1>3, LiveInvariant, PTL DEF Spec

\* A call that waits for its answer has its timer.
LEMMA WaitingIsSettled ==
  ASSUME NEW r \in Requests
  PROVE  Spec /\ GuardFairness => [](Waiting(r) => <>Settled(r))
<1>1. GuardFairness => ([]<>~Timed(r) \/ []<><<Timeout(r)>>_vars)
  BY DEF GuardFairness
<1>2. LiveInv /\ Waiting(r) => Timed(r)
  BY DEF LiveInv, Inv, EveryWaiterIsTimed, Waiting, Timed
<1>3. LiveInv /\ LiveInv' /\ Waiting(r) /\ [Next]_vars => Waiting(r)' \/ Settled(r)'
  BY StepIsForward DEF OnlyForward, OneWay, LiveInv
<1>4. LiveInv /\ Waiting(r) /\ <<Timeout(r)>>_vars => Settled(r)'
  BY DEF Timeout, Rejected, LiveInv, Inv, TypeOK, Waiting, Settled
<1> QED BY <1>1, <1>2, <1>3, <1>4, LiveInvariant, PTL DEF Spec

LEMMA ConnectingIsSettled ==
  ASSUME NEW r \in Requests
  PROVE  Spec /\ GuardFairness => [](Connecting(r) => <>Settled(r))
<1>1. Spec /\ GuardFairness => \A n \in Sockets : [](Awaiting(r, n) => <>Resumable(r))
  BY DialsEnd
<1>2. (\A n \in Sockets : [](Awaiting(r, n) => <>Resumable(r)))
        => [](\A n \in Sockets : Awaiting(r, n) => <>Resumable(r))
  OBVIOUS
<1>3. (\A n \in Sockets : Awaiting(r, n) => <>Resumable(r))
        => (AwaitingSome(r) => <>Resumable(r))
  BY DEF AwaitingSome
<1>4. LiveInv /\ Connecting(r) => Resumable(r) \/ AwaitingSome(r)
  BY DEF LiveInv, Inv, TypeOK, DialsTracked, DialsBegun, Connecting, Resumable,
         AwaitingSome, Awaiting, Dialling, Sockets
<1>5. Spec /\ GuardFairness => [](AwaitingSome(r) => <>Resumable(r))
  BY <1>1, <1>2, <1>3, PTL
<1>6. Spec => []LiveInv
  BY LiveInvariant
<1>7. /\ Spec /\ GuardFairness => [](Resumable(r) => <>(Waiting(r) \/ Settled(r)))
      /\ Spec /\ GuardFairness => [](Waiting(r) => <>Settled(r))
  BY ResumableGoesOn, WaitingIsSettled
<1> QED BY <1>4, <1>5, <1>6, <1>7, PTL

(***************************************************************************)
(* Every request settles, whatever the server and the owner do, as long as *)
(* the loop runs its continuations and timers and every dial has an end.   *)
(***************************************************************************)
THEOREM RequestsAlwaysSettle == Spec /\ GuardFairness => RequestsSettle
<1>1. ASSUME NEW r \in Requests
      PROVE  Spec /\ GuardFairness => (Connecting(r) ~> Settled(r))
  BY ConnectingIsSettled, PTL
<1> QED BY <1>1 DEF RequestsSettle, Connecting, Settled

(* ------------------------------- the pool ------------------------------ *)

\* How far round the pool m is from start.
Distance(start, m) == IF m >= start THEN m - start ELSE m - start + MemberCount

Behind(c) == {m \in Members : Distance(c.start, m) < c.i}

UnderWay == {"backoff"} \cup Unsettled

CallState == [at : {"idle", "backoff", "answered", "exhausted"} \cup Unsettled,
              start : Members, i : Members, attempt : 0 .. MaxAttempts,
              status : Statuses, received : 0 .. MaxBytes]

Progress(r) ==
  /\ call[r].at = "idle" => failed[r] = {}
  /\ call[r].at = "exhausted" => failed[r] = Members
  /\ call[r].at \in UnderWay \cup {"answered"} => failed[r] = Behind(call[r])
  /\ call[r].at = "backoff" => call[r].attempt < MaxAttempts

PoolInv == PoolTypeOK /\ ServersAreRecorded /\ \A r \in Calls : Progress(r)

-----------------------------------------------------------------------------

\* The remainder of a sum of two members is the sum or one turn less.
LEMMA TurnRemainder ==
  ASSUME NEW start \in Members, NEW i \in Members
  PROVE  (start + i) % MemberCount =
           IF start + i < MemberCount THEN start + i ELSE start + i - MemberCount
BY PoolAssumption, Z3 DEF Members, PoolAssumption

\* The i-th member asked is the one at distance i.
LEMMA AskedIsAtDistance ==
  ASSUME NEW start \in Members, NEW i \in Members
  PROVE  /\ (start + i) % MemberCount \in Members
         /\ \A m \in Members : m = (start + i) % MemberCount <=> Distance(start, m) = i
<1> DEFINE asked == (start + i) % MemberCount
<1>1. asked = IF start + i < MemberCount THEN start + i ELSE start + i - MemberCount
  BY TurnRemainder
<1> HIDE DEF asked
<1>2. asked \in Members
  BY <1>1, PoolAssumption DEF Members, PoolAssumption
<1>3. \A m \in Members : m = asked <=> Distance(start, m) = i
  BY <1>1, PoolAssumption DEF Members, Distance, PoolAssumption
<1> QED BY <1>2, <1>3 DEF asked

\* An attempt begins with the member that the call had come to.
LEMMA ConnectCall ==
  ASSUME NEW c \in CallState, NEW attempt \in 0 .. MaxAttempts
  PROVE  /\ Connect(c, attempt) \in CallState
         /\ Connect(c, attempt).at = "connecting"
         /\ Connect(c, attempt).start = c.start
         /\ Connect(c, attempt).i = c.i
<1> DEFINE d == [[[[c EXCEPT !.at = "connecting"] EXCEPT !.attempt = attempt]
                    EXCEPT !.status = "no"] EXCEPT !.received = 0]
<1>1. "connecting" \in {"idle", "backoff", "answered", "exhausted"} \cup Unsettled
  BY DEF Unsettled
<1>2. "no" \in Statuses /\ 0 \in 0 .. MaxBytes
  BY PoolAssumption DEF Statuses, PoolAssumption
<1>3. d \in CallState /\ d.at = "connecting" /\ d.start = c.start /\ d.i = c.i
  BY <1>1, <1>2 DEF CallState
<1>4. Connect(c, attempt) = d
  BY DEF Connect
<1> QED BY <1>3, <1>4

LEMMA FirstCall ==
  ASSUME NEW start \in Members
  PROVE  /\ NoCall \in CallState /\ NoCall.at = "idle"
         /\ [NoCall EXCEPT !.start = start] \in CallState
         /\ [NoCall EXCEPT !.start = start].start = start
         /\ [NoCall EXCEPT !.start = start].i = 0
<1>1. NoCall \in CallState /\ NoCall.at = "idle" /\ NoCall.i = 0
  BY PoolAssumption DEF NoCall, CallState, Members, Statuses, Unsettled, PoolAssumption
<1> QED BY <1>1 DEF CallState

LEMMA InitImpliesInv == PoolInit => PoolInv
<1> SUFFICES ASSUME PoolInit PROVE PoolInv
  OBVIOUS
<1>1. NoCall \in CallState /\ NoCall.at = "idle"
  BY FirstCall DEF PoolInit
<1>2. call = [r \in Calls |-> NoCall] /\ failed = [r \in Calls |-> {}]
  BY DEF PoolInit
<1>3. PoolTypeOK
  BY <1>1, <1>2 DEF PoolInit, PoolTypeOK, CallState
<1>4. ServersAreRecorded
  BY <1>1, <1>2 DEF PoolInit, ServersAreRecorded
<1>5. \A r \in Calls : Progress(r)
  BY <1>1, <1>2 DEF Progress, UnderWay, Unsettled
<1> QED BY <1>3, <1>4, <1>5 DEF PoolInv

-----------------------------------------------------------------------------
(* What the actions do to the invariant, in the four ways there are: a     *)
(* request is made, goes on with its member, is answered by it, or is      *)
(* failed by it.                                                           *)

\* Another state of one call is a state of all calls.
LEMMA CallsKeepType ==
  ASSUME PoolInv, NEW r \in Calls, NEW c \in CallState, call' = [call EXCEPT ![r] = c]
  PROVE  /\ call \in [Calls -> CallState]
         /\ call' \in [Calls -> CallState]
         /\ call'[r] = c
         /\ \A q \in Calls \ {r} : call'[q] = call[q]
<1>1. call \in [Calls -> CallState]
  BY DEF PoolInv, PoolTypeOK, CallState
<1> QED BY <1>1

\* The members recorded, when a call that was not answered is not answered yet.
LEMMA RecordKept ==
  ASSUME PoolInv, NEW r \in Calls, NEW c \in CallState, call' = [call EXCEPT ![r] = c],
         call[r].at # "answered", c.at # "answered", usedBaseUrls' = usedBaseUrls
  PROVE  ServersAreRecorded'
<1>1. /\ call'[r] = c
      /\ \A q \in Calls \ {r} : call'[q] = call[q]
  BY CallsKeepType
<1>2. {q \in Calls : call'[q].at = "answered"} = {q \in Calls : call[q].at = "answered"}
  BY <1>1
<1>3. \A q \in {q \in Calls : call[q].at = "answered"} : call'[q] = call[q]
  BY <1>1
<1>4. \A q \in {q \in Calls : call[q].at = "answered"} : Asked(q)' = Asked(q)
  BY <1>3 DEF Asked
<1>5. usedBaseUrls = {Asked(q) : q \in {q \in Calls : call[q].at = "answered"}}
  BY DEF PoolInv, ServersAreRecorded
<1> QED BY <1>2, <1>4, <1>5 DEF ServersAreRecorded

LEMMA MadeStep ==
  ASSUME PoolInv, NEW r \in Calls, Ask(r)
  PROVE  PoolInv'
<1> DEFINE fresh == [NoCall EXCEPT !.start = cursor]
           c     == Connect(fresh, 1)
<1>1. cursor \in Members
  BY DEF PoolInv, PoolTypeOK
<1>2. 1 \in 0 .. MaxAttempts
  BY PoolAssumption DEF PoolAssumption
<1>3. /\ c \in CallState /\ c.at = "connecting"
      /\ c.start = cursor /\ c.i = 0
  <2>1. fresh \in CallState /\ fresh.start = cursor /\ fresh.i = 0
    BY <1>1, FirstCall
  <2> HIDE DEF fresh
  <2> QED BY <2>1, <1>2, ConnectCall
<1>4. call' = [call EXCEPT ![r] = c] /\ call[r].at = "idle"
  BY DEF Ask
<1> HIDE DEF c
<1>5. /\ call' \in [Calls -> CallState]
      /\ call'[r] = c
      /\ \A q \in Calls \ {r} : call'[q] = call[q]
  BY <1>3, <1>4, CallsKeepType
<1>6. cursor' \in Members
  BY <1>1, AskedIsAtDistance, PoolAssumption, Z3 DEF Ask, Members, PoolAssumption
<1>7. PoolTypeOK'
  BY <1>5, <1>6 DEF PoolInv, PoolTypeOK, Ask, CallState
<1>8. ServersAreRecorded'
  BY <1>3, <1>4, RecordKept DEF Ask
<1>9. \A q \in Calls : Progress(q)'
  <2> SUFFICES ASSUME NEW q \in Calls PROVE Progress(q)'
    OBVIOUS
  <2>1. failed' = failed /\ Progress(q)
    BY DEF Ask, PoolInv
  <2>2. CASE q # r
    BY <2>1, <2>2, <1>5 DEF Progress, Behind
  <2>3. CASE q = r
    <3>1. failed[q] = {}
      BY <2>1, <2>3, <1>4 DEF Progress
    <3>2. Behind(c) = {}
      BY <1>1, <1>3, PoolAssumption DEF Behind, Distance, Members, PoolAssumption
    <3> QED BY <2>1, <2>3, <3>1, <3>2, <1>3, <1>5 DEF Progress, UnderWay
  <2> QED BY <2>2, <2>3
<1> QED BY <1>7, <1>8, <1>9 DEF PoolInv

\* c: the call after the step, still with the same member.
LEMMA GoesOnStep ==
  ASSUME PoolInv, NEW r \in Calls, NEW c \in CallState, call' = [call EXCEPT ![r] = c],
         call[r].at \in UnderWay, c.at \in UnderWay,
         c.start = call[r].start, c.i = call[r].i,
         c.at = "backoff" => c.attempt < MaxAttempts,
         UNCHANGED <<cursor, usedBaseUrls, failed>>
  PROVE  PoolInv'
<1>1. /\ call' \in [Calls -> CallState]
      /\ call'[r] = c
      /\ \A q \in Calls \ {r} : call'[q] = call[q]
  BY CallsKeepType
<1>2. PoolTypeOK'
  BY <1>1 DEF PoolInv, PoolTypeOK, CallState
<1>3. call[r].at # "answered" /\ c.at \notin {"answered", "idle", "exhausted"}
  BY DEF UnderWay, Unsettled
<1>4. ServersAreRecorded'
  BY <1>3, RecordKept
<1>5. \A q \in Calls : Progress(q)'
  <2> SUFFICES ASSUME NEW q \in Calls PROVE Progress(q)'
    OBVIOUS
  <2>1. Progress(q)
    BY DEF PoolInv
  <2>2. CASE q # r
    BY <2>1, <2>2, <1>1 DEF Progress, Behind
  <2>3. CASE q = r
    <3>1. Behind(c) = Behind(call[r])
      BY DEF Behind
    <3> QED BY <2>1, <2>3, <3>1, <1>1, <1>3 DEF Progress
  <2> QED BY <2>2, <2>3
<1> QED BY <1>2, <1>4, <1>5 DEF PoolInv

LEMMA AnsweredStep ==
  ASSUME PoolInv, NEW r \in Calls, NEW c \in CallState, call' = [call EXCEPT ![r] = c],
         call[r].at \in UnderWay, c.at = "answered",
         c.start = call[r].start, c.i = call[r].i,
         usedBaseUrls' = usedBaseUrls \cup {Asked(r)}, UNCHANGED <<cursor, failed>>
  PROVE  PoolInv'
<1>1. /\ call' \in [Calls -> CallState]
      /\ call'[r] = c
      /\ \A q \in Calls \ {r} : call'[q] = call[q]
      /\ call[r] \in CallState
  BY CallsKeepType
<1>2. Asked(r) \in Members
  BY <1>1, AskedIsAtDistance DEF Asked, CallState
<1>3. PoolTypeOK'
  BY <1>1, <1>2 DEF PoolInv, PoolTypeOK, CallState
<1>4. ServersAreRecorded'
  <2> DEFINE answered == {q \in Calls : call[q].at = "answered"}
  <2>1. {q \in Calls : call'[q].at = "answered"} = answered \cup {r}
    BY <1>1
  <2>2. \A q \in answered \cup {r} : Asked(q)' = Asked(q)
    BY <1>1 DEF Asked
  <2>3. usedBaseUrls = {Asked(q) : q \in answered}
    BY DEF PoolInv, ServersAreRecorded
  <2> HIDE DEF answered
  <2>4. usedBaseUrls' = {Asked(q) : q \in answered \cup {r}}
    BY <2>3
  <2>5. usedBaseUrls' = {Asked(q)' : q \in answered \cup {r}}
    BY <2>2, <2>4
  <2> QED BY <2>1, <2>5 DEF ServersAreRecorded
<1>5. \A q \in Calls : Progress(q)'
  <2> SUFFICES ASSUME NEW q \in Calls PROVE Progress(q)'
    OBVIOUS
  <2>1. Progress(q)
    BY DEF PoolInv
  <2>2. CASE q # r
    BY <2>1, <2>2, <1>1 DEF Progress, Behind
  <2>3. CASE q = r
    <3>1. Behind(c) = Behind(call[r])
      BY DEF Behind
    <3> QED BY <2>1, <2>3, <3>1, <1>1 DEF Progress, UnderWay
  <2> QED BY <2>2, <2>3
<1> QED BY <1>3, <1>4, <1>5 DEF PoolInv

\* The member asked joins those behind; after the last, these are all.
LEMMA FailedStep ==
  ASSUME PoolInv, NEW r \in Calls, call[r].at \in UnderWay, MemberFails(r)
  PROVE  PoolInv'
<1> DEFINE further == Connect([call[r] EXCEPT !.i = call[r].i + 1], 1)
           given   == [call[r] EXCEPT !.at = "exhausted"]
           c       == IF call[r].i + 1 < MemberCount THEN further ELSE given
<1>1. call[r] \in CallState
  BY DEF PoolInv, PoolTypeOK, CallState
<1>2. 1 \in 0 .. MaxAttempts
  BY PoolAssumption DEF PoolAssumption
<1>3. /\ Asked(r) \in Members
      /\ \A m \in Members : m = Asked(r) <=> Distance(call[r].start, m) = call[r].i
  BY <1>1, AskedIsAtDistance DEF Asked, CallState
<1>4. /\ call' = [call EXCEPT ![r] = c]
      /\ failed' = [failed EXCEPT ![r] = failed[r] \cup {Asked(r)}]
      /\ UNCHANGED <<cursor, usedBaseUrls>>
  BY DEF MemberFails
<1>5. ASSUME call[r].i + 1 < MemberCount
      PROVE  /\ further \in CallState /\ further.at = "connecting"
             /\ further.start = call[r].start /\ further.i = call[r].i + 1
  <2> DEFINE next == [call[r] EXCEPT !.i = call[r].i + 1]
  <2>1. /\ next \in CallState /\ next.start = call[r].start
        /\ next.i = call[r].i + 1
    BY <1>1, <1>5, PoolAssumption DEF CallState, Members, PoolAssumption
  <2> HIDE DEF next
  <2>2. /\ Connect(next, 1) \in CallState /\ Connect(next, 1).at = "connecting"
        /\ Connect(next, 1).start = next.start /\ Connect(next, 1).i = next.i
    BY <2>1, <1>2, ConnectCall
  <2> QED BY <2>1, <2>2 DEF next
<1>6. given \in CallState /\ given.at = "exhausted"
  BY <1>1 DEF CallState
<1> HIDE DEF further, given
<1>7. c \in CallState /\ c.at \in {"connecting", "exhausted"}
  BY <1>5, <1>6
<1>8. /\ call' \in [Calls -> CallState]
      /\ call'[r] = c
      /\ \A q \in Calls \ {r} : call'[q] = call[q]
  BY <1>4, <1>7, CallsKeepType
<1>9. failed \in [Calls -> SUBSET Members]
  BY DEF PoolInv, PoolTypeOK
<1>10. PoolTypeOK'
  BY <1>3, <1>4, <1>8, <1>9 DEF PoolInv, PoolTypeOK, CallState
<1>11. ServersAreRecorded'
  BY <1>4, <1>7, RecordKept DEF UnderWay, Unsettled
<1>12. \A q \in Calls : Progress(q)'
  <2> SUFFICES ASSUME NEW q \in Calls PROVE Progress(q)'
    OBVIOUS
  <2>1. Progress(q)
    BY DEF PoolInv
  <2>2. CASE q # r
    BY <2>1, <2>2, <1>4, <1>8, <1>9 DEF Progress, Behind
  <2>3. CASE q = r
    <3>1. failed[r] = Behind(call[r])
      BY <2>1, <2>3 DEF Progress
    <3>2. failed'[r] = Behind(call[r]) \cup {Asked(r)}
      BY <3>1, <1>4, <1>9
    <3>3. CASE call[r].i + 1 < MemberCount
      <4>1. c = further
        BY <3>3
      <4>2. Behind(further) = Behind(call[r]) \cup {Asked(r)}
        BY <1>1, <1>3, <1>5, <3>3, PoolAssumption
           DEF Behind, Distance, CallState, Members, PoolAssumption
      <4> QED BY <2>3, <3>2, <3>3, <4>1, <4>2, <1>5, <1>8 DEF Progress, UnderWay
    <3>4. CASE ~(call[r].i + 1 < MemberCount)
      <4>1. c = given
        BY <3>4
      <4>2. Members = Behind(call[r]) \cup {Asked(r)}
        BY <1>1, <1>3, <3>4, PoolAssumption
           DEF Behind, Distance, CallState, Members, PoolAssumption
      <4> QED BY <2>3, <3>2, <4>1, <4>2, <1>6, <1>8 DEF Progress, UnderWay, Unsettled
    <3> QED BY <3>3, <3>4
  <2> QED BY <2>2, <2>3
<1> QED BY <1>10, <1>11, <1>12 DEF PoolInv

-----------------------------------------------------------------------------
(* The actions, and the invariant along a behaviour.                       *)

LEMMA LaterStep ==
  ASSUME PoolInv, NEW r \in Calls, call[r].at \in UnderWay, TryLater(r)
  PROVE  PoolInv'
<1>1. CASE call[r].attempt < MaxAttempts
  <2> DEFINE c == [call[r] EXCEPT !.at = "backoff"]
  <2>1. call[r] \in CallState
    BY DEF PoolInv, PoolTypeOK, CallState
  <2>2. /\ c \in CallState /\ c.at = "backoff" /\ c.attempt = call[r].attempt
        /\ c.start = call[r].start /\ c.i = call[r].i
    BY <2>1 DEF CallState
  <2>3. call' = [call EXCEPT ![r] = c] /\ UNCHANGED <<cursor, usedBaseUrls, failed>>
    BY <1>1 DEF TryLater
  <2> HIDE DEF c
  <2> QED BY <2>2, <2>3, <1>1, GoesOnStep DEF UnderWay
<1>2. CASE ~(call[r].attempt < MaxAttempts)
  BY <1>2, FailedStep DEF TryLater
<1> QED BY <1>1, <1>2

LEMMA ReturnedStep ==
  ASSUME PoolInv, NEW r \in Calls, NEW status \in Statuses, NEW received \in 0 .. MaxBytes,
         call[r].at \in UnderWay, Returned(r, status, received)
  PROVE  PoolInv'
<1>1. CASE /\ call' = [call EXCEPT ![r] = [@ EXCEPT !.at = "answered", !.status = "ok",
                                                    !.received = received]]
           /\ usedBaseUrls' = usedBaseUrls \cup {Asked(r)}
           /\ UNCHANGED <<cursor, failed>>
  <2> DEFINE c == [[[call[r] EXCEPT !.at = "answered"] EXCEPT !.status = "ok"]
                    EXCEPT !.received = received]
  <2>1. call[r] \in CallState
    BY DEF PoolInv, PoolTypeOK, CallState
  <2>2. /\ c \in CallState /\ c.at = "answered"
        /\ c.start = call[r].start /\ c.i = call[r].i
    BY <2>1 DEF CallState, Statuses
  <2>3. call' = [call EXCEPT ![r] = c]
    BY <1>1
  <2> HIDE DEF c
  <2> QED BY <2>2, <2>3, <1>1, AnsweredStep
<1>2. CASE MemberFails(r)
  BY <1>2, FailedStep
<1>3. CASE TryLater(r)
  BY <1>3, LaterStep
<1> QED BY <1>1, <1>2, <1>3 DEF Returned

LEMMA StepKeepsInv ==
  ASSUME PoolInv, NEW r \in Calls, Step(r)
  PROVE  PoolInv'
<1>1. call[r] \in CallState
  BY DEF PoolInv, PoolTypeOK, CallState
<1>2. CASE Ask(r)
  BY <1>2, MadeStep
<1>3. CASE Headers(r)
  <2>1. call[r].at \in UnderWay
    BY <1>3 DEF Headers, UnderWay, Unsettled
  <2>2. CASE MemberFails(r)
    BY <2>1, <2>2, FailedStep
  <2>3. ASSUME NEW status \in Statuses,
               call' = [call EXCEPT ![r] = [@ EXCEPT !.at = "reading", !.status = status]],
               UNCHANGED <<cursor, usedBaseUrls, failed>>
        PROVE  PoolInv'
    <3> DEFINE c == [[call[r] EXCEPT !.at = "reading"] EXCEPT !.status = status]
    <3>1. /\ c \in CallState /\ c.at = "reading"
          /\ c.start = call[r].start /\ c.i = call[r].i
      BY <1>1 DEF CallState, Unsettled
    <3>2. call' = [call EXCEPT ![r] = c]
      BY <2>3
    <3> HIDE DEF c
    <3> QED BY <3>1, <3>2, <2>1, <2>3, GoesOnStep DEF UnderWay, Unsettled
  <2> QED BY <1>3, <2>2, <2>3 DEF Headers
<1>4. CASE NoBody(r)
  <2>1. call[r].at \in UnderWay
    BY <1>4 DEF NoBody, UnderWay, Unsettled
  <2>2. PICK received \in 0 .. MaxBytes + 1, status \in Statuses :
          IF received > MaxBytes THEN MemberFails(r) ELSE Returned(r, status, received)
    BY <1>4 DEF NoBody
  <2>3. CASE received > MaxBytes
    BY <2>1, <2>2, <2>3, FailedStep
  <2>4. CASE ~(received > MaxBytes)
    <3>1. received \in 0 .. MaxBytes
      BY <2>4, PoolAssumption DEF PoolAssumption
    <3> QED BY <2>1, <2>2, <2>4, <3>1, ReturnedStep
  <2> QED BY <2>3, <2>4
<1>5. CASE Chunk(r)
  <2>1. call[r].at \in UnderWay
    BY <1>5 DEF Chunk, UnderWay, Unsettled
  <2>2. PICK length \in 1 .. MaxChunk :
          call' = [call EXCEPT ![r] =
                     IF call[r].received + length > MaxBytes
                     THEN [call[r] EXCEPT !.at = "cancelling"]
                     ELSE [call[r] EXCEPT !.received = call[r].received + length]]
    BY <1>5 DEF Chunk
  <2> DEFINE cancelling == [call[r] EXCEPT !.at = "cancelling"]
             longer     == [call[r] EXCEPT !.received = call[r].received + length]
  <2>3. UNCHANGED <<cursor, usedBaseUrls, failed>>
    BY <1>5 DEF Chunk
  <2>4. CASE call[r].received + length > MaxBytes
    <3>1. /\ cancelling \in CallState /\ cancelling.at = "cancelling"
          /\ cancelling.start = call[r].start /\ cancelling.i = call[r].i
      BY <1>1 DEF CallState, Unsettled
    <3>2. call' = [call EXCEPT ![r] = cancelling]
      BY <2>2, <2>4
    <3> HIDE DEF cancelling
    <3> QED BY <3>1, <3>2, <2>1, <2>3, GoesOnStep DEF UnderWay, Unsettled
  <2>5. CASE ~(call[r].received + length > MaxBytes)
    <3>1. /\ longer \in CallState /\ longer.at = "reading"
          /\ longer.start = call[r].start /\ longer.i = call[r].i
      BY <1>1, <1>5, <2>5, PoolAssumption DEF CallState, Chunk, PoolAssumption
    <3>2. call' = [call EXCEPT ![r] = longer]
      BY <2>2, <2>5
    <3> HIDE DEF longer
    <3> QED BY <3>1, <3>2, <2>1, <2>3, GoesOnStep DEF UnderWay, Unsettled
  <2> QED BY <2>4, <2>5
<1>6. CASE BodyEnds(r)
  <2>1. call[r].status \in Statuses /\ call[r].received \in 0 .. MaxBytes
    BY <1>1 DEF CallState
  <2> QED BY <2>1, <1>6, ReturnedStep DEF BodyEnds, UnderWay, Unsettled
<1>7. CASE Cancelled(r)
  BY <1>7, FailedStep DEF Cancelled, UnderWay, Unsettled
<1>8. CASE NetworkError(r)
  BY <1>8, LaterStep DEF NetworkError, UnderWay, Unsettled
<1>9. CASE Deadline(r)
  BY <1>9, LaterStep DEF Deadline, UnderWay
<1>10. CASE Wake(r)
  <2> DEFINE c == Connect(call[r], call[r].attempt + 1)
  <2>1. call[r].attempt < MaxAttempts
    BY <1>10 DEF Wake, PoolInv, Progress
  <2>2. call[r].attempt + 1 \in 0 .. MaxAttempts
    BY <1>1, <2>1, PoolAssumption DEF CallState, PoolAssumption
  <2>3. /\ c \in CallState /\ c.at = "connecting"
        /\ c.start = call[r].start /\ c.i = call[r].i
    BY <1>1, <2>2, ConnectCall
  <2>4. call' = [call EXCEPT ![r] = c] /\ UNCHANGED <<cursor, usedBaseUrls, failed>>
    BY <1>10 DEF Wake
  <2> HIDE DEF c
  <2> QED BY <2>3, <2>4, <1>10, GoesOnStep DEF Wake, UnderWay, Unsettled
<1> QED BY <1>2, <1>3, <1>4, <1>5, <1>6, <1>7, <1>8, <1>9, <1>10 DEF Step

LEMMA StutterKeepsInv ==
  ASSUME PoolInv, UNCHANGED poolVars
  PROVE  PoolInv'
<1>1. PoolTypeOK'
  BY DEF PoolInv, PoolTypeOK, poolVars
<1>2. ServersAreRecorded'
  BY DEF PoolInv, ServersAreRecorded, Asked, poolVars
<1>3. \A r \in Calls : Progress(r)'
  BY DEF PoolInv, Progress, Behind, poolVars
<1> QED BY <1>1, <1>2, <1>3 DEF PoolInv

THEOREM AlwaysInv == PoolSpec => []PoolInv
<1>1. PoolInit => PoolInv
  BY InitImpliesInv
<1>2. PoolInv /\ [PoolNext]_poolVars => PoolInv'
  BY StepKeepsInv, StutterKeepsInv DEF PoolNext
<1> QED BY <1>1, <1>2, PTL DEF PoolSpec

\* A request gives up only after every member failed it, and never goes back to one.
LEMMA InvImpliesExhaustedMeansAll == PoolInv => ExhaustedMeansAll
<1> SUFFICES ASSUME PoolInv, NEW r \in Calls
             PROVE  /\ call[r].at = "exhausted" <=> failed[r] = Members
                    /\ call[r].at \in {"backoff", "answered"} \cup Unsettled =>
                         Asked(r) \notin failed[r]
  BY DEF ExhaustedMeansAll
<1>1. call[r] \in CallState /\ Progress(r)
  BY DEF PoolInv, PoolTypeOK, CallState
<1>2. Asked(r) \in Members /\ Asked(r) \notin Behind(call[r])
  <2>1. Asked(r) \in Members /\ Distance(call[r].start, Asked(r)) = call[r].i
    BY <1>1, AskedIsAtDistance DEF Asked, CallState
  <2>2. call[r].i \in Int
    BY <1>1, PoolAssumption DEF CallState, Members, PoolAssumption
  <2> QED BY <2>1, <2>2 DEF Behind
<1>3. call[r].at \in UnderWay \cup {"answered"} => Asked(r) \notin failed[r]
  BY <1>1, <1>2 DEF Progress
<1>4. call[r].at \in UnderWay \cup {"answered", "idle", "exhausted"}
  BY <1>1 DEF CallState, UnderWay
<1>5. call[r].at # "exhausted" => failed[r] # Members
  BY <1>1, <1>2, <1>3, <1>4 DEF Progress
<1> QED BY <1>1, <1>3, <1>5 DEF Progress, UnderWay

-----------------------------------------------------------------------------
(***************************************************************************)
(* The variables of a pool and its requests keep their types: no count     *)
(* passes its limit, and every member asked is one of the pool's.          *)
(***************************************************************************)
THEOREM PoolTypeCorrect == PoolSpec => []PoolTypeOK
<1>1. PoolInv => PoolTypeOK
  BY DEF PoolInv
<1> QED BY <1>1, AlwaysInv, PTL

(***************************************************************************)
(* PoolExhaustedError means what failover takes it to mean: each member    *)
(* failed this very request, once, however requests interleave.            *)
(***************************************************************************)
THEOREM ExhaustedAlwaysMeansAll == PoolSpec => []ExhaustedMeansAll
BY AlwaysInv, InvImpliesExhaustedMeansAll, PTL

(***************************************************************************)
(* usedBaseUrls, which the header vote excludes, holds exactly the members *)
(* that answered a request.                                                *)
(***************************************************************************)
THEOREM ServersAlwaysRecorded == PoolSpec => []ServersAreRecorded
<1>1. PoolInv => ServersAreRecorded
  BY DEF PoolInv
<1> QED BY <1>1, AlwaysInv, PTL
-----------------------------------------------------------------------------
(* A request runs down: each of its steps takes it nearer its end, and     *)
(* whatever it waits for, a timer will see to it.                          *)

\* More than an attempt can take: the headers, a byte at a time, the end.
AttemptSteps == MaxBytes + 4

\* What is left of the attempt.
AttemptLeft(c) ==
  IF c.at = "connecting" THEN MaxBytes + 3
  ELSE IF c.at = "reading" THEN MaxBytes - c.received + 2
  ELSE IF c.at = "cancelling" THEN 1 ELSE 0

\* The attempts that are left, with this member and with those after it.
AttemptsLeft(c) == (MemberCount - 1 - c.i) * MaxAttempts + (MaxAttempts - c.attempt)

MostSteps == MemberCount * MaxAttempts * AttemptSteps

StepsLeft(c) ==
  IF c.at = "idle" THEN MostSteps
  ELSE IF c.at \in UnderWay THEN AttemptsLeft(c) * AttemptSteps + AttemptLeft(c)
  ELSE 0

Counted(r) == call[r].at \in UnderWay => call[r].attempt >= 1

CountedInv == PoolInv /\ \A r \in Calls : Counted(r)

\* m and n: members after this one; a and b: attempts left of the member; k: of the attempt.
LEMMA Lexicographic ==
  ASSUME NEW m \in Nat, NEW n \in Nat, NEW a \in 0 .. MaxAttempts - 1,
         NEW b \in 0 .. MaxAttempts - 1, NEW k \in 0 .. AttemptSteps - 1,
         NEW l \in 0 .. AttemptSteps - 1,
         n < m \/ (n = m /\ (b < a \/ (b = a /\ l < k)))
  PROVE  /\ (m * MaxAttempts + a) * AttemptSteps + k \in Nat
         /\ (n * MaxAttempts + b) * AttemptSteps + l < (m * MaxAttempts + a) * AttemptSteps + k
<1> DEFINE A == MaxAttempts
           S == AttemptSteps
           p == m * A + a
           q == n * A + b
<1>1. A \in Nat \ {0} /\ S \in Nat \ {0}
  BY PoolAssumption DEF PoolAssumption, AttemptSteps
<1>2. a \in Nat /\ b \in Nat /\ a < A /\ b < A /\ k \in Nat /\ l \in Nat /\ k < S /\ l < S
  BY <1>1
<1>3. /\ m * A \in Nat /\ n * A \in Nat
      /\ n < m => n * A + A <= m * A
  <2> HIDE DEF A
  <2>1. m * A \in Nat /\ n * A \in Nat
    BY <1>1, Z3
  <2>2. n < m => (n + 1) * A <= m * A
    BY <1>1, Z3
  <2>3. (n + 1) * A = n * A + A
    BY <1>1, Z3
  <2> QED BY <2>1, <2>2, <2>3
<1>4. p \in Nat /\ q \in Nat /\ (q < p \/ (q = p /\ l < k))
  <2> HIDE DEF A
  <2>1. CASE n < m
    BY <2>1, <1>1, <1>2, <1>3
  <2>2. CASE n = m
    BY <2>2, <1>1, <1>2, <1>3
  <2> QED BY <2>1, <2>2
<1> HIDE DEF p, q
<1>5. /\ p * S \in Nat /\ q * S \in Nat
      /\ q < p => q * S + S <= p * S
  <2> HIDE DEF S
  <2>1. p * S \in Nat /\ q * S \in Nat
    BY <1>1, <1>4, Z3
  <2>2. q < p => (q + 1) * S <= p * S
    BY <1>1, <1>4, Z3
  <2>3. (q + 1) * S = q * S + S
    BY <1>1, <1>4, Z3
  <2> QED BY <2>1, <2>2, <2>3
<1>6. p * S + k \in Nat /\ q * S + l < p * S + k
  <2> HIDE DEF S
  <2>1. CASE q < p
    BY <2>1, <1>1, <1>2, <1>4, <1>5
  <2>2. CASE q = p /\ l < k
    BY <2>2, <1>1, <1>2, <1>4, <1>5
  <2> QED BY <2>1, <2>2, <1>4
<1> QED BY <1>6 DEF p, q

LEMMA StepsLeftUnderWay ==
  ASSUME NEW c \in CallState, c.at \in UnderWay, c.attempt >= 1
  PROVE  /\ MemberCount - 1 - c.i \in Nat
         /\ MaxAttempts - c.attempt \in 0 .. MaxAttempts - 1
         /\ AttemptLeft(c) \in 0 .. AttemptSteps - 1
         /\ c.at \in Unsettled => AttemptLeft(c) > 0
         /\ StepsLeft(c) = AttemptsLeft(c) * AttemptSteps + AttemptLeft(c)
<1>1. /\ c.i \in 0 .. MemberCount - 1 /\ c.attempt \in 0 .. MaxAttempts
      /\ c.received \in 0 .. MaxBytes
  BY DEF CallState, Members
<1>2. MemberCount - 1 - c.i \in Nat /\ MaxAttempts - c.attempt \in 0 .. MaxAttempts - 1
  BY <1>1, PoolAssumption DEF PoolAssumption
<1>3. AttemptLeft(c) \in 0 .. AttemptSteps - 1
  BY <1>1, PoolAssumption DEF PoolAssumption, AttemptLeft, AttemptSteps
<1>4. c.at \in Unsettled => AttemptLeft(c) > 0
  BY <1>1, PoolAssumption DEF PoolAssumption, AttemptLeft, Unsettled
<1>5. StepsLeft(c) = AttemptsLeft(c) * AttemptSteps + AttemptLeft(c)
  BY DEF StepsLeft, UnderWay, Unsettled
<1> QED BY <1>2, <1>3, <1>4, <1>5

\* A call has at most MostSteps left, and none when it has ended.
LEMMA StepsLeftBounded ==
  ASSUME NEW c \in CallState, c.at \in UnderWay => c.attempt >= 1
  PROVE  /\ MostSteps \in Nat \ {0}
         /\ StepsLeft(c) \in 0 .. MostSteps
         /\ c.at \in UnderWay => StepsLeft(c) < MostSteps
         /\ c.at \in Unsettled \cup {"idle"} => StepsLeft(c) > 0
<1> DEFINE least == MemberCount - 1
<1>1. /\ MemberCount \in Nat \ {0} /\ MaxAttempts \in Nat \ {0} /\ AttemptSteps \in Nat \ {0}
      /\ 0 \in 0 .. MaxAttempts - 1 /\ 0 \in 0 .. AttemptSteps - 1
      /\ least \in Nat /\ least < MemberCount
  BY PoolAssumption DEF PoolAssumption, AttemptSteps
<1>2. MostSteps = (MemberCount * MaxAttempts + 0) * AttemptSteps + 0
  <2>1. MemberCount * MaxAttempts \in Nat
    BY <1>1, Z3
  <2>2. MemberCount * MaxAttempts * AttemptSteps \in Nat
    BY <2>1, <1>1, Z3
  <2> QED BY <2>1, <2>2 DEF MostSteps
<1>3. MostSteps \in Nat \ {0}
  <2>1. /\ (MemberCount * MaxAttempts + 0) * AttemptSteps + 0 \in Nat
        /\ (least * MaxAttempts + 0) * AttemptSteps + 0
             < (MemberCount * MaxAttempts + 0) * AttemptSteps + 0
        /\ (least * MaxAttempts + 0) * AttemptSteps + 0 \in Nat
    <3> HIDE DEF least
    <3>1. /\ (MemberCount * MaxAttempts + 0) * AttemptSteps + 0 \in Nat
          /\ (least * MaxAttempts + 0) * AttemptSteps + 0
               < (MemberCount * MaxAttempts + 0) * AttemptSteps + 0
      BY <1>1, Lexicographic
    <3>2. (least * MaxAttempts + 0) * AttemptSteps + 0 \in Nat
      <4>1. least * MaxAttempts \in Nat
        BY <1>1, Z3
      <4>2. (least * MaxAttempts + 0) \in Nat
        BY <4>1
      <4>3. (least * MaxAttempts + 0) * AttemptSteps \in Nat
        BY <4>2, <1>1, Z3
      <4> QED BY <4>3
    <3> QED BY <3>1, <3>2
  <2> QED BY <2>1, <1>2
<1>4. ASSUME c.at \in UnderWay
      PROVE  /\ StepsLeft(c) \in Nat /\ StepsLeft(c) < MostSteps
             /\ c.at \in Unsettled => StepsLeft(c) > 0
  <2> DEFINE m == MemberCount - 1 - c.i
             a == MaxAttempts - c.attempt
             k == AttemptLeft(c)
  <2>1. /\ m \in Nat /\ a \in 0 .. MaxAttempts - 1 /\ k \in 0 .. AttemptSteps - 1
        /\ c.at \in Unsettled => k > 0
        /\ StepsLeft(c) = AttemptsLeft(c) * AttemptSteps + k
    BY <1>4, StepsLeftUnderWay
  <2>2. m < MemberCount
    BY <1>1 DEF CallState, Members
  <2>3. AttemptsLeft(c) = m * MaxAttempts + a
    BY DEF AttemptsLeft
  <2> HIDE DEF m, a, k
  <2>4. (m * MaxAttempts + a) * AttemptSteps + k
          < (MemberCount * MaxAttempts + 0) * AttemptSteps + 0
    BY <1>1, <2>1, <2>2, Lexicographic
  <2>5. m * MaxAttempts + a \in Nat
    <3>1. m * MaxAttempts \in Nat
      BY <2>1, <1>1, Z3
    <3> QED BY <3>1, <2>1
  <2>6. (m * MaxAttempts + a) * AttemptSteps \in Nat
    BY <2>5, <1>1, Z3
  <2> QED BY <2>1, <2>3, <2>4, <2>6, <1>2
<1>5. c.at = "idle" => StepsLeft(c) = MostSteps
  BY DEF StepsLeft
<1>6. c.at \in {"answered", "exhausted"} => StepsLeft(c) = 0
  BY DEF StepsLeft, UnderWay, Unsettled
<1>7. c.at \in UnderWay \cup {"idle", "answered", "exhausted"}
  BY DEF CallState, UnderWay
<1> QED BY <1>3, <1>4, <1>5, <1>6, <1>7 DEF UnderWay, Unsettled

\* The step of one request: that one is nearer its end, the others are as they were.
RunsDown(r) ==
  /\ StepsLeft(call'[r]) < StepsLeft(call[r])
  /\ \A q \in Calls \ {r} : call'[q] = call[q]

\* d: the call after the step.
Nearer(d, c) ==
  \/ d.at \in {"answered", "exhausted"} /\ c.at \in Unsettled
  \/ /\ d.at \in UnderWay /\ d.attempt >= 1
     /\ \/ d.i > c.i
        \/ d.i = c.i /\ d.attempt > c.attempt
        \/ d.i = c.i /\ d.attempt = c.attempt /\ AttemptLeft(d) < AttemptLeft(c)

LEMMA NearerRunsDown ==
  ASSUME CountedInv, NEW r \in Calls, call[r].at \in UnderWay,
         NEW d \in CallState, Nearer(d, call[r]), call' = [call EXCEPT ![r] = d]
  PROVE  RunsDown(r) /\ \A q \in Calls : Counted(q)'
<1>1. /\ call[r] \in CallState /\ call'[r] = d
      /\ \A q \in Calls \ {r} : call'[q] = call[q]
  BY CallsKeepType DEF CountedInv
<1>2. call[r].attempt >= 1
  BY DEF CountedInv, Counted
<1>3. d.at \in UnderWay => d.attempt >= 1
  BY DEF Nearer, UnderWay, Unsettled
<1>4. \A q \in Calls : Counted(q)'
  BY <1>1, <1>3 DEF Counted, CountedInv
<1>5. CASE d.at \in {"answered", "exhausted"} /\ call[r].at \in Unsettled
  <2>1. StepsLeft(d) = 0
    BY <1>5 DEF StepsLeft, UnderWay, Unsettled
  <2>2. StepsLeft(call[r]) > 0
    BY <1>1, <1>2, <1>5, StepsLeftBounded
  <2> QED BY <1>1, <1>4, <2>1, <2>2 DEF RunsDown
<1>6. CASE ~(d.at \in {"answered", "exhausted"} /\ call[r].at \in Unsettled)
  <2> DEFINE c == call[r]
             m == MemberCount - 1 - c.i
             n == MemberCount - 1 - d.i
             a == MaxAttempts - c.attempt
             b == MaxAttempts - d.attempt
             k == AttemptLeft(c)
             l == AttemptLeft(d)
  <2>1. d.at \in UnderWay /\ d.attempt >= 1
    BY <1>6 DEF Nearer
  <2>2. /\ m \in Nat /\ a \in 0 .. MaxAttempts - 1 /\ k \in 0 .. AttemptSteps - 1
        /\ StepsLeft(c) = (m * MaxAttempts + a) * AttemptSteps + k
    BY <1>1, <1>2, StepsLeftUnderWay DEF AttemptsLeft
  <2>3. /\ n \in Nat /\ b \in 0 .. MaxAttempts - 1 /\ l \in 0 .. AttemptSteps - 1
        /\ StepsLeft(d) = (n * MaxAttempts + b) * AttemptSteps + l
    BY <2>1, StepsLeftUnderWay DEF AttemptsLeft
  <2>4. n < m \/ (n = m /\ (b < a \/ (b = a /\ l < k)))
    <3>1. /\ c.i \in Int /\ d.i \in Int /\ c.attempt \in Int /\ d.attempt \in Int
          /\ MemberCount \in Int /\ MaxAttempts \in Int
      BY <1>1, PoolAssumption DEF CallState, Members, PoolAssumption
    <3>2. \/ d.i > c.i
          \/ d.i = c.i /\ d.attempt > c.attempt
          \/ d.i = c.i /\ d.attempt = c.attempt /\ l < k
      BY <1>6 DEF Nearer
    <3> HIDE DEF c, k, l
    <3> QED BY <3>1, <3>2
  <2> HIDE DEF m, n, a, b, k, l
  <2>5. StepsLeft(d) < StepsLeft(c)
    BY <2>2, <2>3, <2>4, Lexicographic
  <2> QED BY <1>1, <1>4, <2>5 DEF RunsDown
<1> QED BY <1>5, <1>6

LEMMA ConnectAttempt ==
  ASSUME NEW c \in CallState, NEW attempt \in 0 .. MaxAttempts
  PROVE  Connect(c, attempt).attempt = attempt
<1> DEFINE d == [[[[c EXCEPT !.at = "connecting"] EXCEPT !.attempt = attempt]
                    EXCEPT !.status = "no"] EXCEPT !.received = 0]
<1>1. d.attempt = attempt
  BY DEF CallState
<1>2. Connect(c, attempt) = d
  BY DEF Connect
<1> QED BY <1>1, <1>2

LEMMA AskRunsDown ==
  ASSUME CountedInv, NEW r \in Calls, Ask(r)
  PROVE  RunsDown(r) /\ \A q \in Calls : Counted(q)'
<1> DEFINE fresh == [NoCall EXCEPT !.start = cursor]
           d     == Connect(fresh, 1)
<1>1. cursor \in Members /\ 1 \in 0 .. MaxAttempts
  BY PoolAssumption DEF CountedInv, PoolInv, PoolTypeOK, PoolAssumption
<1>2. d \in CallState /\ d.at = "connecting" /\ d.attempt = 1
  <2>1. fresh \in CallState
    BY <1>1, FirstCall
  <2> HIDE DEF fresh
  <2> QED BY <2>1, <1>1, ConnectCall, ConnectAttempt
<1>3. call' = [call EXCEPT ![r] = d] /\ call[r].at = "idle"
  BY DEF Ask
<1> HIDE DEF d
<1>4. call'[r] = d /\ \A q \in Calls \ {r} : call'[q] = call[q]
  BY <1>2, <1>3, CallsKeepType DEF CountedInv
<1>5. StepsLeft(d) < MostSteps
  BY <1>2, StepsLeftBounded DEF UnderWay, Unsettled
<1>6. StepsLeft(call[r]) = MostSteps
  BY <1>3 DEF StepsLeft
<1>7. \A q \in Calls : Counted(q)'
  BY <1>2, <1>4 DEF Counted, CountedInv
<1> QED BY <1>4, <1>5, <1>6, <1>7 DEF RunsDown

LEMMA FailsRunsDown ==
  ASSUME CountedInv, NEW r \in Calls, call[r].at \in Unsettled, MemberFails(r)
  PROVE  RunsDown(r) /\ \A q \in Calls : Counted(q)'
<1> DEFINE next    == [call[r] EXCEPT !.i = call[r].i + 1]
           further == Connect(next, 1)
           given   == [call[r] EXCEPT !.at = "exhausted"]
<1>1. call[r] \in CallState /\ 1 \in 0 .. MaxAttempts /\ call[r].at \in UnderWay
  BY PoolAssumption DEF CountedInv, PoolInv, PoolTypeOK, CallState, PoolAssumption, UnderWay
<1>2. CASE call[r].i + 1 < MemberCount
  <2>1. /\ next \in CallState /\ next.i = call[r].i + 1 /\ call[r].i \in Int
    BY <1>1, <1>2, PoolAssumption DEF CallState, Members, PoolAssumption
  <2>2. call' = [call EXCEPT ![r] = further]
    BY <1>2 DEF MemberFails
  <2> HIDE DEF next
  <2>3. /\ further \in CallState /\ further.at = "connecting"
        /\ further.i = next.i /\ further.attempt = 1
    BY <1>1, <2>1, ConnectCall, ConnectAttempt
  <2> HIDE DEF further
  <2>4. further.i > call[r].i /\ further.attempt >= 1 /\ further.at \in UnderWay
    BY <2>1, <2>3 DEF UnderWay, Unsettled
  <2>5. Nearer(further, call[r])
    BY <2>4 DEF Nearer
  <2> QED BY <1>1, <2>2, <2>3, <2>5, NearerRunsDown
<1>3. CASE ~(call[r].i + 1 < MemberCount)
  <2>1. given \in CallState /\ given.at = "exhausted"
    BY <1>1 DEF CallState
  <2>2. call' = [call EXCEPT ![r] = given]
    BY <1>3 DEF MemberFails
  <2> HIDE DEF given
  <2>3. Nearer(given, call[r])
    BY <2>1 DEF Nearer
  <2> QED BY <1>1, <2>1, <2>2, <2>3, NearerRunsDown
<1> QED BY <1>2, <1>3

LEMMA LaterRunsDown ==
  ASSUME CountedInv, NEW r \in Calls, call[r].at \in Unsettled, TryLater(r)
  PROVE  RunsDown(r) /\ \A q \in Calls : Counted(q)'
<1> DEFINE d == [call[r] EXCEPT !.at = "backoff"]
<1>1. call[r] \in CallState /\ call[r].at \in UnderWay /\ call[r].attempt >= 1
  BY DEF CountedInv, Counted, PoolInv, PoolTypeOK, CallState, UnderWay
<1>2. CASE call[r].attempt < MaxAttempts
  <2>1. /\ d \in CallState /\ d.at = "backoff"
        /\ d.i = call[r].i /\ d.attempt = call[r].attempt
    BY <1>1 DEF CallState
  <2>2. call' = [call EXCEPT ![r] = d]
    BY <1>2 DEF TryLater
  <2> HIDE DEF d
  <2>3. AttemptLeft(call[r]) > 0
    BY <1>1, StepsLeftUnderWay
  <2>4. AttemptLeft(d) = 0
    BY <2>1 DEF AttemptLeft
  <2>5. Nearer(d, call[r])
    BY <1>1, <2>1, <2>3, <2>4 DEF Nearer, UnderWay
  <2> QED BY <1>1, <2>1, <2>2, <2>5, NearerRunsDown
<1>3. CASE ~(call[r].attempt < MaxAttempts)
  BY <1>3, FailsRunsDown DEF TryLater
<1> QED BY <1>2, <1>3

LEMMA ReturnedRunsDown ==
  ASSUME CountedInv, NEW r \in Calls, NEW status \in Statuses, NEW received \in 0 .. MaxBytes,
         call[r].at \in Unsettled, Returned(r, status, received)
  PROVE  RunsDown(r) /\ \A q \in Calls : Counted(q)'
<1>1. CASE call' = [call EXCEPT ![r] = [@ EXCEPT !.at = "answered", !.status = "ok",
                                                 !.received = received]]
  <2> DEFINE d == [[[call[r] EXCEPT !.at = "answered"] EXCEPT !.status = "ok"]
                    EXCEPT !.received = received]
  <2>1. call[r] \in CallState /\ call[r].at \in UnderWay
    BY DEF CountedInv, PoolInv, PoolTypeOK, CallState, UnderWay
  <2>2. d \in CallState /\ d.at = "answered"
    BY <2>1 DEF CallState, Statuses
  <2>3. call' = [call EXCEPT ![r] = d]
    BY <1>1
  <2> HIDE DEF d
  <2>4. Nearer(d, call[r])
    BY <2>2 DEF Nearer
  <2> QED BY <2>1, <2>2, <2>3, <2>4, NearerRunsDown
<1>2. CASE MemberFails(r)
  BY <1>2, FailsRunsDown
<1>3. CASE TryLater(r)
  BY <1>3, LaterRunsDown
<1> QED BY <1>1, <1>2, <1>3 DEF Returned

LEMMA StepRunsDown ==
  ASSUME CountedInv, NEW r \in Calls, Step(r)
  PROVE  RunsDown(r) /\ \A q \in Calls : Counted(q)'
<1>1. call[r] \in CallState /\ Counted(r)
  BY DEF CountedInv, PoolInv, PoolTypeOK, CallState
<1>2. CASE Ask(r)
  BY <1>2, AskRunsDown
<1>3. CASE Headers(r)
  <2>1. call[r].at = "connecting" /\ call[r].at \in Unsettled /\ call[r].at \in UnderWay
    BY <1>3 DEF Headers, UnderWay, Unsettled
  <2>2. CASE MemberFails(r)
    BY <2>1, <2>2, FailsRunsDown
  <2>3. ASSUME NEW status \in Statuses,
               call' = [call EXCEPT ![r] = [@ EXCEPT !.at = "reading", !.status = status]]
        PROVE  RunsDown(r) /\ \A q \in Calls : Counted(q)'
    <3> DEFINE d == [[call[r] EXCEPT !.at = "reading"] EXCEPT !.status = status]
    <3>1. /\ d \in CallState /\ d.at = "reading" /\ d.i = call[r].i
          /\ d.attempt = call[r].attempt /\ d.received = call[r].received
      BY <1>1 DEF CallState, Unsettled
    <3>2. call' = [call EXCEPT ![r] = d]
      BY <2>3
    <3> HIDE DEF d
    <3>3. AttemptLeft(d) < AttemptLeft(call[r])
      BY <1>1, <2>1, <3>1, PoolAssumption DEF AttemptLeft, CallState, PoolAssumption
    <3>4. Nearer(d, call[r])
      BY <1>1, <2>1, <3>1, <3>3 DEF Nearer, Counted, UnderWay, Unsettled
    <3> QED BY <2>1, <3>1, <3>2, <3>4, NearerRunsDown
  <2> QED BY <1>3, <2>2, <2>3 DEF Headers
<1>4. CASE NoBody(r)
  <2>1. call[r].at \in Unsettled
    BY <1>4 DEF NoBody, Unsettled
  <2>2. PICK received \in 0 .. MaxBytes + 1, status \in Statuses :
          IF received > MaxBytes THEN MemberFails(r) ELSE Returned(r, status, received)
    BY <1>4 DEF NoBody
  <2>3. CASE received > MaxBytes
    BY <2>1, <2>2, <2>3, FailsRunsDown
  <2>4. CASE ~(received > MaxBytes)
    <3>1. received \in 0 .. MaxBytes
      BY <2>4, PoolAssumption DEF PoolAssumption
    <3> QED BY <2>1, <2>2, <2>4, <3>1, ReturnedRunsDown
  <2> QED BY <2>3, <2>4
<1>5. CASE Chunk(r)
  <2>1. call[r].at = "reading" /\ call[r].at \in UnderWay
    BY <1>5 DEF Chunk, UnderWay, Unsettled
  <2>2. PICK length \in 1 .. MaxChunk :
          call' = [call EXCEPT ![r] =
                     IF call[r].received + length > MaxBytes
                     THEN [call[r] EXCEPT !.at = "cancelling"]
                     ELSE [call[r] EXCEPT !.received = call[r].received + length]]
    BY <1>5 DEF Chunk
  <2> DEFINE cancelling == [call[r] EXCEPT !.at = "cancelling"]
             longer     == [call[r] EXCEPT !.received = call[r].received + length]
  <2>3. CASE call[r].received + length > MaxBytes
    <3>1. /\ cancelling \in CallState /\ cancelling.at = "cancelling"
          /\ cancelling.attempt = call[r].attempt /\ cancelling.i = call[r].i
      BY <1>1 DEF CallState, Unsettled
    <3>2. call' = [call EXCEPT ![r] = cancelling]
      BY <2>2, <2>3
    <3> HIDE DEF cancelling
    <3>3. AttemptLeft(cancelling) < AttemptLeft(call[r])
      BY <1>1, <2>1, <3>1, PoolAssumption DEF AttemptLeft, CallState, PoolAssumption
    <3>4. Nearer(cancelling, call[r])
      BY <1>1, <2>1, <3>1, <3>3 DEF Nearer, Counted, UnderWay, Unsettled
    <3> QED BY <2>1, <3>1, <3>2, <3>4, NearerRunsDown
  <2>4. CASE ~(call[r].received + length > MaxBytes)
    <3>1. /\ longer \in CallState /\ longer.at = "reading"
          /\ longer.attempt = call[r].attempt /\ longer.i = call[r].i
          /\ longer.received > call[r].received /\ longer.received <= MaxBytes
      BY <1>1, <2>1, <2>4, PoolAssumption DEF CallState, PoolAssumption
    <3>2. call' = [call EXCEPT ![r] = longer]
      BY <2>2, <2>4
    <3> HIDE DEF longer
    <3>3. AttemptLeft(longer) < AttemptLeft(call[r])
      BY <1>1, <2>1, <3>1, PoolAssumption DEF AttemptLeft, CallState, PoolAssumption
    <3>4. Nearer(longer, call[r])
      BY <1>1, <2>1, <3>1, <3>3 DEF Nearer, Counted, UnderWay, Unsettled
    <3> QED BY <2>1, <3>1, <3>2, <3>4, NearerRunsDown
  <2> QED BY <2>3, <2>4
<1>6. CASE BodyEnds(r)
  <2>1. call[r].status \in Statuses /\ call[r].received \in 0 .. MaxBytes
    BY <1>1 DEF CallState
  <2> QED BY <2>1, <1>6, ReturnedRunsDown DEF BodyEnds, Unsettled
<1>7. CASE Cancelled(r)
  BY <1>7, FailsRunsDown DEF Cancelled, Unsettled
<1>8. CASE NetworkError(r)
  BY <1>8, LaterRunsDown DEF NetworkError, Unsettled
<1>9. CASE Deadline(r)
  BY <1>9, LaterRunsDown DEF Deadline
<1>10. CASE Wake(r)
  <2> DEFINE d == Connect(call[r], call[r].attempt + 1)
  <2>1. call[r].at = "backoff" /\ call[r].attempt < MaxAttempts /\ call[r].attempt >= 1
    BY <1>1, <1>10 DEF Wake, CountedInv, Counted, PoolInv, Progress, UnderWay
  <2>2. call[r].attempt + 1 \in 0 .. MaxAttempts /\ call[r].attempt \in Int
    BY <1>1, <2>1, PoolAssumption DEF CallState, PoolAssumption
  <2>3. /\ d \in CallState /\ d.at = "connecting" /\ d.i = call[r].i
        /\ d.attempt = call[r].attempt + 1
    BY <1>1, <2>2, ConnectCall, ConnectAttempt
  <2>4. call' = [call EXCEPT ![r] = d]
    BY <1>10 DEF Wake
  <2> HIDE DEF d
  <2>5. d.attempt > call[r].attempt /\ d.attempt >= 1
    BY <2>1, <2>2, <2>3
  <2>6. Nearer(d, call[r])
    BY <2>3, <2>5 DEF Nearer, UnderWay, Unsettled
  <2> QED BY <2>1, <2>3, <2>4, <2>6, NearerRunsDown DEF UnderWay
<1> QED BY <1>2, <1>3, <1>4, <1>5, <1>6, <1>7, <1>8, <1>9, <1>10 DEF Step

LEMMA CountedInvariant == PoolSpec => []CountedInv
<1>1. PoolInit => CountedInv
  <2> SUFFICES ASSUME PoolInit PROVE CountedInv
    OBVIOUS
  <2>1. NoCall.at = "idle"
    BY FirstCall DEF PoolInit
  <2> QED BY <2>1, InitImpliesInv DEF PoolInit, CountedInv, Counted, UnderWay, Unsettled
<1>2. CountedInv /\ [PoolNext]_poolVars => CountedInv'
  <2> SUFFICES ASSUME CountedInv, [PoolNext]_poolVars PROVE CountedInv'
    OBVIOUS
  <2>1. PoolInv'
    BY StepKeepsInv, StutterKeepsInv DEF CountedInv, PoolNext
  <2>2. \A r \in Calls : Counted(r)'
    <3>1. ASSUME NEW r \in Calls, Step(r)
          PROVE  \A q \in Calls : Counted(q)'
      BY <3>1, StepRunsDown
    <3>2. CASE UNCHANGED poolVars
      BY <3>2 DEF poolVars, CountedInv, Counted
    <3> QED BY <3>1, <3>2 DEF PoolNext
  <2> QED BY <2>1, <2>2 DEF CountedInv
<1> QED BY <1>1, <1>2, PTL DEF PoolSpec

-----------------------------------------------------------------------------

SettledCall(c) == c.at \in {"answered", "exhausted"}

\* Each call has so many steps left, and those that have none are settled.
Bounded ==
  \A r \in Calls : /\ StepsLeft(call[r]) \in 0 .. MostSteps
                   /\ StepsLeft(call[r]) = 0 <=> SettledCall(call[r])

LEMMA CountedInvImpliesBounded == CountedInv => Bounded
<1> SUFFICES ASSUME CountedInv, NEW r \in Calls
             PROVE  /\ StepsLeft(call[r]) \in 0 .. MostSteps
                    /\ StepsLeft(call[r]) = 0 <=> SettledCall(call[r])
  BY DEF Bounded
<1> DEFINE c == call[r]
<1>1. c \in CallState /\ (c.at \in UnderWay => c.attempt >= 1)
  BY DEF CountedInv, Counted, PoolInv, PoolTypeOK, CallState
<1>2. c.at = "backoff" => c.attempt < MaxAttempts
  BY DEF CountedInv, PoolInv, Progress
<1> HIDE DEF c
<1>3. /\ MostSteps \in Nat \ {0} /\ StepsLeft(c) \in 0 .. MostSteps
      /\ c.at \in Unsettled \cup {"idle"} => StepsLeft(c) > 0
  BY <1>1, StepsLeftBounded
<1>4. c.at = "backoff" => StepsLeft(c) > 0
  <2> SUFFICES ASSUME c.at = "backoff" PROVE StepsLeft(c) > 0
    OBVIOUS
  <2> DEFINE m == MemberCount - 1 - c.i
             a == MaxAttempts - c.attempt
  <2>1. /\ m \in Nat /\ a \in 0 .. MaxAttempts - 1 /\ AttemptLeft(c) = 0
        /\ StepsLeft(c) = (m * MaxAttempts + a) * AttemptSteps + 0
        /\ 0 \in 0 .. AttemptSteps - 1
    <3>1. c.at \in UnderWay
      BY DEF UnderWay
    <3>2. AttemptLeft(c) = 0
      BY DEF AttemptLeft
    <3> QED BY <1>1, <3>1, <3>2, StepsLeftUnderWay DEF AttemptsLeft
  <2>2. a - 1 \in 0 .. MaxAttempts - 1 /\ a - 1 < a
    BY <1>1, <1>2, PoolAssumption DEF CallState, PoolAssumption
  <2> HIDE DEF m, a
  <2> DEFINE b == a - 1
  <2>3. b \in 0 .. MaxAttempts - 1 /\ b < a
    BY <2>2
  <2> HIDE DEF b
  <2>4. (m * MaxAttempts + b) * AttemptSteps + 0 < (m * MaxAttempts + a) * AttemptSteps + 0
    BY <2>1, <2>3, Lexicographic
  <2>5. (m * MaxAttempts + b) * AttemptSteps + 0 \in Nat
    <3>1. m * MaxAttempts \in Nat
      BY <2>1, PoolAssumption, Z3 DEF PoolAssumption
    <3>2. m * MaxAttempts + b \in Nat /\ AttemptSteps \in Nat
      BY <3>1, <2>3, PoolAssumption DEF PoolAssumption, AttemptSteps
    <3>3. (m * MaxAttempts + b) * AttemptSteps \in Nat
      BY <3>2, Z3
    <3> QED BY <3>3
  <2> QED BY <2>1, <2>4, <2>5, <1>3
<1>5. c.at \in {"answered", "exhausted"} => StepsLeft(c) = 0
  BY DEF StepsLeft, UnderWay, Unsettled
<1>6. c.at \in {"idle", "backoff", "answered", "exhausted"} \cup Unsettled
  BY <1>1 DEF CallState
<1>7. c.at \in Unsettled \cup {"idle", "backoff"} => c.at \notin {"answered", "exhausted"}
  BY DEF Unsettled
<1> QED BY <1>3, <1>4, <1>5, <1>6, <1>7 DEF SettledCall, c

(***************************************************************************)
(* A pool's requests cannot go on for ever: every step of the pool is the  *)
(* step of one request, and takes that one nearer its end, whatever the    *)
(* servers answer.                                                         *)
(***************************************************************************)
THEOREM PoolRunsDown == PoolSpec => [][\E r \in Calls : RunsDown(r)]_poolVars
<1>1. CountedInv /\ [PoolNext]_poolVars => [\E r \in Calls : RunsDown(r)]_poolVars
  BY StepRunsDown DEF PoolNext
<1> QED BY <1>1, CountedInvariant, PTL DEF PoolSpec

(***************************************************************************)
(* ... and that end is never further than MostSteps away: the members of   *)
(* the pool times the attempts with one of them times the bytes of one.    *)
(***************************************************************************)
THEOREM StepsAlwaysBounded == PoolSpec => []Bounded
BY CountedInvariant, CountedInvImpliesBounded, PTL

\* What each timer waits on, and what it does.
Deadlined(r) == call[r].at \in Unsettled
BackingOff(r) == call[r].at = "backoff"

(***************************************************************************)
(* The fairness of PoolSpec, with what enables each action written out:    *)
(* weaker than WF, as both timers can fire, and change the call, when they *)
(* run.                                                                    *)
(***************************************************************************)
PoolGuardFairness ==
  \A r \in Calls : /\ []<>~Deadlined(r) \/ []<><<Deadline(r)>>_poolVars
                   /\ []<>~BackingOff(r) \/ []<><<Wake(r)>>_poolVars

Left(r, n) == StepsLeft(call[r]) = n
LeftOfAttempt(r, n) == Deadlined(r) /\ Left(r, n)
LeftOfBackoff(r, n) == BackingOff(r) /\ Left(r, n)
Under(r, n) == call[r].at \in UnderWay /\ Left(r, n)
Below(r, n) == StepsLeft(call[r]) < n

(***************************************************************************)
(* A request under way gets nearer its end although no server ever says a  *)
(* word: a timer that is running sees to it.                               *)
(***************************************************************************)
THEOREM TimersBringOn ==
  ASSUME NEW r \in Calls, NEW n \in Nat
  PROVE  PoolSpec /\ PoolGuardFairness => (Under(r, n) ~> Below(r, n))
<1>1. PoolGuardFairness => /\ []<>~Deadlined(r) \/ []<><<Deadline(r)>>_poolVars
                           /\ []<>~BackingOff(r) \/ []<><<Wake(r)>>_poolVars
  BY DEF PoolGuardFairness
<1>2. Under(r, n) => LeftOfAttempt(r, n) \/ LeftOfBackoff(r, n)
  BY DEF Under, LeftOfAttempt, LeftOfBackoff, UnderWay, Deadlined, BackingOff
<1>3. ASSUME CountedInv, [PoolNext]_poolVars
      PROVE  call'[r] = call[r] \/ StepsLeft(call'[r]) < StepsLeft(call[r])
  <2>1. ASSUME NEW q \in Calls, Step(q)
        PROVE  call'[r] = call[r] \/ StepsLeft(call'[r]) < StepsLeft(call[r])
    BY <1>3, <2>1, StepRunsDown DEF RunsDown
  <2>2. CASE UNCHANGED poolVars
    BY <2>2 DEF poolVars
  <2> QED BY <1>3, <2>1, <2>2 DEF PoolNext
<1>4. /\ CountedInv /\ [PoolNext]_poolVars /\ LeftOfAttempt(r, n) =>
           LeftOfAttempt(r, n)' \/ Below(r, n)'
      /\ CountedInv /\ [PoolNext]_poolVars /\ LeftOfBackoff(r, n) =>
           LeftOfBackoff(r, n)' \/ Below(r, n)'
  BY <1>3 DEF LeftOfAttempt, LeftOfBackoff, Deadlined, BackingOff, Left, Below
<1>5. /\ CountedInv /\ LeftOfAttempt(r, n) /\ <<Deadline(r)>>_poolVars => Below(r, n)'
      /\ CountedInv /\ LeftOfBackoff(r, n) /\ <<Wake(r)>>_poolVars => Below(r, n)'
  <2>1. ASSUME CountedInv, Deadline(r) \/ Wake(r)
        PROVE  StepsLeft(call'[r]) < StepsLeft(call[r])
    BY <2>1, StepRunsDown DEF RunsDown, Step
  <2> QED BY <2>1 DEF LeftOfAttempt, LeftOfBackoff, Left, Below
<1>6. /\ LeftOfAttempt(r, n) => Deadlined(r)
      /\ LeftOfBackoff(r, n) => BackingOff(r)
  BY DEF LeftOfAttempt, LeftOfBackoff
<1> QED BY <1>1, <1>2, <1>4, <1>5, <1>6, CountedInvariant, PTL DEF PoolSpec

=============================================================================
