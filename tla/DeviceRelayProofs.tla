--------------------------- MODULE DeviceRelayProofs ---------------------------
(***************************************************************************)
(* What DeviceRelay guarantees for any number of calls, connections and    *)
(* CLI processes: its types, one executor, the promise to the gateway,     *)
(* waiting callers, routing, the Logs view and the delivery of cancels.    *)
(***************************************************************************)
EXTENDS DeviceRelay, WellFoundedInduction, TLAPS

----------------------------------------------------------------------------
(* Operators *)

\* Whatever order the runtime lists sockets in, a set of them has a first.
LEMMA FirstIsLeast ==
  ASSUME NEW S \in SUBSET Sockets, S # {}
  PROVE  First(S) \in S /\ \A t \in S : ListOrder[First(S)] <= ListOrder[t]
  <1> DEFINE lt == {pair \in Nat \X Nat : pair[1] < pair[2]}
             places == {ListOrder[s] : s \in S}
  <1>1. \A s \in S : ListOrder[s] \in Nat
    BY ConstantsAssumption, SMT DEF Sockets
  <1>2. IsWellFoundedOn(lt, Nat)
    BY NatLessThanWellFounded, Zenon DEF OpToRel
  <1>3. PICK n \in places : \A m \in places : ~(<<m, n>> \in lt)
    <2>1. places \subseteq Nat /\ places # {}
      BY <1>1, SMT
    <2> HIDE DEF lt, places
    <2> QED BY <1>2, <2>1, WFMin, Zenon
  <1>4. PICK s \in S : ListOrder[s] = n
    BY SMT
  <1>5. ASSUME NEW t \in S PROVE ListOrder[s] <= ListOrder[t]
    <2>1. ListOrder[t] \in Nat /\ ListOrder[s] \in Nat
      BY <1>1
    <2>2. <<ListOrder[t], ListOrder[s]>> \notin lt
      BY <1>3, <1>4
    <2>3. ~(ListOrder[t] < ListOrder[s])
      BY <2>1, <2>2, Zenon
    <2> QED BY <2>1, <2>3, SMT
  <1> QED BY <1>5 DEF First

LEMMA FirstType ==
  ASSUME NEW S \in SUBSET Sockets, S # {}
  PROVE  First(S) \in S
  BY FirstIsLeast

\* Routing answers with one of the listed sockets, or with none.
LEMMA ExecutorSocketType ==
  ASSUME TypeOK
  PROVE  ExecutorSocket \in Routable \cup {NoSocket}
  <1> DEFINE greeted == {s \in listed : active[s] = "yes"}
  <1>1. greeted \in SUBSET Sockets /\ Routable \in SUBSET Sockets /\ greeted \subseteq Routable
    BY SMT DEF TypeOK, Routable
  <1>2. CASE greeted # {}
    BY <1>1, <1>2, FirstType, SMT DEF ExecutorSocket
  <1>3. CASE greeted = {} /\ Routable # {}
    BY <1>1, <1>3, FirstType, SMT DEF ExecutorSocket
  <1>4. CASE greeted = {} /\ Routable = {}
    BY <1>4, SMT DEF ExecutorSocket
  <1> QED BY <1>2, <1>3, <1>4
----------------------------------------------------------------------------
(* Types *)

\* Groups of variables that an action leaves alone.
LEMMA TypeStutter ==
  ASSUME TypeOK, UNCHANGED vars
  PROVE  TypeOK'
  BY SMT DEF TypeOK, Calls, vars, executorVars, cloudVars, callerVars, linkVars, cliVars, workerVars

LEMMA WorkerType ==
  ASSUME TypeOK, WorkerNext
  PROVE  TypeOK'
  <1> USE DEF TypeOK, Calls, Outcomes, Replies, executorVars, cloudVars, callerVars, linkVars, cliVars
  <1>1. ASSUME NEW c \in Callers, Call(c) PROVE TypeOK'
    BY <1>1, SMT DEF Call
  <1>2. ASSUME NEW c \in Callers, Start(c) PROVE TypeOK'
    BY <1>2, SMT DEF Start
  <1>3. ASSUME NEW c \in Callers, Deadline(c) PROVE TypeOK'
    BY <1>3, SMT DEF Deadline
  <1>4. ASSUME NEW c \in Callers, NEW o \in Outcomes, NEW frames \in SUBSET {"start", "cancel", "close"},
               Finish(c, o, frames)
        PROVE  TypeOK'
    BY <1>4, SMT DEF Finish
  <1>5. ASSUME NEW c \in Callers, OpenedTooLate(c) PROVE TypeOK'
    BY <1>4, <1>5, SMT DEF OpenedTooLate
  <1>6. ASSUME NEW c \in Callers, Hear(c) PROVE TypeOK'
    <2>1. reply[c] \in Outcomes /\ wire[c] \cup {"close"} \in SUBSET {"start", "cancel", "close"}
      BY <1>6, SMT DEF Hear
    <2>2. Finish(c, reply[c], wire[c] \cup {"close"})
      BY <1>6 DEF Hear
    <2> QED BY <1>4, <2>1, <2>2
  <1>7. ASSUME NEW c \in Callers, TimeOut(c) PROVE TypeOK'
    BY <1>4, <1>7, SMT DEF TimeOut
  <1>8. ASSUME NEW c \in Callers, Abort(c) PROVE TypeOK'
    BY <1>4, <1>8, SMT DEF Abort
  <1>9. ASSUME NEW c \in Callers, Vanish(c) PROVE TypeOK'
    BY <1>4, <1>9, SMT DEF Vanish
  <1> QED BY <1>1, <1>2, <1>3, <1>5, <1>6, <1>7, <1>8, <1>9 DEF WorkerNext

SettleKeepsTypes ==
  /\ settled' \subseteq Callers
  /\ reply' \in [Callers -> Replies \cup {None}]
  /\ logView' \in [Callers -> {"none", "running", "ended"}]

CancelKeepsTypes ==
  /\ cancelled' \subseteq Callers
  /\ cancels' \in Calls
  /\ logView' \in [Callers -> {"none", "running", "ended"}]

DispatchKeepsTypes ==
  /\ SettleKeepsTypes
  /\ issued' \subseteq Callers
  /\ calls' \in Calls
  /\ sentTo' \in [Callers -> Sockets \cup {NoSocket}]

LEMMA SettleType ==
  ASSUME TypeOK, NEW C \in SUBSET Callers, NEW r \in Replies, Settle(C, r)
  PROVE  SettleKeepsTypes
  BY SMT DEF TypeOK, Settle, SettleKeepsTypes

LEMMA CancelCallerType ==
  ASSUME TypeOK, NEW c \in Callers, CancelCaller(c)
  PROVE  CancelKeepsTypes
  BY SMT DEF TypeOK, Calls, CancelCaller, LogEnd, CancelKeepsTypes

LEMMA DispatchType ==
  ASSUME TypeOK, NEW C \in SUBSET Callers, NEW refused \in SUBSET C, Dispatch(C, refused)
  PROVE  DispatchKeepsTypes
  <1>1. ExecutorSocket \in Sockets \cup {NoSocket}
    BY ExecutorSocketType, SMT DEF Routable, TypeOK
  <1> HIDE DEF ExecutorSocket
  <1> QED BY <1>1, SMT DEF TypeOK, Calls, Dispatch, Replies, Offline, DispatchKeepsTypes, SettleKeepsTypes

LEMMA RelayType ==
  ASSUME TypeOK, RelayNext
  PROVE  TypeOK'
  <1> USE DEF Calls, executorVars, cloudVars, callerVars, linkVars, cliVars, workerVars
  <1>1. ASSUME NEW c \in Callers, StartMessage(c) PROVE TypeOK'
    <2>1. wire' \in [Callers -> SUBSET {"start", "cancel", "close"}]
      BY <1>1, SMT DEF StartMessage, TypeOK
    <2>2. ASSUME NEW refused \in SUBSET {c}, Dispatch({c}, refused),
                 UNCHANGED <<open, waking, cancelled, hellos, cancels, shutdowns, results>>
          PROVE  TypeOK'
      <3>1. {c} \in SUBSET Callers
        OBVIOUS
      <3>2. DispatchKeepsTypes
        BY <2>2, <3>1, DispatchType
      <3> QED BY <1>1, <2>1, <2>2, <3>2, SMT DEF StartMessage, TypeOK, DispatchKeepsTypes, SettleKeepsTypes
    <2>3. CASE waking' = waking \cup {c} /\ UNCHANGED <<open, settled, issued, reply, logView, sentTo, cancelled, linkVars>>
      BY <1>1, <2>1, <2>3, SMT DEF StartMessage, TypeOK
    <2>4. CASE UNCHANGED <<callerVars, linkVars>>
      BY <1>1, <2>1, <2>4, SMT DEF StartMessage, TypeOK
    <2> QED BY <1>1, <2>2, <2>3, <2>4 DEF StartMessage
  <1>2. ASSUME NEW c \in Callers, CancelMessage(c) PROVE TypeOK'
    <2>1. CASE c \in settled
      BY <1>2, <2>1, SMT DEF CancelMessage, TypeOK
    <2>2. CASE c \notin settled
      <3>1. CancelCaller(c) /\ settled' = settled \cup {c}
        BY <1>2, <2>2, Zenon DEF CancelMessage
      <3>2. CancelKeepsTypes
        BY <3>1, CancelCallerType
      <3>3. wire' \in [Callers -> SUBSET {"start", "cancel", "close"}]
        BY <1>2, SMT DEF CancelMessage, TypeOK
      <3>4. open' \subseteq Callers /\ settled' \subseteq Callers
        BY <1>2, <3>1, SMT DEF CancelMessage, TypeOK
      <3>5. /\ UNCHANGED <<issued, waking, reply, sentTo, hellos, calls, shutdowns, results>>
            /\ UNCHANGED <<executorVars, cloudVars, cliVars, worker, outcome, expired>>
        BY <1>2, Zenon DEF CancelMessage
      <3> QED BY <3>2, <3>3, <3>4, <3>5, SMT DEF TypeOK, CancelKeepsTypes
    <2> QED BY <2>1, <2>2
  <1>3. ASSUME NEW c \in Callers, CallerCloses(c) PROVE TypeOK'
    <2>1. CASE c \in settled
      BY <1>3, <2>1, SMT DEF CallerCloses, TypeOK
    <2>2. CASE c \notin settled
      <3>1. CancelCaller(c)
        BY <1>3, <2>2, Zenon DEF CallerCloses
      <3>2. CancelKeepsTypes
        BY <3>1, CancelCallerType
      <3>3. wire' \in [Callers -> SUBSET {"start", "cancel", "close"}]
        BY <1>3, SMT DEF CallerCloses, TypeOK
      <3>4. open' \subseteq Callers /\ settled' \subseteq Callers
        BY <1>3, <3>1, SMT DEF CallerCloses, TypeOK
      <3>5. /\ UNCHANGED <<issued, waking, reply, sentTo, hellos, calls, shutdowns, results>>
            /\ UNCHANGED <<executorVars, cloudVars, cliVars, worker, outcome, expired>>
        BY <1>3, Zenon DEF CallerCloses
      <3> QED BY <3>2, <3>3, <3>4, <3>5, SMT DEF TypeOK, CancelKeepsTypes
    <2> QED BY <2>1, <2>2
  <1>4. ASSUME NEW ok \in BOOLEAN, WakeDone(ok) PROVE TypeOK'
    <2>1. waking \subseteq Callers /\ waking \ settled \subseteq Callers
      BY SMT DEF TypeOK
    <2>2. ASSUME NEW refused \in SUBSET (waking \ settled), Dispatch(waking \ settled, refused)
          PROVE  TypeOK'
      <3>1. waking \ settled \in SUBSET Callers
        BY <2>1
      <3>2. DispatchKeepsTypes
        BY <2>2, <3>1, DispatchType
      <3> QED BY <1>4, <3>2, SMT DEF WakeDone, TypeOK, DispatchKeepsTypes, SettleKeepsTypes
    <2>3. CASE Settle(waking, "error") /\ UNCHANGED <<issued, sentTo, calls>>
      <3>1. waking \in SUBSET Callers /\ "error" \in Replies
        BY <2>1 DEF Replies
      <3>2. SettleKeepsTypes
        BY <2>3, <3>1, SettleType
      <3> QED BY <1>4, <2>3, <3>2, SMT DEF WakeDone, TypeOK, SettleKeepsTypes
    <2> QED BY <1>4, <2>2, <2>3 DEF WakeDone
  <1>5. ASSUME AwakeLapses PROVE TypeOK'
    <2>1. awake' \in BOOLEAN
      BY <1>5, Zenon DEF AwakeLapses
    <2>2. UNCHANGED <<executorVars, callerVars, linkVars, cliVars, workerVars, cloud>>
      BY <1>5, Zenon DEF AwakeLapses
    <2> QED BY <2>1, <2>2, SMT DEF TypeOK
  <1>6. ASSUME NEW s \in Sockets, Accept(s) PROVE TypeOK'
    BY <1>6, SMT DEF Accept, TypeOK
  <1>7. ASSUME NEW s \in Sockets, Hello(s) PROVE TypeOK'
    <2>1. DispatchedOnly \in SUBSET Callers /\ Offline \in Replies
      BY SMT DEF TypeOK, DispatchedOnly, InFlight, Replies, Offline
    <2>2. SettleKeepsTypes
      <3>1. CASE Settle(DispatchedOnly, Offline)
        BY <2>1, <3>1, SettleType
      <3>2. CASE UNCHANGED <<settled, reply, logView>>
        BY <3>2, SMT DEF TypeOK, SettleKeepsTypes
      <3> QED BY <1>7, <3>1, <3>2, Zenon DEF Hello
    <2>3. active' \in [Sockets -> {"unset", "yes", "no"}]
      BY <1>7, SMT DEF Hello, Activate, TypeOK
    <2> QED BY <1>7, <2>2, <2>3, SMT DEF Hello, TypeOK, SettleKeepsTypes
  <1>8. ASSUME NEW s \in Sockets, HelloUnsupported(s) PROVE TypeOK'
    BY <1>8, SMT DEF HelloUnsupported, TypeOK
  <1>9. ASSUME NEW s \in Sockets, NEW c \in Callers, NEW r \in {"result", "error"}, Result(s, c, r)
        PROVE  TypeOK'
    <2>1. CallerSocket(c) \in SUBSET Callers /\ r \in Replies
      BY SMT DEF CallerSocket, Replies
    <2>2. SettleKeepsTypes
      BY <1>9, <2>1, SettleType DEF Result
    <2> QED BY <1>9, <2>2, SMT DEF Result, TypeOK, SettleKeepsTypes
  <1>10. ASSUME NEW s \in Sockets, NEW how \in {"close", "error"}, SocketEnds(s, how) PROVE TypeOK'
    BY <1>10, SMT DEF SocketEnds, TypeOK
  <1>11. ASSUME NEW d \in drops, DropExecutor(d) PROVE TypeOK'
    <2>1. DispatchedOnly \in SUBSET Callers /\ Offline \in Replies
      BY SMT DEF TypeOK, DispatchedOnly, InFlight, Replies, Offline
    <2>2. SettleKeepsTypes
      BY <1>11, <2>1, SettleType DEF DropExecutor
    <2> QED BY <1>11, <2>2, SMT DEF DropExecutor, TypeOK, SettleKeepsTypes
  <1>12. ASSUME RevokeRow PROVE TypeOK'
    BY <1>12, SMT DEF RevokeRow, TypeOK
  <1>13. ASSUME Revoke PROVE TypeOK'
    <2>1. open \in SUBSET Callers /\ Offline \in Replies
      BY SMT DEF TypeOK, Replies, Offline
    <2>2. SettleKeepsTypes
      BY <1>13, <2>1, SettleType DEF Revoke
    <2>3. cloud' \in BOOLEAN /\ awake' \in BOOLEAN /\ revoked' \in {"no", "row", "told"}
      BY <1>13, Zenon DEF Revoke
    <2>4. closing' \subseteq Sockets /\ shutdowns' \subseteq Sockets
      BY <1>13, SMT DEF Revoke, TypeOK
    <2>5. /\ UNCHANGED <<listed, active, failed, drops, cliVars, workerVars>>
          /\ UNCHANGED <<open, issued, waking, sentTo, cancelled, hellos, calls, cancels, results>>
      BY <1>13, Zenon DEF Revoke
    <2> QED BY <2>2, <2>3, <2>4, <2>5, SMT DEF TypeOK, SettleKeepsTypes
  <1> QED BY <1>1, <1>2, <1>3, <1>4, <1>5, <1>6, <1>7, <1>8, <1>9, <1>10, <1>11, <1>12, <1>13 DEF RelayNext

LEMMA CliType ==
  ASSUME TypeOK, CliNext
  PROVE  TypeOK'
  <1> USE DEF TypeOK, Calls, executorVars, cloudVars, callerVars, linkVars, cliVars, workerVars
  <1>1. ASSUME NEW s \in Sockets, NEW p \in Processes, Dial(s, p) PROVE TypeOK'
    BY <1>1, SMT DEF Dial
  <1>2. ASSUME NEW s \in Sockets, NEW clean \in BOOLEAN, SessionEnds(s, clean) PROVE TypeOK'
    BY <1>2, SMT DEF SessionEnds, RunningWith
  <1>3. ASSUME NEW s \in Sockets, TakeShutdown(s) PROVE TypeOK'
    BY <1>2, <1>3 DEF TakeShutdown
  <1>4. ASSUME NEW s \in Sockets, NEW c \in Callers, TakeCall(s, c) PROVE TypeOK'
    BY <1>4, SMT DEF TakeCall
  <1>5. ASSUME NEW s \in Sockets, NEW c \in Callers, TakeCancel(s, c) PROVE TypeOK'
    BY <1>5, SMT DEF TakeCancel, Ends
  <1>6. ASSUME NEW c \in Callers, CallReturns(c) PROVE TypeOK'
    BY <1>6, SMT DEF CallReturns, Ends
  <1> QED BY <1>1, <1>2, <1>3, <1>4, <1>5, <1>6 DEF CliNext

LEMMA InitType ==
  ASSUME Init
  PROVE  TypeOK
  <1>1. cloud \in BOOLEAN /\ awake \in BOOLEAN
    BY ConstantsAssumption, Zenon DEF Init
  <1> QED BY <1>1, SMT DEF Init, TypeOK, Calls, NoSocket

LEMMA TypeStep ==
  ASSUME TypeOK, [Next]_vars
  PROVE  TypeOK'
  BY TypeStutter, WorkerType, RelayType, CliType DEF Next

\* Every reachable state has the types the module declares.
THEOREM TypeCorrect == SafetySpec => []TypeOK
  BY InitType, TypeStep, PTL DEF SafetySpec
----------------------------------------------------------------------------
(* One routable executor *)

\* A socket the object has not accepted yet is not listed and said no hello.
Unaccepted ==
  \A s \in Sockets : session[s] \in {"none", "dialling"} =>
    s \notin listed /\ active[s] = "unset"

RoutingInv == TypeOK /\ Unaccepted /\ OneRoutableExecutor

\* Only these four variables matter, so most actions keep both by leaving the
\* socket list alone and moving a session forward at most.
LEMMA RoutingFrame ==
  ASSUME RoutingInv, listed' \subseteq listed, active' = active,
         \A s \in Sockets : session'[s] \in {"none", "dialling"} => session[s] \in {"none", "dialling"}
  PROVE  Unaccepted' /\ OneRoutableExecutor'
  BY SMT DEF RoutingInv, Unaccepted, OneRoutableExecutor

LEMMA RoutingStep ==
  ASSUME RoutingInv, [Next]_vars
  PROVE  Unaccepted' /\ OneRoutableExecutor'
  <1> USE DEF executorVars, cliVars
  <1>0. session \in [Sockets -> {"none", "dialling", "up", "over"}] /\ active \in [Sockets -> {"unset", "yes", "no"}]
        /\ listed \subseteq Sockets
    BY DEF RoutingInv, TypeOK
  <1>1. ASSUME listed' = listed, active' = active, session' = session
        PROVE  Unaccepted' /\ OneRoutableExecutor'
    BY <1>1, RoutingFrame
  <1>2. CASE UNCHANGED vars
    BY <1>1, <1>2 DEF vars
  <1>3. CASE WorkerNext
    <2> USE DEF Finish
    <2> QED BY <1>1, <1>3, Zenon DEF WorkerNext, Call, Start, Deadline, Hear, TimeOut, OpenedTooLate, Abort, Vanish
  <1>4. CASE RelayNext
    <2>1. ASSUME NEW c \in Callers, StartMessage(c) \/ CancelMessage(c) \/ CallerCloses(c)
          PROVE  UNCHANGED <<executorVars, cliVars>>
      BY <2>1, Zenon DEF StartMessage, CancelMessage, CallerCloses
    <2>2. ASSUME NEW ok \in BOOLEAN, WakeDone(ok) PROVE UNCHANGED <<executorVars, cliVars>>
      BY <2>2, Zenon DEF WakeDone
    <2>3. ASSUME AwakeLapses PROVE UNCHANGED <<executorVars, cliVars>>
      BY <2>3, Zenon DEF AwakeLapses
    <2>4. ASSUME NEW s \in Sockets, Accept(s) PROVE Unaccepted' /\ OneRoutableExecutor'
      BY <1>0, <2>4, SMT DEF Accept, RoutingInv, Unaccepted, OneRoutableExecutor
    <2>5. ASSUME NEW s \in Sockets, Hello(s) PROVE Unaccepted' /\ OneRoutableExecutor'
      <3>1. active' = Activate(s) /\ listed' = listed /\ session' = session /\ s \in listed
        BY <2>5, Zenon DEF Hello
      <3> QED BY <1>0, <3>1, SMT DEF Activate, RoutingInv, Unaccepted, OneRoutableExecutor
    <2>6. ASSUME NEW s \in Sockets, HelloUnsupported(s) PROVE listed' = listed /\ active' = active /\ session' = session
      BY <2>6, Zenon DEF HelloUnsupported
    <2>7. ASSUME NEW s \in Sockets, NEW c \in Callers, NEW r \in {"result", "error"}, Result(s, c, r)
          PROVE  UNCHANGED <<executorVars, cliVars>>
      BY <2>7, Zenon DEF Result
    <2>8. ASSUME NEW s \in Sockets, NEW how \in {"close", "error"}, SocketEnds(s, how)
          PROVE  Unaccepted' /\ OneRoutableExecutor'
      <3>1. listed' \subseteq listed /\ active' = active /\ session' = session
        BY <2>8 DEF SocketEnds
      <3> QED BY <3>1, RoutingFrame
    <2>9. ASSUME NEW d \in drops, DropExecutor(d) PROVE listed' = listed /\ active' = active /\ session' = session
      BY <2>9, Zenon DEF DropExecutor
    <2>10. ASSUME RevokeRow \/ Revoke PROVE listed' = listed /\ active' = active /\ session' = session
      BY <2>10, Zenon DEF RevokeRow, Revoke
    <2> QED BY <1>1, <1>4, <2>1, <2>2, <2>3, <2>4, <2>5, <2>6, <2>7, <2>8, <2>9, <2>10, Zenon DEF RelayNext
  <1>5. CASE CliNext
    <2>1. ASSUME NEW s \in Sockets, NEW p \in Processes, Dial(s, p)
          PROVE  Unaccepted' /\ OneRoutableExecutor'
      <3>1. listed' = listed /\ active' = active /\ session[s] = "none" /\ session' = [session EXCEPT ![s] = "dialling"]
        BY <2>1, Zenon DEF Dial
      <3> QED BY <1>0, <3>1, RoutingFrame
    <2>2. ASSUME NEW s \in Sockets, NEW clean \in BOOLEAN, SessionEnds(s, clean)
          PROVE  Unaccepted' /\ OneRoutableExecutor'
      <3>1. listed' = listed /\ active' = active /\ session' = [session EXCEPT ![s] = "over"]
        BY <2>2, Zenon DEF SessionEnds
      <3> QED BY <1>0, <3>1, RoutingFrame
    <2>3. ASSUME NEW s \in Sockets, NEW c \in Callers, TakeCall(s, c) \/ TakeCancel(s, c)
          PROVE  listed' = listed /\ active' = active /\ session' = session
      BY <2>3, Zenon DEF TakeCall, TakeCancel
    <2>4. ASSUME NEW c \in Callers, CallReturns(c)
          PROVE  listed' = listed /\ active' = active /\ session' = session
      BY <2>4, Zenon DEF CallReturns
    <2> QED BY <1>1, <1>5, <2>1, <2>2, <2>3, <2>4, Zenon DEF CliNext, TakeShutdown
  <1> QED BY <1>2, <1>3, <1>4, <1>5 DEF Next

LEMMA RoutingInvariant == SafetySpec => []RoutingInv
  <1>1. Init => RoutingInv
    <2> SUFFICES ASSUME Init PROVE RoutingInv
      OBVIOUS
    <2>1. TypeOK
      BY InitType
    <2> QED BY <2>1 DEF Init, RoutingInv, Unaccepted, OneRoutableExecutor
  <1>2. RoutingInv /\ [Next]_vars => RoutingInv'
    <2> SUFFICES ASSUME RoutingInv, [Next]_vars PROVE RoutingInv'
      OBVIOUS
    <2>1. TypeOK'
      BY TypeStep DEF RoutingInv
    <2> QED BY <2>1, RoutingStep DEF RoutingInv
  <1> QED BY <1>1, <1>2, PTL DEF SafetySpec

\* At any moment, whatever the order of dials, hellos, late hellos, closes and
\* errors, at most one listed socket is the validated executor.
THEOREM OneExecutor == SafetySpec => []OneRoutableExecutor
  <1>1. RoutingInv => OneRoutableExecutor
    BY DEF RoutingInv
  <1> QED BY <1>1, RoutingInvariant, PTL

----------------------------------------------------------------------------
(* The promise to the gateway *)

\* A caller whose Worker never dialled has nothing on the wire or parked, and
\* one whose Worker still waits has no outcome.
WorkerInv ==
  \A c \in Callers :
    /\ worker[c] = "idle" => wire[c] = {} /\ c \notin waking
    /\ worker[c] # "done" => outcome[c] = None

\* A dispatched call is marked issued, and one never dispatched never ran.
SendInv ==
  \A c \in Callers :
    /\ sentTo[c] # NoSocket => c \in issued
    /\ sentTo[c] = NoSocket => runs[c] = 0

\* A call is either still on its way down the socket it was put on, or was
\* taken once; only a call that was taken runs, has a result, or is answered.
RunInv ==
  \A c \in Callers :
    /\ \A s \in Sockets : c \in calls[s] => sentTo[c] = s /\ runs[c] = 0
    /\ \A s \in Sockets : c \in results[s] => runs[c] = 1
    /\ c \in running => runs[c] = 1
    /\ reply[c] = "result" => runs[c] = 1

PromiseInv == TypeOK /\ WorkerInv /\ SendInv /\ RunInv

Promised == WorkerInv' /\ SendInv' /\ RunInv' /\ [Promise!Next]_(Promise!vars)

\* An action that only moves frames, answers nobody with a result and starts
\* nothing is a stutter of the promise.
LEMMA QuietStep ==
  ASSUME PromiseInv,
         UNCHANGED <<worker, outcome, sentTo, runs>>,
         \A c \in Callers : wire[c] = {} => wire'[c] = {},
         \A c \in Callers : worker[c] = "idle" => c \notin waking',
         issued \subseteq issued',
         \A c \in Callers, s \in Sockets :
           /\ c \in calls'[s] => c \in calls[s]
           /\ c \in results'[s] => c \in results[s] \/ c \in running,
         running' \subseteq running,
         \A c \in Callers : reply'[c] = "result" => reply[c] = "result" \/ runs[c] = 1
  PROVE  Promised
  <1>1. WorkerInv'
    BY SMT DEF PromiseInv, WorkerInv
  <1>2. SendInv'
    BY SMT DEF PromiseInv, SendInv
  <1>3. RunInv'
    BY SMT DEF PromiseInv, RunInv
  <1>4. UNCHANGED Promise!vars
    BY DEF Promise!vars
  <1> QED BY <1>1, <1>2, <1>3, <1>4 DEF Promised

\* Answering only ever adds a reply "result" to those it was given for.
LEMMA SettleReplies ==
  ASSUME NEW C \in SUBSET Callers, NEW r \in Replies, Settle(C, r), NEW c \in Callers,
         reply'[c] = "result"
  PROVE  reply[c] = "result" \/ (c \in C /\ r = "result")
  BY SMT DEF Settle

LEMMA DispatchStep ==
  ASSUME PromiseInv, NEW C \in SUBSET Callers, NEW refused \in SUBSET C, Dispatch(C, refused),
         \A c \in C : worker[c] # "idle",
         UNCHANGED <<worker, outcome, runs, running, results>>,
         \A c \in Callers : wire[c] = {} => wire'[c] = {},
         waking' \subseteq waking
  PROVE  Promised
  <1> DEFINE e == ExecutorSocket
             ready == IF e = NoSocket THEN {} ELSE ((C \ issued) \ expired) \ refused
             sent == IF e \in closing THEN {} ELSE ready
  <1>1. e \in Sockets \cup {NoSocket} /\ NoSocket \notin Sockets
    <2>1. TypeOK
      BY DEF PromiseInv
    <2>2. e \in Routable \cup {NoSocket}
      BY <2>1, ExecutorSocketType
    <2>3. Routable \subseteq Sockets
      BY <2>1, SMT DEF Routable, TypeOK
    <2>4. NoSocket \notin Sockets
      BY ConstantsAssumption, SMT DEF Sockets, NoSocket
    <2> QED BY <2>2, <2>3, <2>4
  <1>2. /\ issued \subseteq issued' /\ sent \subseteq issued'
        /\ \A c \in Callers : reply'[c] = "result" => reply[c] = "result"
        /\ \A s \in Sockets : calls'[s] \subseteq IF s = e THEN calls[s] \cup sent ELSE calls[s]
        /\ \A c \in Callers : sentTo'[c] = IF c \in sent THEN e ELSE sentTo[c]
    <2> HIDE DEF e
    <2>1. /\ issued' = issued \cup ready
          /\ calls' = [s \in Sockets |-> IF s = e /\ Reaches(s) THEN calls[s] \cup sent ELSE calls[s]]
          /\ sentTo' = [c \in Callers |-> IF c \in sent THEN e ELSE sentTo[c]]
      BY DEF Dispatch, e
    <2>2. \A c \in Callers : reply'[c] = "result" => reply[c] = "result"
      BY SMT DEF Dispatch, Offline
    <2> QED BY <2>1, <2>2, SMT
  <1>3. /\ sent \subseteq C
        /\ \A c \in sent : c \notin issued /\ sentTo[c] = NoSocket /\ runs[c] = 0
        /\ sent # {} => e # NoSocket
    BY SMT DEF PromiseInv, SendInv
  <1> HIDE DEF e, ready, sent
  <1>4. WorkerInv'
    BY SMT DEF PromiseInv, WorkerInv
  <1>5. SendInv'
    BY <1>2, <1>3, SMT DEF PromiseInv, SendInv
  <1>6. RunInv'
    <2> SUFFICES ASSUME NEW c \in Callers
                 PROVE  /\ \A s \in Sockets : c \in calls'[s] => sentTo'[c] = s /\ runs[c] = 0
                        /\ \A s \in Sockets : c \in results[s] => runs[c] = 1
                        /\ c \in running => runs[c] = 1
                        /\ reply'[c] = "result" => runs[c] = 1
      BY DEF RunInv
    <2>1. ASSUME NEW s \in Sockets, c \in calls'[s] PROVE sentTo'[c] = s /\ runs[c] = 0
      <3>1. CASE c \in sent
        <4>1. s = e
          BY <1>1, <1>2, <1>3, <2>1, <3>1, SMT DEF PromiseInv, RunInv
        <4> QED BY <1>2, <1>3, <3>1, <4>1
      <3>2. CASE c \notin sent
        BY <1>2, <2>1, <3>2, SMT DEF PromiseInv, RunInv
      <3> QED BY <3>1, <3>2
    <2> QED BY <1>2, <2>1, SMT DEF PromiseInv, RunInv
  <1>7. Promise!Send(sent)
    <2>1. sent \subseteq {c \in Callers : worker[c] # "idle"} \ {c \in Callers : sentTo[c] # NoSocket}
      BY <1>3, SMT
    <2>2. {c \in Callers : sentTo'[c] # NoSocket} = {c \in Callers : sentTo[c] # NoSocket} \cup sent
      BY <1>2, <1>3, SMT
    <2> QED BY <2>1, <2>2 DEF Promise!Send
  <1>8. Promise!Next
    <2>1. sent \in SUBSET Callers
      BY <1>3, Zenon
    <2>2. \E S \in SUBSET Callers : Promise!Send(S)
      BY <1>7, <2>1, Zenon DEF Promise!Send
    <2> QED BY <2>2 DEF Promise!Next
  <1> QED BY <1>4, <1>5, <1>6, <1>8 DEF Promised

LEMMA FinishStep ==
  ASSUME PromiseInv, NEW c \in Callers, NEW o \in Outcomes, NEW frames, Finish(c, o, frames),
         Listens(c), o = "result" => runs[c] = 1
  PROVE  Promised
  <1>0. worker[c] # "idle" /\ worker[c] # "done" /\ None # "result"
    BY ConstantsAssumption, SMT DEF Listens
  <1>1. WorkerInv'
    BY <1>0, SMT DEF Finish, PromiseInv, WorkerInv, TypeOK
  <1>2. SendInv'
    BY SMT DEF Finish, PromiseInv, SendInv, cliVars
  <1>3. RunInv'
    BY <1>0, SMT DEF Finish, PromiseInv, RunInv, TypeOK, cliVars, linkVars
  <1>4. Promise!End(c, o)
    <2>1. {x \in Callers : worker'[x] # "idle"} = {x \in Callers : worker[x] # "idle"}
      BY <1>0, SMT DEF Finish, PromiseInv, TypeOK
    <2>2. outcome[c] = None
      BY <1>0 DEF PromiseInv, WorkerInv
    <2> QED BY <1>0, <2>1, <2>2 DEF Promise!End, Finish, cliVars
  <1>5. Promise!Next
    BY <1>4 DEF Promise!Next
  <1> QED BY <1>1, <1>2, <1>3, <1>5 DEF Promised

LEMMA WorkerPromise ==
  ASSUME PromiseInv, WorkerNext
  PROVE  Promised
  <1>1. ASSUME NEW c \in Callers, Call(c) PROVE Promised
    <2>1. worker[c] = "idle" /\ worker' = [worker EXCEPT ![c] = "dialling"]
          /\ UNCHANGED <<outcome, wire, waking, sentTo, issued, runs, running, calls, results, reply>>
      BY <1>1, Zenon DEF Call, cliVars, linkVars
    <2>2. WorkerInv'
      BY <2>1, SMT DEF PromiseInv, TypeOK, WorkerInv
    <2>3. SendInv' /\ RunInv'
      BY <2>1, SMT DEF PromiseInv, SendInv, RunInv
    <2>4. Promise!Ask(c)
      <3>1. {x \in Callers : worker'[x] # "idle"} = {x \in Callers : worker[x] # "idle"} \cup {c}
        BY <2>1, SMT DEF PromiseInv, TypeOK
      <3> QED BY <2>1, <3>1 DEF Promise!Ask
    <2>5. Promise!Next
      BY <2>4 DEF Promise!Next
    <2> QED BY <2>2, <2>3, <2>5 DEF Promised
  <1>2. ASSUME NEW c \in Callers, Start(c) PROVE Promised
    <2>1. worker[c] = "dialling" /\ worker' = [worker EXCEPT ![c] = "waiting"]
          /\ wire' = [wire EXCEPT ![c] = {"start"}]
          /\ UNCHANGED <<outcome, waking, sentTo, issued, runs, running, calls, results, reply>>
      BY <1>2, Zenon DEF Start, cliVars, linkVars, callerVars
    <2>2. WorkerInv'
      BY <2>1, SMT DEF PromiseInv, TypeOK, WorkerInv
    <2>3. SendInv' /\ RunInv'
      BY <2>1, SMT DEF PromiseInv, SendInv, RunInv
    <2>4. UNCHANGED Promise!vars
      <3>1. {x \in Callers : worker'[x] # "idle"} = {x \in Callers : worker[x] # "idle"}
        BY <2>1, SMT DEF PromiseInv, TypeOK
      <3> QED BY <2>1, <3>1 DEF Promise!vars
    <2> QED BY <2>2, <2>3, <2>4 DEF Promised
  <1>3. ASSUME NEW c \in Callers, Deadline(c) PROVE Promised
    <2>1. UNCHANGED <<worker, outcome, wire, waking, sentTo, issued, runs, running, calls, results, reply>>
      BY <1>3, Zenon DEF Deadline, cliVars, linkVars, callerVars
    <2> QED BY <2>1, QuietStep, SMT DEF PromiseInv, WorkerInv
  <1>4. ASSUME NEW c \in Callers, OpenedTooLate(c) PROVE Promised
    BY <1>4, FinishStep, Zenon DEF OpenedTooLate, Listens, Outcomes
  <1>5. ASSUME NEW c \in Callers, Hear(c) PROVE Promised
    <2>1. reply[c] \in Outcomes /\ (reply[c] = "result" => runs[c] = 1) /\ Listens(c)
      BY <1>5, SMT DEF Hear, PromiseInv, TypeOK, RunInv, Listens, Outcomes
    <2>2. PICK o \in Outcomes : o = reply[c]
      BY <2>1
    <2>3. PICK frames : frames = wire[c] \cup {"close"}
      OBVIOUS
    <2>4. Finish(c, o, frames)
      BY <1>5, <2>2, <2>3, Zenon DEF Hear, Finish
    <2> QED BY <2>1, <2>2, <2>4, FinishStep
  <1>6. ASSUME NEW c \in Callers, NEW o \in Outcomes \ {"result"}, NEW extra, Listens(c),
               Finish(c, o, wire[c] \cup extra)
        PROVE  Promised
    <2>1. PICK frames : frames = wire[c] \cup extra
      OBVIOUS
    <2>2. Finish(c, o, frames)
      BY <1>6, <2>1, Zenon DEF Finish
    <2> QED BY <1>6, <2>2, FinishStep
  <1>7. {"timeout", "cancelled", "offline"} \subseteq Outcomes \ {"result"}
    BY DEF Outcomes, Replies
  <1>8. ASSUME NEW c \in Callers, TimeOut(c) PROVE Promised
    BY <1>6, <1>7, <1>8 DEF TimeOut, Listens
  <1>9. ASSUME NEW c \in Callers, Abort(c) PROVE Promised
    BY <1>6, <1>7, <1>9 DEF Abort
  <1>10. ASSUME NEW c \in Callers, Vanish(c) PROVE Promised
    BY <1>7, <1>10, FinishStep DEF Vanish
  <1> QED BY <1>1, <1>2, <1>3, <1>4, <1>5, <1>8, <1>9, <1>10 DEF WorkerNext

LEMMA CliPromise ==
  ASSUME PromiseInv, CliNext
  PROVE  Promised
  <1>1. ASSUME NEW s \in Sockets, NEW p \in Processes, Dial(s, p) PROVE Promised
    <2>1. UNCHANGED <<worker, outcome, wire, waking, sentTo, issued, runs, running, calls, results, reply>>
      BY <1>1, Zenon DEF Dial, workerVars, linkVars, callerVars
    <2> QED BY <2>1, QuietStep, SMT DEF PromiseInv, WorkerInv
  <1>2. ASSUME NEW s \in Sockets, NEW clean \in BOOLEAN, SessionEnds(s, clean) PROVE Promised
    <2>1. UNCHANGED <<worker, outcome, wire, waking, sentTo, issued, runs, results, reply>>
      BY <1>2, Zenon DEF SessionEnds, workerVars, callerVars
    <2>2. running' \subseteq running /\ \A t \in Sockets : calls'[t] \subseteq calls[t]
      BY <1>2, SMT DEF SessionEnds, PromiseInv, TypeOK, Calls
    <2> QED BY <2>1, <2>2, QuietStep, SMT DEF PromiseInv, WorkerInv
  <1>3. ASSUME NEW s \in Sockets, NEW c \in Callers, TakeCall(s, c) PROVE Promised
    <2>1. /\ c \in calls[s] /\ calls' = [calls EXCEPT ![s] = @ \ {c}]
          /\ running' = running \cup {c} /\ runs' = [runs EXCEPT ![c] = @ + 1]
          /\ UNCHANGED <<worker, outcome, wire, waking, sentTo, issued, results, reply>>
      BY <1>3, Zenon DEF TakeCall, workerVars, callerVars
    <2>2. sentTo[c] = s /\ s # NoSocket /\ runs[c] = 0
      BY <2>1, ConstantsAssumption, SMT DEF PromiseInv, RunInv, Sockets, NoSocket
    <2>3. runs' = [runs EXCEPT ![c] = 1]
      BY <2>1, <2>2, SMT DEF PromiseInv, TypeOK
    <2>4. WorkerInv'
      BY <2>1, SMT DEF PromiseInv, WorkerInv
    <2>5. SendInv'
      BY <2>1, <2>2, <2>3, SMT DEF PromiseInv, TypeOK, SendInv
    <2>6. RunInv'
      BY <2>1, <2>2, <2>3, SMT DEF PromiseInv, TypeOK, Calls, RunInv
    <2>7. Promise!Run(c)
      BY <2>1, <2>2, <2>3 DEF Promise!Run
    <2>8. Promise!Next
      BY <2>7 DEF Promise!Next
    <2> QED BY <2>4, <2>5, <2>6, <2>8 DEF Promised
  <1>4. ASSUME NEW c \in running, running' \subseteq running,
               \A s \in Sockets : results'[s] \subseteq results[s] \cup {c},
               UNCHANGED <<worker, outcome, wire, waking, sentTo, issued, runs, calls, reply>>
        PROVE  Promised
    BY <1>4, QuietStep, SMT DEF PromiseInv, WorkerInv
  <1>5. ASSUME NEW c \in Callers, Ends(c)
        PROVE  running' \subseteq running /\ \A s \in Sockets : results'[s] \subseteq results[s] \cup {c}
    BY <1>5, SMT DEF Ends
  <1>6. ASSUME NEW c \in Callers, CallReturns(c) PROVE Promised
    BY <1>4, <1>5, <1>6, Zenon DEF CallReturns, workerVars, callerVars
  <1>7. ASSUME NEW s \in Sockets, NEW c \in Callers, TakeCancel(s, c) PROVE Promised
    <2>1. UNCHANGED <<worker, outcome, wire, waking, sentTo, issued, runs, calls, reply>>
      BY <1>7, Zenon DEF TakeCancel, workerVars, callerVars
    <2>2. CASE c \in RunningWith(s)
      BY <1>4, <1>5, <1>7, <2>1, <2>2, Zenon DEF TakeCancel, RunningWith
    <2>3. CASE c \notin RunningWith(s)
      <3>1. UNCHANGED <<running, results>>
        BY <1>7, <2>3, Zenon DEF TakeCancel
      <3> QED BY <2>1, <3>1, QuietStep, SMT DEF PromiseInv, WorkerInv
    <2> QED BY <2>2, <2>3
  <1> QED BY <1>1, <1>2, <1>3, <1>6, <1>7, Zenon DEF CliNext, TakeShutdown

LEMMA RelayPromise ==
  ASSUME PromiseInv, RelayNext
  PROVE  Promised
  <1> DEFINE kept == <<worker, outcome, sentTo, runs, running, issued, wire, waking>>
  <1>0. TypeOK /\ Offline \in Replies /\ "error" \in Replies /\ DispatchedOnly \in SUBSET Callers
    BY SMT DEF PromiseInv, TypeOK, Replies, Offline, DispatchedOnly, InFlight
  <1>1. ASSUME UNCHANGED kept,
               \A s \in Sockets : calls'[s] \subseteq calls[s] /\ results'[s] \subseteq results[s],
               \A c \in Callers : reply'[c] = "result" => reply[c] = "result" \/ runs[c] = 1
        PROVE  Promised
    BY <1>1, QuietStep, SMT DEF PromiseInv, WorkerInv
  <1>2. ASSUME UNCHANGED <<worker, outcome, sentTo, runs, running, issued, calls, results, reply>>,
               \A c \in Callers : wire'[c] \subseteq wire[c],
               \A c \in waking' : c \in waking \/ wire[c] # {}
        PROVE  Promised
    BY <1>2, QuietStep, SMT DEF PromiseInv, WorkerInv
  <1>3. ASSUME NEW c \in Callers, StartMessage(c) PROVE Promised
    <2>1. /\ "start" \in wire[c] /\ wire' = [wire EXCEPT ![c] = @ \ {"start"}]
          /\ UNCHANGED <<worker, outcome, runs, running>>
      BY <1>3, Zenon DEF StartMessage, cliVars
    <2>2. \A d \in Callers : wire'[d] \subseteq wire[d]
      BY <2>1, SMT DEF PromiseInv, TypeOK
    <2>3. CASE UNCHANGED <<callerVars, linkVars>>
      BY <1>2, <2>1, <2>2, <2>3, SMT DEF callerVars, linkVars
    <2>4. CASE /\ waking' = waking \cup {c}
               /\ UNCHANGED <<open, settled, issued, reply, logView, sentTo, cancelled, linkVars>>
      BY <1>2, <2>1, <2>2, <2>4, SMT DEF linkVars
    <2>5. ASSUME NEW refused \in SUBSET {c}, Dispatch({c}, refused), waking' = waking, results' = results
          PROVE  Promised
      <3>1. {c} \in SUBSET Callers /\ \A d \in {c} : worker[d] # "idle"
        BY <2>1, SMT DEF PromiseInv, WorkerInv
      <3>2. \A d \in Callers : wire[d] = {} => wire'[d] = {}
        BY <2>2
      <3> QED BY <2>1, <2>5, <3>1, <3>2, DispatchStep
    <2> QED BY <1>3, <2>3, <2>4, <2>5, Zenon DEF StartMessage
  <1>4. ASSUME NEW c \in Callers, CancelMessage(c) \/ CallerCloses(c) PROVE Promised
    <2>1. UNCHANGED <<worker, outcome, sentTo, runs, running, issued, calls, results, reply, waking>>
      BY <1>4, Zenon DEF CancelMessage, CallerCloses, cliVars
    <2>2. \A d \in Callers : wire'[d] \subseteq wire[d]
      BY <1>4, SMT DEF CancelMessage, CallerCloses, PromiseInv, TypeOK
    <2> QED BY <1>2, <2>1, <2>2
  <1>5. ASSUME NEW ok \in BOOLEAN, WakeDone(ok) PROVE Promised
    <2>1. waking' = {} /\ UNCHANGED <<worker, outcome, wire, runs, running, results>>
      BY <1>5, Zenon DEF WakeDone, cliVars, workerVars
    <2>2. ASSUME NEW refused \in SUBSET (waking \ settled), Dispatch(waking \ settled, refused)
          PROVE  Promised
      <3>1. waking \ settled \in SUBSET Callers /\ \A c \in waking \ settled : worker[c] # "idle"
        BY SMT DEF PromiseInv, TypeOK, WorkerInv
      <3>2. PICK C \in SUBSET Callers : C = waking \ settled
        BY <3>1
      <3>3. Dispatch(C, refused) /\ refused \in SUBSET C
        BY <2>2, <3>2, SMT DEF Dispatch
      <3>4. \A c \in C : worker[c] # "idle"
        BY <3>1, <3>2
      <3>5. waking' \subseteq waking /\ \A c \in Callers : wire[c] = {} => wire'[c] = {}
        BY <2>1
      <3> QED BY <2>1, <3>3, <3>4, <3>5, DispatchStep
    <2>3. CASE Settle(waking, "error") /\ UNCHANGED <<issued, sentTo, calls>>
      <3>1. PICK C \in SUBSET Callers : C = waking
        BY <1>0 DEF TypeOK
      <3>2. Settle(C, "error")
        BY <2>3, <3>1, Zenon DEF Settle
      <3>3. \A c \in Callers : reply'[c] = "result" => reply[c] = "result"
        BY <1>0, <3>2, SettleReplies
      <3> QED BY <2>1, <2>3, <3>3, QuietStep, SMT DEF PromiseInv, WorkerInv
    <2> QED BY <1>5, <2>2, <2>3, Zenon DEF WakeDone
  <1>6. ASSUME NEW C \in SUBSET Callers, Settle(C, Offline)
        PROVE  \A c \in Callers : reply'[c] = "result" => reply[c] = "result"
    BY <1>0, <1>6, SettleReplies, SMT DEF Offline
  <1>7. ASSUME NEW s \in Sockets, Hello(s) PROVE Promised
    <2>1. UNCHANGED kept /\ UNCHANGED <<calls, results>>
      BY <1>7, Zenon DEF Hello, cliVars, workerVars
    <2>2. CASE Settle(DispatchedOnly, Offline)
      <3>1. PICK C \in SUBSET Callers : C = DispatchedOnly
        BY <1>0
      <3>2. Settle(C, Offline)
        BY <2>2, <3>1, Zenon DEF Settle
      <3> QED BY <1>1, <1>6, <2>1, <3>2
    <2>3. CASE UNCHANGED <<settled, reply, logView>>
      BY <1>1, <2>1, <2>3
    <2> QED BY <1>7, <2>2, <2>3, Zenon DEF Hello
  <1>8. ASSUME NEW s \in Sockets, NEW c \in Callers, NEW r \in {"result", "error"}, Result(s, c, r)
        PROVE  Promised
    <2>1. UNCHANGED kept /\ UNCHANGED calls
      BY <1>8, Zenon DEF Result, cliVars, workerVars
    <2>2. \A t \in Sockets : results'[t] \subseteq results[t]
      BY <1>8, SMT DEF Result, PromiseInv, TypeOK, Calls
    <2>3. runs[c] = 1
      BY <1>8, SMT DEF Result, PromiseInv, RunInv
    <2>4. PICK C \in SUBSET Callers : C = CallerSocket(c)
      BY DEF CallerSocket
    <2>5. Settle(C, r) /\ r \in Replies
      BY <1>8, <2>4, Zenon DEF Result, Settle, Replies
    <2>6. \A d \in Callers : reply'[d] = "result" => reply[d] = "result" \/ d \in C
      BY <2>5, SettleReplies, SMT
    <2>7. C \subseteq {c}
      BY <2>4 DEF CallerSocket
    <2> QED BY <1>1, <2>1, <2>2, <2>3, <2>6, <2>7, Zenon
  <1>9. ASSUME NEW s \in Sockets, NEW how \in {"close", "error"}, SocketEnds(s, how) PROVE Promised
    <2>1. UNCHANGED kept /\ UNCHANGED <<calls, reply>> /\ results' = [results EXCEPT ![s] = {}]
      BY <1>9, Zenon DEF SocketEnds, callerVars, cliVars, workerVars
    <2>2. \A t \in Sockets : results'[t] \subseteq results[t]
      BY <2>1, SMT DEF PromiseInv, TypeOK, Calls
    <2> QED BY <1>1, <2>1, <2>2
  <1>10. ASSUME NEW d \in drops, DropExecutor(d) PROVE Promised
    <2>1. UNCHANGED kept /\ UNCHANGED <<calls, results>>
      BY <1>10, Zenon DEF DropExecutor, linkVars, cliVars, workerVars
    <2>2. PICK C \in SUBSET Callers : C = DispatchedOnly
      BY <1>0
    <2>3. Settle(C, Offline)
      BY <1>10, <2>2, Zenon DEF DropExecutor, Settle
    <2> QED BY <1>1, <1>6, <2>1, <2>3
  <1>11. ASSUME Revoke PROVE Promised
    <2>1. UNCHANGED kept /\ UNCHANGED <<calls, results>>
      BY <1>11, Zenon DEF Revoke, cliVars, workerVars
    <2>2. PICK C \in SUBSET Callers : C = open
      BY <1>0 DEF TypeOK
    <2>3. Settle(C, Offline)
      BY <1>11, <2>2, Zenon DEF Revoke, Settle
    <2> QED BY <1>1, <1>6, <2>1, <2>3
  <1>12. ASSUME UNCHANGED <<callerVars, workerVars, calls, results, runs, running>> PROVE Promised
    BY <1>1, <1>12 DEF callerVars, workerVars
  <1>13. ASSUME NEW s \in Sockets, Accept(s) \/ HelloUnsupported(s) PROVE Promised
    BY <1>12, <1>13, Zenon DEF Accept, HelloUnsupported, cliVars
  <1>14. ASSUME AwakeLapses \/ RevokeRow PROVE Promised
    BY <1>12, <1>14, Zenon DEF AwakeLapses, RevokeRow, cliVars, linkVars
  <1> QED BY <1>3, <1>4, <1>5, <1>7, <1>8, <1>9, <1>10, <1>11, <1>13, <1>14, Zenon DEF RelayNext

LEMMA PromiseStep ==
  ASSUME PromiseInv, [Next]_vars
  PROVE  PromiseInv' /\ [Promise!Next]_(Promise!vars)
  <1>1. TypeOK'
    BY TypeStep DEF PromiseInv
  <1>2. CASE UNCHANGED vars
    <2>1. UNCHANGED <<worker, outcome, wire, waking, sentTo, issued, runs, running, calls, results, reply>>
      BY <1>2, Zenon DEF vars, callerVars, linkVars, cliVars, workerVars
    <2>2. Promised
      BY <2>1, QuietStep, SMT DEF PromiseInv, WorkerInv
    <2> QED BY <1>1, <2>2 DEF Promised, PromiseInv
  <1>3. CASE Next
    BY <1>1, <1>3, WorkerPromise, RelayPromise, CliPromise DEF Next, Promised, PromiseInv
  <1> QED BY <1>2, <1>3

LEMMA PromiseInit ==
  ASSUME Init
  PROVE  PromiseInv /\ Promise!Init
  <1>1. TypeOK
    BY InitType
  <1>2. WorkerInv /\ SendInv
    BY SMT DEF Init, WorkerInv, SendInv
  <1>3. RunInv
    BY ConstantsAssumption, SMT DEF Init, RunInv
  <1>4. Promise!Init
    BY SMT DEF Init, Promise!Init
  <1> QED BY <1>1, <1>2, <1>3, <1>4 DEF PromiseInv

\* The relay keeps its promise to the gateway: every call is put on a socket at
\* most once, taken at most once, and ended once, with "result" only if it was
\* taken, through reconnects, lost sockets, wakes, cancels and revocation.
THEOREM PromiseKept == SafetySpec => ImplementsPromise
  BY PromiseInit, PromiseStep, PTL DEF SafetySpec, ImplementsPromise, Promise!Spec


----------------------------------------------------------------------------
(* Callers that wait *)

\* How far a Worker came decides where its call can be: nowhere before its
\* request is sent, unissued while the request travels or waits for a wake.
\* Only a settled caller was replied to, and only one that is settled or no
\* longer listed was cancelled.
PhaseInv ==
  \A c \in Callers :
    /\ worker[c] \in {"idle", "dialling"} =>
         wire[c] = {} /\ c \notin waking /\ c \notin issued /\ c \notin cancelled
    /\ worker[c] \in {"dialling", "waiting"} => c \in open /\ "close" \notin wire[c]
    /\ wire[c] # {} => c \in open
    /\ "start" \in wire[c] => c \notin issued /\ c \notin waking
    /\ c \in waking => c \notin issued
    /\ reply[c] # None => c \in settled
    /\ c \in cancelled => c \in settled \/ c \notin open

\* What the start handlers do for callers that were not issued: some of them
\* are put on the executor's socket, and the others are answered.
DispatchSends(C, sent) ==
  /\ sent # {} => ExecutorSocket \in Routable \ closing
  /\ issued \subseteq issued' /\ issued' \subseteq issued \cup C /\ sent \subseteq issued'
  /\ settled' = settled \cup (C \ sent)
  /\ sentTo' = [c \in Callers |-> IF c \in sent THEN ExecutorSocket ELSE sentTo[c]]
  /\ \A s \in Sockets : calls'[s] \subseteq calls[s] \cup (IF s = ExecutorSocket THEN sent ELSE {})
  /\ logView' = [c \in Callers |-> IF c \in sent \cap ToolCalls THEN "running" ELSE logView[c]]
  /\ \A c \in Callers : reply'[c] # reply[c] => c \in settled'

LEMMA DispatchEffect ==
  ASSUME TypeOK, NEW C \in SUBSET Callers, C \cap issued = {},
         NEW refused \in SUBSET C, Dispatch(C, refused)
  PROVE  \E sent \in SUBSET C : DispatchSends(C, sent)
  <1> DEFINE e == ExecutorSocket
             ready == IF e = NoSocket THEN {} ELSE (C \ expired) \ refused
             sent == IF e \in closing THEN {} ELSE ready
  <1>1. e \in Routable \cup {NoSocket}
    BY ExecutorSocketType
  <1>2. C \ issued = C
    BY SMT
  <1>3. /\ issued' = issued \cup ready
        /\ settled' = settled \cup (C \ sent)
        /\ calls' = [s \in Sockets |-> IF s = e /\ Reaches(s) THEN calls[s] \cup sent ELSE calls[s]]
        /\ sentTo' = [c \in Callers |-> IF c \in sent THEN e ELSE sentTo[c]]
        /\ logView' = [c \in Callers |-> IF c \in sent \cap ToolCalls THEN "running" ELSE logView[c]]
    BY <1>2, Zenon DEF Dispatch
  <1>4. \A c \in Callers : reply'[c] # reply[c] => c \in C \ sent
    <2>1. reply' = [c \in Callers |-> IF c \in C \ sent /\ Listens(c)
                     THEN IF c \in expired \/ (c \in refused /\ e # NoSocket) THEN "error" ELSE Offline
                     ELSE reply[c]]
      BY <1>2, Zenon DEF Dispatch
    <2> HIDE DEF e, sent
    <2> QED BY <2>1, SMT
  <1>5. sent \in SUBSET C /\ ready \subseteq C /\ sent \subseteq ready /\ (sent # {} => e # NoSocket /\ e \notin closing)
    BY SMT
  <1>6. sent # {} => e \in Routable \ closing
    BY <1>1, <1>5, Zenon
  <1> HIDE DEF ready, sent
  <1>7. DispatchSends(C, sent)
    BY <1>3, <1>4, <1>5, <1>6, SMT DEF DispatchSends
  <1> QED BY <1>5, <1>7, Zenon

\* An action that issues, parks and lists nobody.
LEMMA PhaseFrame ==
  ASSUME PhaseInv, UNCHANGED <<worker, issued>>, open' \subseteq open, waking' \subseteq waking,
         \A c \in Callers : wire'[c] \subseteq wire[c],
         \A c \in open \ open' : "close" \in wire[c] /\ wire'[c] = {},
         settled \subseteq settled',
         \A c \in Callers : reply'[c] # None => reply[c] # None \/ c \in settled',
         \A c \in Callers : c \in cancelled' =>
           c \in cancelled \/ (wire[c] # {} /\ (c \in settled' \/ c \notin open'))
  PROVE  PhaseInv'
  BY SMT DEF PhaseInv

LEMMA WorkerPhase ==
  ASSUME TypeOK, PhaseInv, WorkerNext
  PROVE  PhaseInv'
  <1> USE DEF TypeOK, PhaseInv
  <1>1. ASSUME NEW c \in Callers, Call(c) PROVE PhaseInv'
    <2>1. /\ worker[c] = "idle" /\ worker' = [worker EXCEPT ![c] = "dialling"] /\ open' = open \cup {c}
          /\ UNCHANGED <<wire, settled, issued, waking, reply, cancelled>>
      BY <1>1, Zenon DEF Call
    <2> QED BY <2>1, SMT
  <1>2. ASSUME NEW c \in Callers, Start(c) PROVE PhaseInv'
    <2>1. /\ worker[c] = "dialling" /\ worker' = [worker EXCEPT ![c] = "waiting"]
          /\ wire' = [wire EXCEPT ![c] = {"start"}]
          /\ UNCHANGED <<open, settled, issued, waking, reply, cancelled>>
      BY <1>2, Zenon DEF Start, callerVars
    <2> QED BY <2>1, SMT
  <1>3. ASSUME NEW c \in Callers, Deadline(c) PROVE PhaseInv'
    BY <1>3, SMT DEF Deadline, callerVars
  <1>4. ASSUME NEW c \in Callers, NEW o, NEW frames, Listens(c), Finish(c, o, frames),
               "start" \in frames => "start" \in wire[c]
        PROVE  PhaseInv'
    <2>1. /\ worker' = [worker EXCEPT ![c] = "done"] /\ wire' = [wire EXCEPT ![c] = frames]
          /\ reply' = [reply EXCEPT ![c] = None]
          /\ UNCHANGED <<open, settled, issued, waking, cancelled>>
      BY <1>4, Zenon DEF Finish
    <2> QED BY <1>4, <2>1, SMT DEF Listens
  <1> HIDE DEF TypeOK, PhaseInv
  <1>5. ASSUME NEW c \in Callers, OpenedTooLate(c) PROVE PhaseInv'
    <2>1. Finish(c, "timeout", {"close"}) /\ Listens(c) /\ "start" \notin {"close"}
      BY <1>5, SMT DEF OpenedTooLate, Listens
    <2> QED BY <1>4, <2>1
  <1>6. ASSUME NEW c \in Callers, Hear(c) PROVE PhaseInv'
    <2>1. Finish(c, reply[c], wire[c] \cup {"close"}) /\ Listens(c)
      BY <1>6, Zenon DEF Hear, Listens
    <2>2. "start" \in wire[c] \cup {"close"} => "start" \in wire[c]
      BY SMT
    <2> QED BY <1>4, <2>1, <2>2
  <1>7. ASSUME NEW c \in Callers, TimeOut(c) \/ Abort(c) PROVE PhaseInv'
    <2>1. PICK o : Finish(c, o, wire[c] \cup {"cancel", "close"}) /\ Listens(c)
      BY <1>7, Zenon DEF TimeOut, Abort, Listens
    <2>2. "start" \in wire[c] \cup {"cancel", "close"} => "start" \in wire[c]
      BY SMT
    <2> QED BY <1>4, <2>1, <2>2
  <1>8. ASSUME NEW c \in Callers, Vanish(c) PROVE PhaseInv'
    <2>1. Finish(c, "offline", {"close"}) /\ Listens(c) /\ "start" \notin {"close"}
      BY <1>8, SMT DEF Vanish
    <2> QED BY <1>4, <2>1
  <1> QED BY <1>1, <1>2, <1>3, <1>5, <1>6, <1>7, <1>8 DEF WorkerNext

LEMMA RelayPhase ==
  ASSUME PromiseInv, PhaseInv, RelayNext
  PROVE  PhaseInv'
  <1> DEFINE kept == <<worker, issued, open, waking, wire>>
  <1>0. TypeOK
    BY DEF PromiseInv
  <1>1. ASSUME UNCHANGED kept, settled \subseteq settled', UNCHANGED cancelled,
               \A c \in Callers : reply'[c] # None => reply[c] # None \/ c \in settled'
        PROVE  PhaseInv'
    BY <1>1, PhaseFrame, SMT
  <1>2. ASSUME NEW C, NEW r, Settle(C, r)
        PROVE  settled \subseteq settled' /\ \A c \in Callers : reply'[c] # None => reply[c] # None \/ c \in settled'
    BY <1>2, SMT DEF Settle
  <1>3. ASSUME NEW c \in Callers, StartMessage(c) PROVE PhaseInv'
    <2>1. /\ "start" \in wire[c] /\ wire' = [wire EXCEPT ![c] = @ \ {"start"}]
          /\ UNCHANGED <<worker>>
      BY <1>3, Zenon DEF StartMessage
    <2>2. \A d \in Callers : wire'[d] \subseteq wire[d] /\ (d # c => wire'[d] = wire[d])
      BY <1>0, <2>1, SMT DEF TypeOK
    <2>3. CASE UNCHANGED <<callerVars, linkVars>>
      BY <2>1, <2>2, <2>3, PhaseFrame, SMT DEF callerVars
    <2>4. CASE /\ waking' = waking \cup {c}
               /\ UNCHANGED <<open, settled, issued, reply, logView, sentTo, cancelled, linkVars>>
      BY <1>0, <2>1, <2>2, <2>4, SMT DEF PhaseInv, TypeOK
    <2>5. ASSUME NEW refused \in SUBSET {c}, Dispatch({c}, refused), UNCHANGED <<open, waking, cancelled>>
          PROVE  PhaseInv'
      <3>1. {c} \in SUBSET Callers /\ {c} \cap issued = {}
        BY <2>1, SMT DEF PhaseInv
      <3>2. PICK sent \in SUBSET {c} : DispatchSends({c}, sent)
        BY <1>0, <2>5, <3>1, DispatchEffect
      <3>3. issued' \subseteq issued \cup {c} /\ settled \subseteq settled'
            /\ \A d \in Callers : reply'[d] # reply[d] => d \in settled'
        BY <3>2, SMT DEF DispatchSends
      <3>4. worker[c] \notin {"idle", "dialling"} /\ c \notin waking
        BY <2>1, SMT DEF PhaseInv
      <3>5. "start" \notin wire'[c]
        BY <1>0, <2>1, SMT DEF TypeOK
      <3> QED BY <2>1, <2>2, <2>5, <3>3, <3>4, <3>5, SMT DEF PhaseInv
    <2> QED BY <1>3, <2>3, <2>4, <2>5, Zenon DEF StartMessage
  <1>4. ASSUME NEW c \in Callers, CancelMessage(c) PROVE PhaseInv'
    <2>1. /\ "cancel" \in wire[c] /\ wire' = [wire EXCEPT ![c] = @ \ {"cancel"}]
          /\ UNCHANGED <<worker, open, issued, waking, reply>>
      BY <1>4, Zenon DEF CancelMessage
    <2>2. \A d \in Callers : wire'[d] \subseteq wire[d]
      BY <1>0, <2>1, SMT DEF TypeOK
    <2>3. settled \subseteq settled' /\ \A d \in Callers : d \in cancelled' => d \in cancelled \/ (d = c /\ d \in settled')
      <3>1. CASE c \in settled
        BY <1>4, <3>1, SMT DEF CancelMessage
      <3>2. CASE c \notin settled
        BY <1>4, <3>2, SMT DEF CancelMessage, CancelCaller
      <3> QED BY <3>1, <3>2
    <2> QED BY <2>1, <2>2, <2>3, PhaseFrame, SMT
  <1>5. ASSUME NEW c \in Callers, CallerCloses(c) PROVE PhaseInv'
    <2>1. /\ wire[c] = {"close"} /\ wire' = [wire EXCEPT ![c] = {}] /\ open' = open \ {c}
          /\ UNCHANGED <<worker, settled, issued, waking, reply>>
      BY <1>5, Zenon DEF CallerCloses
    <2>2. \A d \in Callers : wire'[d] \subseteq wire[d]
      BY <1>0, <2>1, SMT DEF TypeOK
    <2>3. \A d \in Callers : d \in cancelled' => d \in cancelled \/ (d = c /\ d \notin open')
      <3>1. CASE c \in settled
        BY <1>5, <3>1, SMT DEF CallerCloses
      <3>2. CASE c \notin settled
        BY <1>5, <2>1, <3>2, SMT DEF CallerCloses, CancelCaller
      <3> QED BY <3>1, <3>2
    <2>4. \A d \in open \ open' : "close" \in wire[d] /\ wire'[d] = {}
      BY <1>0, <2>1, SMT DEF TypeOK
    <2> QED BY <2>1, <2>2, <2>3, <2>4, PhaseFrame, SMT
  <1>6. ASSUME NEW ok \in BOOLEAN, WakeDone(ok) PROVE PhaseInv'
    <2>1. waking' = {} /\ UNCHANGED <<worker, wire, open, cancelled>>
      BY <1>6, Zenon DEF WakeDone, workerVars
    <2>2. ASSUME NEW refused \in SUBSET (waking \ settled), Dispatch(waking \ settled, refused)
          PROVE  PhaseInv'
      <3>1. PICK C \in SUBSET Callers : C = waking \ settled
        BY <1>0 DEF TypeOK
      <3>2. C \cap issued = {} /\ \A c \in C : worker[c] \notin {"idle", "dialling"} /\ "start" \notin wire[c]
        BY <3>1, SMT DEF PhaseInv
      <3>3. refused \in SUBSET C /\ Dispatch(C, refused)
        BY <2>2, <3>1
      <3>4. PICK sent \in SUBSET C : DispatchSends(C, sent)
        BY <1>0, <3>2, <3>3, DispatchEffect
      <3>5. issued' \subseteq issued \cup C /\ settled \subseteq settled'
            /\ \A d \in Callers : reply'[d] # reply[d] => d \in settled'
        BY <3>4, SMT DEF DispatchSends
      <3> QED BY <2>1, <3>2, <3>5, SMT DEF PhaseInv
    <2>3. CASE Settle(waking, "error") /\ UNCHANGED <<issued, sentTo, calls>>
      BY <1>2, <2>1, <2>3, PhaseFrame, SMT
    <2> QED BY <1>6, <2>2, <2>3, Zenon DEF WakeDone
  <1>7. ASSUME NEW s \in Sockets, Hello(s) PROVE PhaseInv'
    <2>1. UNCHANGED kept /\ UNCHANGED cancelled
      BY <1>7, Zenon DEF Hello, workerVars
    <2>2. CASE Settle(DispatchedOnly, Offline)
      BY <1>1, <1>2, <2>1, <2>2
    <2>3. CASE UNCHANGED <<settled, reply, logView>>
      BY <1>1, <2>1, <2>3, Zenon
    <2> QED BY <1>7, <2>2, <2>3, Zenon DEF Hello
  <1>8. ASSUME NEW s \in Sockets, NEW c \in Callers, NEW r \in {"result", "error"}, Result(s, c, r)
        PROVE  PhaseInv'
    <2>1. UNCHANGED kept /\ UNCHANGED cancelled /\ Settle(CallerSocket(c), r)
      BY <1>8, Zenon DEF Result, workerVars
    <2> QED BY <1>1, <1>2, <2>1
  <1>9. ASSUME NEW d \in drops, DropExecutor(d) PROVE PhaseInv'
    <2>1. UNCHANGED kept /\ UNCHANGED cancelled /\ Settle(DispatchedOnly, Offline)
      BY <1>9, Zenon DEF DropExecutor, workerVars
    <2> QED BY <1>1, <1>2, <2>1
  <1>10. ASSUME Revoke PROVE PhaseInv'
    <2>1. UNCHANGED kept /\ UNCHANGED cancelled /\ Settle(open, Offline)
      BY <1>10, Zenon DEF Revoke, workerVars
    <2> QED BY <1>1, <1>2, <2>1
  <1>11. ASSUME UNCHANGED <<callerVars, workerVars>> PROVE PhaseInv'
    BY <1>1, <1>11, SMT DEF callerVars, workerVars
  <1>12. ASSUME NEW s \in Sockets, Accept(s) \/ HelloUnsupported(s) PROVE PhaseInv'
    BY <1>11, <1>12, Zenon DEF Accept, HelloUnsupported
  <1>13. ASSUME NEW s \in Sockets, NEW how \in {"close", "error"}, SocketEnds(s, how) PROVE PhaseInv'
    BY <1>11, <1>13, Zenon DEF SocketEnds
  <1>14. ASSUME AwakeLapses \/ RevokeRow PROVE PhaseInv'
    BY <1>11, <1>14, Zenon DEF AwakeLapses, RevokeRow
  <1> QED BY <1>3, <1>4, <1>5, <1>6, <1>7, <1>8, <1>9, <1>10, <1>12, <1>13, <1>14, Zenon DEF RelayNext

\* The CLI touches no caller and no Worker.
LEMMA CliLeavesCallers ==
  ASSUME CliNext
  PROVE  UNCHANGED <<executorVars, cloudVars, callerVars, workerVars>>
  <1>1. ASSUME NEW s \in Sockets, NEW p \in Processes, Dial(s, p)
        PROVE  UNCHANGED <<executorVars, cloudVars, callerVars, workerVars>>
    BY <1>1, Zenon DEF Dial
  <1>2. ASSUME NEW s \in Sockets, NEW clean \in BOOLEAN, SessionEnds(s, clean)
        PROVE  UNCHANGED <<executorVars, cloudVars, callerVars, workerVars>>
    BY <1>2, Zenon DEF SessionEnds
  <1>3. ASSUME NEW s \in Sockets, NEW c \in Callers, TakeCall(s, c) \/ TakeCancel(s, c)
        PROVE  UNCHANGED <<executorVars, cloudVars, callerVars, workerVars>>
    BY <1>3, Zenon DEF TakeCall, TakeCancel
  <1>4. ASSUME NEW c \in Callers, CallReturns(c)
        PROVE  UNCHANGED <<executorVars, cloudVars, callerVars, workerVars>>
    BY <1>4, Zenon DEF CallReturns
  <1> QED BY <1>1, <1>2, <1>3, <1>4 DEF CliNext, TakeShutdown

LEMMA PhaseStep ==
  ASSUME PromiseInv, PhaseInv, [Next]_vars
  PROVE  PhaseInv'
  <1>1. ASSUME UNCHANGED <<callerVars, workerVars>> PROVE PhaseInv'
    BY <1>1, SMT DEF PhaseInv, callerVars, workerVars
  <1>2. CASE UNCHANGED vars
    BY <1>1, <1>2 DEF vars
  <1>3. CASE WorkerNext
    BY <1>3, WorkerPhase DEF PromiseInv
  <1>4. CASE RelayNext
    BY <1>4, RelayPhase
  <1>5. CASE CliNext
    BY <1>1, <1>5, CliLeavesCallers
  <1> QED BY <1>2, <1>3, <1>4, <1>5 DEF Next

LEMMA PhaseInit == Init => PhaseInv
  BY SMT DEF Init, PhaseInv

LEMMA PhaseInvariant == SafetySpec => [](PromiseInv /\ PhaseInv)
  <1>1. Init => PromiseInv /\ PhaseInv
    BY PromiseInit, PhaseInit
  <1>2. PromiseInv /\ PhaseInv /\ [Next]_vars => (PromiseInv /\ PhaseInv)'
    BY PromiseStep, PhaseStep
  <1> QED BY <1>1, <1>2, PTL DEF SafetySpec

\* What a step settles, besides a caller it cancels, was issued, unless the
\* step ends the wait for the wake or the device is revoked.
LEMMA SettledWasIssued ==
  ASSUME PromiseInv, PhaseInv, [Next]_vars,
         NEW c \in waking, c \in waking', c \notin settled, c \in settled'
  PROVE  c \in cancelled' \/ revoked' = "told"
  <1>0. TypeOK /\ c \in Callers /\ c \notin issued
    BY SMT DEF PromiseInv, TypeOK, PhaseInv
  <1>1. ASSUME NEW C, NEW r, Settle(C, r) PROVE c \in C
    BY <1>1, Zenon DEF Settle
  <1>2. c \notin DispatchedOnly
    BY <1>0 DEF DispatchedOnly, InFlight
  <1>3. CASE settled' = settled
    BY <1>3
  <1>4. CASE UNCHANGED vars
    BY <1>3, <1>4 DEF vars, callerVars
  <1>5. CASE WorkerNext
    BY <1>3, <1>5, Zenon DEF WorkerNext, Call, Start, Deadline, Hear, TimeOut, OpenedTooLate, Abort, Vanish, Finish, callerVars
  <1>6. CASE CliNext
    BY <1>3, <1>6, CliLeavesCallers DEF callerVars
  <1>7. CASE RelayNext
    <2>1. ASSUME NEW d \in Callers, StartMessage(d) PROVE c \in cancelled' \/ revoked' = "told"
      <3>1. "start" \in wire[d]
        BY <2>1, Zenon DEF StartMessage
      <3>2. {d} \in SUBSET Callers /\ {d} \cap issued = {} /\ d # c
        BY <3>1, SMT DEF PhaseInv
      <3>3. ASSUME NEW refused \in SUBSET {d}, Dispatch({d}, refused) PROVE settled' \subseteq settled \cup {d}
        <4>1. PICK sent \in SUBSET {d} : DispatchSends({d}, sent)
          BY <1>0, <3>2, <3>3, DispatchEffect
        <4> QED BY <4>1, SMT DEF DispatchSends
      <3>4. settled' = settled \/ settled' \subseteq settled \cup {d}
        BY <2>1, <3>3, Zenon DEF StartMessage, callerVars
      <3> QED BY <3>2, <3>4
    <2>2. ASSUME NEW d \in Callers, CancelMessage(d) PROVE c \in cancelled' \/ revoked' = "told"
      <3>1. CASE d \in settled
        BY <1>3, <2>2, <3>1, Zenon DEF CancelMessage
      <3>2. CASE d \notin settled
        <4>1. settled' = settled \cup {d} /\ cancelled' = cancelled \cup {d}
          BY <2>2, <3>2, Zenon DEF CancelMessage, CancelCaller
        <4> QED BY <4>1
      <3> QED BY <3>1, <3>2
    <2>3. ASSUME NEW ok \in BOOLEAN, WakeDone(ok) PROVE FALSE
      <3>1. waking' = {}
        BY <2>3, Zenon DEF WakeDone
      <3> QED BY <3>1
    <2>4. ASSUME NEW s \in Sockets, Hello(s) PROVE c \in cancelled' \/ revoked' = "told"
      BY <1>1, <1>2, <1>3, <2>4, Zenon DEF Hello
    <2>5. ASSUME NEW s \in Sockets, NEW d \in Callers, NEW r \in {"result", "error"}, Result(s, d, r)
          PROVE  FALSE
      <3>1. d \in results[s] /\ Settle(CallerSocket(d), r)
        BY <2>5, Zenon DEF Result
      <3>2. c = d
        BY <1>1, <3>1 DEF CallerSocket
      <3>3. runs[d] = 1
        BY <3>1, Zenon DEF PromiseInv, RunInv
      <3>4. d \in issued
        BY <3>3, SMT DEF PromiseInv, SendInv
      <3> QED BY <1>0, <3>2, <3>4
    <2>6. ASSUME NEW d \in drops, DropExecutor(d) PROVE FALSE
      BY <1>1, <1>2, <2>6, Zenon DEF DropExecutor
    <2>7. ASSUME Revoke PROVE revoked' = "told"
      BY <2>7, Zenon DEF Revoke
    <2>8. ASSUME NEW d \in Callers, CallerCloses(d) PROVE settled' = settled
      BY <2>8, Zenon DEF CallerCloses
    <2>9. ASSUME AwakeLapses \/ RevokeRow PROVE settled' = settled
      BY <2>9, Zenon DEF AwakeLapses, RevokeRow, callerVars
    <2>10. ASSUME NEW s \in Sockets, Accept(s) \/ HelloUnsupported(s) PROVE settled' = settled
      BY <2>10, Zenon DEF Accept, HelloUnsupported, callerVars
    <2>11. ASSUME NEW s \in Sockets, NEW how \in {"close", "error"}, SocketEnds(s, how) PROVE settled' = settled
      BY <2>11, Zenon DEF SocketEnds, callerVars
    <2> QED BY <1>3, <1>7, <2>1, <2>2, <2>3, <2>4, <2>5, <2>6, <2>7, <2>8, <2>9, <2>10, <2>11, Zenon DEF RelayNext
  <1> QED BY <1>4, <1>5, <1>6, <1>7 DEF Next

\* A machine that is being woken drops its old socket to reconnect. A caller
\* parked on that wake loses nothing by it (failCallers with dispatchedOnly,
\* replaceOtherExecutors): only its own cancel, the end of the wake or a
\* revocation settles it.
THEOREM WaitersOutliveReconnects == SafetySpec => WaitingOutlivesReconnect
  <1>1. PromiseInv /\ PhaseInv /\ [Next]_vars =>
          [\A c \in (waking \cap waking') \ settled :
             c \in settled' => c \in cancelled' \/ revoked' = "told"]_vars
    BY SettledWasIssued
  <1> QED BY <1>1, PhaseInvariant, PTL DEF SafetySpec, WaitingOutlivesReconnect

----------------------------------------------------------------------------
(* Where the relay routes to *)

\* Routing prefers the validated session.
LEMMA ExecutorIsNewest ==
  ASSUME TypeOK, ExecutorSocket # NoSocket
  PROVE  /\ ExecutorSocket \in Routable
         /\ active[ExecutorSocket] = "yes" \/ \A t \in listed : active[t] # "yes"
  <1> DEFINE greeted == {s \in listed : active[s] = "yes"}
  <1>1. ExecutorSocket \in Routable
    BY ExecutorSocketType
  <1>2. CASE greeted # {}
    <2>1. greeted \in SUBSET Sockets
      BY SMT DEF TypeOK
    <2>2. ExecutorSocket = First(greeted)
      BY <1>2, SMT DEF ExecutorSocket
    <2>3. First(greeted) \in greeted
      BY <1>2, <2>1, FirstType
    <2> QED BY <1>1, <2>2, <2>3
  <1>3. CASE greeted = {}
    BY <1>1, <1>3
  <1> QED BY <1>2, <1>3

----------------------------------------------------------------------------
(* The Logs view *)

\* No Worker vanishes while its call is parked on a wake.  One that does is
\* not cancelled, its socket leaves the list, and the wake dispatches it.
WaitersStay == \A c \in waking \ settled : ~Vanish(c)

\* Who waits for the wake is listed, and closes behind a cancel only.
StayInv ==
  \A c \in Callers \ settled :
    /\ c \in waking => c \in open
    /\ (c \in waking \/ "start" \in wire[c]) /\ "close" \in wire[c] => "cancel" \in wire[c]

LogInv == StayInv /\ LogShowsWhatRuns

\* An action that dispatches and ends nothing.
LEMMA LogFrame ==
  ASSUME TypeOK, LogInv, UNCHANGED <<open, settled, issued, logView>>, waking' \subseteq waking,
         \A c \in Callers \ settled : (c \in waking' \/ "start" \in wire'[c]) /\ "close" \in wire'[c] =>
           "cancel" \in wire'[c]
  PROVE  LogInv'
  BY SMT DEF LogInv, StayInv, LogShowsWhatRuns, InFlight

\* Answering callers ends the log lines of those that were running.
LEMMA LogSettles ==
  ASSUME TypeOK, LogInv, NEW C \in SUBSET Callers, NEW r, Settle(C, r),
         UNCHANGED <<open, issued, wire>>, waking' \subseteq waking
  PROVE  LogInv'
  <1>1. settled' = settled \cup C
    BY DEF Settle
  <1>2. logView' = [c \in Callers |->
           IF c \in C \ settled /\ logView[c] = "running" THEN "ended" ELSE logView[c]]
    BY DEF Settle
  <1>3. StayInv'
    BY <1>1, SMT DEF LogInv, StayInv
  <1>4. LogShowsWhatRuns'
    BY <1>1, <1>2, SMT DEF LogInv, LogShowsWhatRuns, InFlight, TypeOK
  <1> QED BY <1>3, <1>4 DEF LogInv

\* Dispatching shows the calls that went down, and no others.
LEMMA LogDispatches ==
  ASSUME TypeOK, LogInv, NEW C \in SUBSET (open \ settled), C \cap issued = {},
         NEW refused \in SUBSET C, Dispatch(C, refused),
         UNCHANGED open, waking' \subseteq waking, \A c \in Callers : wire'[c] \subseteq wire[c],
         \A c \in Callers : "cancel" \in wire[c] => "cancel" \in wire'[c]
  PROVE  LogInv'
  <1>1. C \in SUBSET Callers
    BY SMT DEF TypeOK
  <1>2. PICK sent \in SUBSET C : DispatchSends(C, sent)
    BY <1>1, DispatchEffect
  <1>3. /\ issued \subseteq issued' /\ issued' \subseteq issued \cup C /\ sent \subseteq issued'
        /\ settled' = settled \cup (C \ sent)
        /\ logView' = [c \in Callers |-> IF c \in sent \cap ToolCalls THEN "running" ELSE logView[c]]
    BY <1>2, Zenon DEF DispatchSends
  <1>4. StayInv'
    BY <1>3, SMT DEF LogInv, StayInv
  <1>5. ASSUME NEW c \in Callers PROVE logView'[c] = "running" <=> c \in ToolCalls \cap InFlight'
    <2>1. InFlight' = (open \cap issued') \ settled'
      BY DEF InFlight
    <2>2. CASE c \in sent
      <3>1. c \in InFlight' /\ c \notin InFlight
        BY <1>3, <2>1, <2>2, SMT DEF InFlight
      <3>2. logView[c] # "running"
        BY <3>1, Zenon DEF LogInv, LogShowsWhatRuns
      <3> QED BY <1>3, <2>2, <3>1, <3>2, SMT
    <2>3. CASE c \notin sent
      <3>1. c \in InFlight' <=> c \in InFlight
        BY <1>3, <2>1, <2>3, SMT DEF InFlight
      <3>2. logView'[c] = logView[c]
        BY <1>3, <2>3, SMT
      <3> QED BY <3>1, <3>2, SMT DEF LogInv, LogShowsWhatRuns
    <2> QED BY <2>2, <2>3
  <1>6. LogShowsWhatRuns'
    BY <1>5, Zenon DEF LogShowsWhatRuns
  <1> QED BY <1>4, <1>6 DEF LogInv

LEMMA WorkerLog ==
  ASSUME TypeOK, PhaseInv, LogInv, WorkerNext, WaitersStay
  PROVE  LogInv'
  <1> USE DEF callerVars
  <1>1. ASSUME NEW c \in Callers, Call(c) PROVE LogInv'
    <2>1. /\ worker[c] = "idle" /\ open' = open \cup {c}
          /\ UNCHANGED <<wire, settled, issued, waking, logView>>
      BY <1>1, Zenon DEF Call
    <2>2. c \notin issued
      BY <2>1, SMT DEF PhaseInv
    <2>3. StayInv'
      BY <2>1, SMT DEF LogInv, StayInv
    <2>4. InFlight' = InFlight
      BY <2>1, <2>2, SMT DEF InFlight
    <2> QED BY <2>1, <2>3, <2>4, Zenon DEF LogInv, LogShowsWhatRuns
  <1>2. ASSUME NEW c \in Callers, Start(c) PROVE LogInv'
    <2>1. wire' = [wire EXCEPT ![c] = {"start"}] /\ UNCHANGED <<open, settled, issued, waking, logView>>
      BY <1>2, Zenon DEF Start
    <2> QED BY <2>1, LogFrame, SMT DEF TypeOK, LogInv, StayInv
  <1>3. ASSUME NEW c \in Callers, Deadline(c) PROVE LogInv'
    <2>1. UNCHANGED <<wire, open, settled, issued, waking, logView>>
      BY <1>3, Zenon DEF Deadline
    <2> QED BY <2>1, LogFrame, SMT DEF LogInv, StayInv
  <1>4. ASSUME NEW c \in Callers, NEW o, NEW frames, Finish(c, o, frames),
               c \in settled \/ "cancel" \in frames \/ (c \notin waking /\ "start" \notin frames)
        PROVE  LogInv'
    <2>1. wire' = [wire EXCEPT ![c] = frames] /\ UNCHANGED <<open, settled, issued, waking, logView>>
      BY <1>4, Zenon DEF Finish
    <2> QED BY <1>4, <2>1, LogFrame, SMT DEF TypeOK, LogInv, StayInv
  <1>5. ASSUME NEW c \in Callers, OpenedTooLate(c) PROVE LogInv'
    <2>1. Finish(c, "timeout", {"close"}) /\ c \notin waking
      BY <1>5, SMT DEF OpenedTooLate, PhaseInv
    <2>2. "start" \notin {"close"}
      OBVIOUS
    <2> QED BY <1>4, <2>1, <2>2
  <1>6. ASSUME NEW c \in Callers, Hear(c) PROVE LogInv'
    <2>1. Finish(c, reply[c], wire[c] \cup {"close"}) /\ reply[c] # None
      BY <1>6, Zenon DEF Hear
    <2>2. c \in settled
      BY <2>1, Zenon DEF PhaseInv
    <2> QED BY <1>4, <2>1, <2>2
  <1>7. ASSUME NEW c \in Callers, TimeOut(c) \/ Abort(c) PROVE LogInv'
    <2>1. PICK o : Finish(c, o, wire[c] \cup {"cancel", "close"})
      BY <1>7, Zenon DEF TimeOut, Abort
    <2>2. "cancel" \in wire[c] \cup {"cancel", "close"}
      OBVIOUS
    <2> QED BY <1>4, <2>1, <2>2
  <1>8. ASSUME NEW c \in Callers, Vanish(c) PROVE LogInv'
    <2>1. c \in settled \/ c \notin waking
      BY <1>8, Zenon DEF WaitersStay
    <2>2. Finish(c, "offline", {"close"}) /\ "start" \notin {"close"}
      BY <1>8, SMT DEF Vanish
    <2> QED BY <1>4, <2>1, <2>2
  <1> QED BY <1>1, <1>2, <1>3, <1>5, <1>6, <1>7, <1>8 DEF WorkerNext

LEMMA RelayLog ==
  ASSUME TypeOK, PhaseInv, LogInv, RelayNext
  PROVE  LogInv'
  <1> DEFINE kept == <<open, issued, wire, waking>>
  <1>1. ASSUME UNCHANGED <<callerVars, workerVars>> PROVE LogInv'
    BY <1>1, LogFrame, SMT DEF callerVars, workerVars, LogInv, StayInv
  <1>2. ASSUME NEW c \in Callers, StartMessage(c) PROVE LogInv'
    <2>1. "start" \in wire[c] /\ wire' = [wire EXCEPT ![c] = @ \ {"start"}]
      BY <1>2, Zenon DEF StartMessage
    <2>2. \A d \in Callers : /\ wire'[d] \subseteq wire[d] /\ (d # c => wire'[d] = wire[d])
                             /\ ("cancel" \in wire[d] => "cancel" \in wire'[d])
      BY <2>1, SMT DEF TypeOK
    <2>3. c \in open /\ {c} \cap issued = {}
      BY <2>1, SMT DEF PhaseInv
    <2>4. CASE UNCHANGED <<callerVars, linkVars>>
      BY <2>2, <2>4, LogFrame, SMT DEF callerVars, LogInv, StayInv
    <2>5. CASE /\ waking' = waking \cup {c}
               /\ UNCHANGED <<open, settled, issued, reply, logView, sentTo, cancelled, linkVars>>
      <3>1. StayInv'
        BY <2>1, <2>2, <2>3, <2>5, SMT DEF LogInv, StayInv
      <3> QED BY <2>5, <3>1, SMT DEF LogInv, LogShowsWhatRuns, InFlight
    <2>6. ASSUME c \notin settled, NEW refused \in SUBSET {c}, Dispatch({c}, refused), UNCHANGED <<open, waking>>
          PROVE  LogInv'
      <3>1. {c} \in SUBSET (open \ settled)
        BY <2>3, <2>6
      <3> QED BY <2>2, <2>3, <2>6, <3>1, LogDispatches
    <2> QED BY <1>2, <2>4, <2>5, <2>6, Zenon DEF StartMessage
  <1>3. ASSUME NEW c \in Callers, CancelMessage(c) PROVE LogInv'
    <2>1. /\ "start" \notin wire[c] /\ wire' = [wire EXCEPT ![c] = @ \ {"cancel"}]
          /\ UNCHANGED <<open, issued, waking>>
      BY <1>3, Zenon DEF CancelMessage
    <2>2. \A d \in Callers : d # c => wire'[d] = wire[d]
      BY <2>1, SMT DEF TypeOK
    <2>3. CASE c \in settled
      <3>1. UNCHANGED <<settled, logView>>
        BY <1>3, <2>3, Zenon DEF CancelMessage
      <3> QED BY <2>1, <2>2, <2>3, <3>1, LogFrame, SMT DEF LogInv, StayInv
    <2>4. CASE c \notin settled
      <3>1. settled' = settled \cup {c}
            /\ logView' = [logView EXCEPT ![c] = IF @ = "running" THEN "ended" ELSE @]
        BY <1>3, <2>4, Zenon DEF CancelMessage, CancelCaller, LogEnd
      <3>2. StayInv'
        BY <2>1, <2>2, <3>1, SMT DEF LogInv, StayInv
      <3>3. LogShowsWhatRuns'
        BY <2>1, <3>1, SMT DEF LogInv, LogShowsWhatRuns, InFlight, TypeOK
      <3> QED BY <3>2, <3>3 DEF LogInv
    <2> QED BY <2>3, <2>4
  <1>4. ASSUME NEW c \in Callers, CallerCloses(c) PROVE LogInv'
    <2>1. /\ wire[c] = {"close"} /\ wire' = [wire EXCEPT ![c] = {}] /\ open' = open \ {c}
          /\ UNCHANGED <<settled, issued, waking>>
      BY <1>4, Zenon DEF CallerCloses
    <2>2. \A d \in Callers : d # c => wire'[d] = wire[d]
      BY <2>1, SMT DEF TypeOK
    <2>3. c \in settled \/ c \notin waking
      BY <2>1, SMT DEF LogInv, StayInv
    <2>4. wire'[c] = {}
      BY <2>1, SMT DEF TypeOK
    <2>5. StayInv'
      BY <2>1, <2>2, <2>3, <2>4, SMT DEF LogInv, StayInv
    <2>6. CASE c \in settled
      <3>1. UNCHANGED logView
        BY <1>4, <2>6, Zenon DEF CallerCloses
      <3>2. InFlight' = InFlight
        BY <2>1, <2>6, SMT DEF InFlight
      <3> QED BY <2>5, <3>1, <3>2, Zenon DEF LogInv, LogShowsWhatRuns
    <2>7. CASE c \notin settled
      <3>1. logView' = [logView EXCEPT ![c] = IF @ = "running" THEN "ended" ELSE @]
        BY <1>4, <2>7, Zenon DEF CallerCloses, CancelCaller, LogEnd
      <3>2. LogShowsWhatRuns'
        BY <2>1, <3>1, SMT DEF LogInv, LogShowsWhatRuns, InFlight, TypeOK
      <3> QED BY <2>5, <3>2 DEF LogInv
    <2> QED BY <2>6, <2>7
  <1>5. ASSUME NEW ok \in BOOLEAN, WakeDone(ok) PROVE LogInv'
    <2>1. waking' = {} /\ UNCHANGED <<wire, open>>
      BY <1>5, Zenon DEF WakeDone, workerVars
    <2>2. ASSUME NEW refused \in SUBSET (waking \ settled), Dispatch(waking \ settled, refused)
          PROVE  LogInv'
      <3>1. PICK C \in SUBSET Callers : C = waking \ settled
        BY DEF TypeOK
      <3>2. C \cap issued = {} /\ C \in SUBSET (open \ settled)
        BY <3>1, SMT DEF PhaseInv, LogInv, StayInv
      <3>3. refused \in SUBSET C /\ Dispatch(C, refused)
        BY <2>2, <3>1
      <3> QED BY <2>1, <3>2, <3>3, LogDispatches, Zenon
    <2>3. CASE Settle(waking, "error") /\ UNCHANGED <<issued, sentTo, calls>>
      <3>1. PICK C \in SUBSET Callers : C = waking
        BY DEF TypeOK
      <3>2. Settle(C, "error")
        BY <2>3, <3>1
      <3> QED BY <2>1, <2>3, <3>2, LogSettles, Zenon
    <2> QED BY <1>5, <2>2, <2>3, Zenon DEF WakeDone
  <1>6. DispatchedOnly \in SUBSET Callers /\ open \in SUBSET Callers
    BY SMT DEF TypeOK, DispatchedOnly, InFlight
  <1>7. ASSUME NEW s \in Sockets, Hello(s) PROVE LogInv'
    <2>1. UNCHANGED kept
      BY <1>7, Zenon DEF Hello, workerVars
    <2>2. CASE Settle(DispatchedOnly, Offline)
      BY <1>6, <2>1, <2>2, LogSettles
    <2>3. CASE UNCHANGED <<settled, reply, logView>>
      BY <2>1, <2>3, LogFrame, SMT DEF LogInv, StayInv
    <2> QED BY <1>7, <2>2, <2>3, Zenon DEF Hello
  <1>8. ASSUME NEW s \in Sockets, NEW c \in Callers, NEW r \in {"result", "error"}, Result(s, c, r)
        PROVE  LogInv'
    <2>1. UNCHANGED kept /\ Settle(CallerSocket(c), r)
      BY <1>8, Zenon DEF Result, workerVars
    <2>2. CallerSocket(c) \in SUBSET Callers
      BY DEF CallerSocket
    <2> QED BY <2>1, <2>2, LogSettles
  <1>9. ASSUME NEW d \in drops, DropExecutor(d) PROVE LogInv'
    <2>1. UNCHANGED kept /\ Settle(DispatchedOnly, Offline)
      BY <1>9, Zenon DEF DropExecutor, workerVars
    <2> QED BY <1>6, <2>1, LogSettles
  <1>10. ASSUME Revoke PROVE LogInv'
    <2>1. UNCHANGED kept /\ Settle(open, Offline)
      BY <1>10, Zenon DEF Revoke, workerVars
    <2> QED BY <1>6, <2>1, LogSettles
  <1>11. ASSUME NEW s \in Sockets, Accept(s) \/ HelloUnsupported(s) PROVE LogInv'
    BY <1>1, <1>11, Zenon DEF Accept, HelloUnsupported
  <1>12. ASSUME NEW s \in Sockets, NEW how \in {"close", "error"}, SocketEnds(s, how) PROVE LogInv'
    BY <1>1, <1>12, Zenon DEF SocketEnds
  <1>13. ASSUME AwakeLapses \/ RevokeRow PROVE LogInv'
    BY <1>1, <1>13, Zenon DEF AwakeLapses, RevokeRow
  <1> QED BY <1>2, <1>3, <1>4, <1>5, <1>7, <1>8, <1>9, <1>10, <1>11, <1>12, <1>13, Zenon DEF RelayNext

LEMMA LogStep ==
  ASSUME TypeOK, PhaseInv, LogInv, [Next]_vars, [WaitersStay]_vars
  PROVE  LogInv'
  <1>1. ASSUME UNCHANGED <<callerVars, workerVars>> PROVE LogInv'
    BY <1>1, LogFrame, SMT DEF callerVars, workerVars, LogInv, StayInv
  <1>2. CASE UNCHANGED vars
    BY <1>1, <1>2 DEF vars
  <1>3. CASE WorkerNext /\ WaitersStay
    BY <1>3, WorkerLog
  <1>4. CASE RelayNext
    BY <1>4, RelayLog
  <1>5. CASE CliNext
    BY <1>1, <1>5, CliLeavesCallers
  <1> QED BY <1>2, <1>3, <1>4, <1>5, Zenon DEF Next

LEMMA LogInit == Init => LogInv
  BY SMT DEF Init, LogInv, StayInv, LogShowsWhatRuns, InFlight

\* Every line of the Logs view that starts is ended, on each of the paths a
\* call can end on (logStart, logEnd, settleCaller, cancelCaller), as long as
\* no Worker vanishes while its call is parked on a wake.
THEOREM LinesEnd == SafetySpec /\ [][WaitersStay]_vars => []LogShowsWhatRuns
  <1>1. Init => LogInv
    BY LogInit
  <1>2. (PromiseInv /\ PhaseInv) /\ LogInv /\ [Next]_vars /\ [WaitersStay]_vars => LogInv'
    BY LogStep DEF PromiseInv
  <1>3. LogInv => LogShowsWhatRuns
    BY DEF LogInv
  <1> QED BY <1>1, <1>2, <1>3, PhaseInvariant, PTL DEF SafetySpec

\* A machine that was not set up as a cloud machine has nobody waiting for it.
LocalInv == ~cloud /\ waking = {}

LEMMA LocalStep ==
  ASSUME LocalInv, [Next]_vars
  PROVE  LocalInv' /\ [WaitersStay]_vars
  <1>1. WaitersStay
    BY DEF LocalInv, WaitersStay
  <1> SUFFICES LocalInv'
    BY <1>1
  <1>2. ASSUME UNCHANGED <<cloud, waking>> PROVE LocalInv'
    BY <1>2 DEF LocalInv
  <1>3. CASE UNCHANGED vars
    BY <1>2, <1>3 DEF vars, cloudVars, callerVars
  <1>4. CASE WorkerNext
    BY <1>2, <1>4, Zenon DEF WorkerNext, Call, Start, Deadline, Hear, TimeOut, OpenedTooLate, Abort, Vanish, Finish, callerVars, cloudVars
  <1>5. CASE CliNext
    BY <1>2, <1>5, CliLeavesCallers DEF cloudVars, callerVars
  <1>6. CASE RelayNext
    <2>1. ASSUME NEW d \in Callers, StartMessage(d) PROVE UNCHANGED <<cloud, waking>>
      BY <2>1, Zenon DEF StartMessage, LocalInv, NeedsWake, callerVars, cloudVars
    <2>2. ASSUME NEW d \in Callers, CancelMessage(d) \/ CallerCloses(d) PROVE UNCHANGED <<cloud, waking>>
      BY <2>2, Zenon DEF CancelMessage, CallerCloses, cloudVars
    <2>3. ASSUME NEW ok \in BOOLEAN, WakeDone(ok) PROVE FALSE
      BY <2>3, Zenon DEF WakeDone, LocalInv
    <2>4. ASSUME NEW s \in Sockets, Accept(s) \/ Hello(s) \/ HelloUnsupported(s) PROVE UNCHANGED <<cloud, waking>>
      BY <2>4, Zenon DEF Accept, Hello, HelloUnsupported, callerVars, cloudVars
    <2>5. ASSUME NEW s \in Sockets, NEW c \in Callers, NEW r \in {"result", "error"}, Result(s, c, r)
          PROVE  UNCHANGED <<cloud, waking>>
      BY <2>5, Zenon DEF Result
    <2>6. ASSUME NEW s \in Sockets, NEW how \in {"close", "error"}, SocketEnds(s, how) PROVE UNCHANGED <<cloud, waking>>
      BY <2>6, Zenon DEF SocketEnds, callerVars, cloudVars
    <2>7. ASSUME NEW d \in drops, DropExecutor(d) PROVE UNCHANGED <<cloud, waking>>
      BY <2>7, Zenon DEF DropExecutor, cloudVars
    <2>8. ASSUME AwakeLapses \/ RevokeRow PROVE UNCHANGED <<cloud, waking>>
      BY <2>8, Zenon DEF AwakeLapses, RevokeRow, callerVars, cloudVars
    <2>9. ASSUME Revoke PROVE LocalInv'
      <3>1. cloud' = FALSE /\ waking' = waking
        BY <2>9, Zenon DEF Revoke
      <3> QED BY <3>1 DEF LocalInv
    <2> QED BY <1>2, <1>6, <2>1, <2>2, <2>3, <2>4, <2>5, <2>6, <2>7, <2>8, <2>9, Zenon DEF RelayNext
  <1> QED BY <1>1, <1>3, <1>4, <1>5, <1>6 DEF Next

\* On a machine that does not sleep every line that starts is ended, whatever
\* happens to Workers, sockets and sessions.
THEOREM LocalLinesEnd == ~Cloud => (SafetySpec => []LogShowsWhatRuns)
  <1> SUFFICES ASSUME ~Cloud PROVE SafetySpec => []LogShowsWhatRuns
    OBVIOUS
  <1>1. Init => LocalInv
    BY DEF Init, LocalInv
  <1>2. LocalInv /\ [Next]_vars => LocalInv' /\ [WaitersStay]_vars
    BY LocalStep
  <1>3. SafetySpec => [][WaitersStay]_vars
    BY <1>1, <1>2, PTL DEF SafetySpec
  <1> QED BY <1>3, LinesEnd, PTL

----------------------------------------------------------------------------
(* Where cancels go *)

\* Sockets are accepted in the order they were dialled, calls go down accepted
\* ones, and a closed one has its shutdown before it or its session is over.
SessionInv ==
  /\ \A s, t \in Sockets : t < s /\ session[s] # "none" => session[t] \in {"up", "over"}
  /\ \A c \in Callers, s \in Sockets : sentTo[c] = s => session[s] \in {"up", "over"}
  /\ \A s \in closing : session[s] = "over" \/ (session[s] = "up" /\ s \in shutdowns)

LEMMA SessionFrame ==
  ASSUME SessionInv, UNCHANGED <<session, sentTo, closing, shutdowns>>
  PROVE  SessionInv'
  BY SMT DEF SessionInv

\* Closing sockets of the list, with a shutdown on those it can still reach.
LEMMA SessionCloses ==
  ASSUME RoutingInv, SessionInv, NEW S \in SUBSET listed, closing' = closing \cup S,
         shutdowns' = shutdowns \cup {t \in S \ closing : Reaches(t)}, UNCHANGED <<session, sentTo>>
  PROVE  SessionInv'
  <1>1. \A s \in listed : session[s] \in {"up", "over"}
    BY SMT DEF RoutingInv, TypeOK, Unaccepted
  <1> QED BY <1>1, SMT DEF SessionInv, Reaches

LEMMA SessionDispatches ==
  ASSUME RoutingInv, SessionInv, NEW C \in SUBSET Callers, C \cap issued = {},
         NEW refused \in SUBSET C, Dispatch(C, refused), UNCHANGED <<session, closing, shutdowns>>
  PROVE  SessionInv'
  <1>1. TypeOK
    BY DEF RoutingInv
  <1>2. PICK sent \in SUBSET C : DispatchSends(C, sent)
    BY <1>1, DispatchEffect
  <1>3. sent # {} => ExecutorSocket \in Sockets /\ session[ExecutorSocket] \in {"up", "over"}
    BY <1>1, <1>2, SMT DEF DispatchSends, Routable, RoutingInv, Unaccepted, TypeOK
  <1>4. sentTo' = [c \in Callers |-> IF c \in sent THEN ExecutorSocket ELSE sentTo[c]]
    BY <1>2, Zenon DEF DispatchSends
  <1> HIDE DEF ExecutorSocket
  <1> QED BY <1>3, <1>4, SMT DEF SessionInv

LEMMA SessionStep ==
  ASSUME PhaseInv, RoutingInv, SessionInv, [Next]_vars
  PROVE  SessionInv'
  <1>0. TypeOK
    BY DEF RoutingInv
  <1>1. CASE UNCHANGED vars
    BY <1>1, SessionFrame DEF vars, executorVars, callerVars, linkVars, cliVars
  <1>2. CASE WorkerNext
    BY <1>2, SessionFrame, Zenon DEF WorkerNext, Call, Start, Deadline, Hear, TimeOut, OpenedTooLate, Abort,
       Vanish, Finish, executorVars, callerVars, linkVars, cliVars
  <1>3. CASE CliNext
    <2>1. ASSUME NEW s \in Sockets, NEW p \in Processes, Dial(s, p) PROVE SessionInv'
      <3>1. /\ session[s] = "none" /\ session' = [session EXCEPT ![s] = "dialling"]
            /\ \A t \in Sockets : t < s => session[t] \in {"up", "over"}
            /\ UNCHANGED <<sentTo, closing, shutdowns>>
        BY <2>1, Zenon DEF Dial, executorVars, callerVars, linkVars
      <3>2. \A t \in Sockets : session'[t] = IF t = s THEN "dialling" ELSE session[t]
        BY <1>0, <3>1, SMT DEF TypeOK
      <3>3. ASSUME NEW u \in Sockets, NEW t \in Sockets, t < u, session'[u] # "none"
            PROVE  session'[t] \in {"up", "over"}
        <4>1. session[t] \in {"up", "over"}
          BY <3>1, <3>2, <3>3, SMT DEF SessionInv
        <4>2. t # s
          BY <3>1, <4>1
        <4> QED BY <3>2, <4>1, <4>2
      <3>4. \A c \in Callers, t \in Sockets : sentTo'[c] = t => session'[t] \in {"up", "over"}
        BY <3>1, <3>2, SMT DEF SessionInv
      <3>5. \A t \in closing' : session'[t] = "over" \/ (session'[t] = "up" /\ t \in shutdowns')
        BY <1>0, <3>1, <3>2, SMT DEF SessionInv, TypeOK
      <3> QED BY <3>3, <3>4, <3>5, Zenon DEF SessionInv
    <2>2. ASSUME NEW s \in Sockets, NEW clean \in BOOLEAN, SessionEnds(s, clean) PROVE SessionInv'
      <3>1. /\ session[s] = "up" /\ session' = [session EXCEPT ![s] = "over"] /\ shutdowns' = shutdowns \ {s}
            /\ UNCHANGED <<sentTo, closing>>
        BY <2>2, Zenon DEF SessionEnds, executorVars, callerVars
      <3> QED BY <1>0, <3>1, SMT DEF SessionInv, TypeOK
    <2>3. ASSUME NEW s \in Sockets, NEW c \in Callers, TakeCall(s, c) \/ TakeCancel(s, c) PROVE SessionInv'
      BY <2>3, SessionFrame, Zenon DEF TakeCall, TakeCancel, executorVars, callerVars
    <2>4. ASSUME NEW c \in Callers, CallReturns(c) PROVE SessionInv'
      BY <2>4, SessionFrame, Zenon DEF CallReturns, executorVars, callerVars
    <2> QED BY <1>3, <2>1, <2>2, <2>3, <2>4, Zenon DEF CliNext, TakeShutdown
  <1>4. CASE RelayNext
    <2>1. ASSUME NEW d \in Callers, StartMessage(d) PROVE SessionInv'
      <3>1. UNCHANGED <<session, closing, shutdowns>> /\ "start" \in wire[d]
        BY <2>1, Zenon DEF StartMessage, executorVars, cliVars, linkVars
      <3>2. {d} \in SUBSET Callers /\ {d} \cap issued = {}
        BY <3>1, SMT DEF PhaseInv
      <3>3. ASSUME NEW refused \in SUBSET {d}, Dispatch({d}, refused) PROVE SessionInv'
        BY <3>1, <3>2, <3>3, SessionDispatches
      <3>4. CASE UNCHANGED sentTo
        BY <3>1, <3>4, SessionFrame
      <3> QED BY <2>1, <3>3, <3>4, Zenon DEF StartMessage, callerVars
    <2>2. ASSUME NEW ok \in BOOLEAN, WakeDone(ok) PROVE SessionInv'
      <3>1. UNCHANGED <<session, closing, shutdowns>>
        BY <2>2, Zenon DEF WakeDone, executorVars, cliVars
      <3>2. PICK C \in SUBSET Callers : C = waking \ settled
        BY <1>0 DEF TypeOK
      <3>3. C \cap issued = {}
        BY <3>2, SMT DEF PhaseInv
      <3>4. ASSUME NEW refused \in SUBSET (waking \ settled), Dispatch(waking \ settled, refused)
            PROVE  SessionInv'
        <4>1. refused \in SUBSET C /\ Dispatch(C, refused)
          BY <3>2, <3>4
        <4> QED BY <3>1, <3>3, <4>1, SessionDispatches
      <3>5. CASE UNCHANGED sentTo
        BY <3>1, <3>5, SessionFrame
      <3> QED BY <2>2, <3>4, <3>5, Zenon DEF WakeDone
    <2>3. ASSUME NEW d \in Callers, CancelMessage(d) \/ CallerCloses(d) PROVE SessionInv'
      BY <2>3, SessionFrame, Zenon DEF CancelMessage, CallerCloses, executorVars, cliVars
    <2>4. ASSUME NEW s \in Sockets, Accept(s) PROVE SessionInv'
      <3>1. /\ session[s] = "dialling" /\ session' = [session EXCEPT ![s] = "up"]
            /\ UNCHANGED <<sentTo, closing, shutdowns>>
        BY <2>4, Zenon DEF Accept, callerVars
      <3> QED BY <1>0, <3>1, SMT DEF SessionInv, TypeOK
    <2>5. ASSUME NEW s \in Sockets, Hello(s) PROVE SessionInv'
      <3>1. PICK S \in SUBSET listed : S = listed \ {s}
        OBVIOUS
      <3>2. /\ closing' = closing \cup S /\ shutdowns' = shutdowns \cup {t \in S \ closing : Reaches(t)}
            /\ UNCHANGED <<session, sentTo>>
        BY <2>5, <3>1, Zenon DEF Hello, cliVars
      <3> QED BY <3>2, SessionCloses
    <2>6. ASSUME NEW s \in Sockets, HelloUnsupported(s) PROVE SessionInv'
      <3>1. PICK S \in SUBSET listed : S = {s}
        BY <2>6 DEF HelloUnsupported
      <3>2. /\ closing' = closing \cup S /\ shutdowns' = shutdowns \cup {t \in S \ closing : Reaches(t)}
            /\ UNCHANGED <<session, sentTo>>
        BY <2>6, <3>1, Zenon DEF HelloUnsupported, cliVars, callerVars
      <3> QED BY <3>2, SessionCloses
    <2>7. ASSUME Revoke PROVE SessionInv'
      <3>1. PICK S \in SUBSET listed : S = listed
        OBVIOUS
      <3>2. /\ closing' = closing \cup S /\ shutdowns' = shutdowns \cup {t \in S \ closing : Reaches(t)}
            /\ UNCHANGED <<session, sentTo>>
        BY <2>7, <3>1, Zenon DEF Revoke, cliVars
      <3> QED BY <3>2, SessionCloses
    <2>8. ASSUME NEW s \in Sockets, NEW c \in Callers, NEW r \in {"result", "error"}, Result(s, c, r)
          PROVE  SessionInv'
      BY <2>8, SessionFrame, Zenon DEF Result, executorVars, cliVars
    <2>9. ASSUME NEW s \in Sockets, NEW how \in {"close", "error"}, SocketEnds(s, how) PROVE SessionInv'
      BY <2>9, SessionFrame, Zenon DEF SocketEnds, callerVars, cliVars
    <2>10. ASSUME NEW d \in drops, DropExecutor(d) PROVE SessionInv'
      BY <2>10, SessionFrame, Zenon DEF DropExecutor, linkVars, cliVars
    <2>11. ASSUME AwakeLapses \/ RevokeRow PROVE SessionInv'
      BY <2>11, SessionFrame, Zenon DEF AwakeLapses, RevokeRow, executorVars, callerVars, linkVars, cliVars
    <2> QED BY <1>4, <2>1, <2>2, <2>3, <2>4, <2>5, <2>6, <2>7, <2>8, <2>9, <2>10, <2>11, Zenon DEF RelayNext
  <1> QED BY <1>1, <1>2, <1>3, <1>4 DEF Next

LEMMA SessionInit == Init => SessionInv
  <1>1. NoSocket \notin Sockets
    BY ConstantsAssumption, SMT DEF Sockets, NoSocket
  <1> QED BY <1>1, SMT DEF Init, SessionInv

LEMMA SessionInvariant == SafetySpec => [](PromiseInv /\ PhaseInv /\ RoutingInv /\ SessionInv)
  <1>1. PhaseInv /\ RoutingInv /\ SessionInv /\ [Next]_vars => SessionInv'
    BY SessionStep
  <1> QED BY <1>1, SessionInit, PhaseInvariant, RoutingInvariant, PTL DEF SafetySpec

\* The runtime lists sockets in the order it accepted them.
OldestListedFirst == \A s, t \in Sockets : s < t => ListOrder[s] < ListOrder[t]

\* A call in flight went down the socket that is routed to still, unless that
\* one is being closed: the validated one, or the first listed before any is.
RouteInv ==
  \A c \in InFlight, s \in listed \ closing : sentTo[c] = s =>
     \/ active[s] = "yes"
     \/ /\ \A t \in listed : active[t] # "yes"
        /\ s \in Routable /\ \A t \in Routable : s <= t

LEMMA ExecutorIsFirst ==
  ASSUME TypeOK, OldestListedFirst, ExecutorSocket # NoSocket
  PROVE  \/ active[ExecutorSocket] = "yes"
         \/ /\ \A t \in listed : active[t] # "yes"
            /\ ExecutorSocket \in Routable /\ \A t \in Routable : ExecutorSocket <= t
  <1>1. ExecutorSocket \in Routable
        /\ (active[ExecutorSocket] = "yes" \/ \A t \in listed : active[t] # "yes")
    BY ExecutorIsNewest
  <1>2. Routable \in SUBSET Sockets
    BY SMT DEF TypeOK, Routable
  <1>3. ASSUME \A t \in listed : active[t] # "yes", NEW t \in Routable PROVE ExecutorSocket <= t
    <2>1. ExecutorSocket = First(Routable)
      BY <1>1, <1>3, SMT DEF ExecutorSocket
    <2>2. ListOrder[ExecutorSocket] <= ListOrder[t]
      BY <1>1, <1>2, <2>1, FirstIsLeast
    <2>3. ExecutorSocket \in Sockets /\ t \in Sockets
      BY <1>1, <1>2
    <2>4. PICK e \in Sockets : e = ExecutorSocket
      BY <2>3
    <2>5. e <= t
      BY <2>2, <2>3, <2>4, ConstantsAssumption, SMT DEF OldestListedFirst, Sockets
    <2> QED BY <2>4, <2>5
  <1> QED BY <1>1, <1>3

\* So a cancel of such a call is sent where the call went.
LEMMA CancelFindsCall ==
  ASSUME RoutingInv, RouteInv, OldestListedFirst, NEW c \in InFlight, NEW s \in listed \ closing, sentTo[c] = s
  PROVE  CancelTarget = s
  <1> DEFINE greeted == {t \in listed : active[t] = "yes"}
  <1>0. TypeOK /\ s \in Sockets /\ Routable \in SUBSET Sockets /\ greeted \in SUBSET Sockets
    BY SMT DEF RoutingInv, TypeOK, Routable
  <1>1. CASE active[s] = "yes"
    <2>1. greeted # {}
      BY <1>1
    <2>2. ExecutorSocket = First(greeted)
      BY <2>1, SMT DEF ExecutorSocket
    <2>3. First(greeted) \in greeted
      BY <1>0, <2>1, FirstType
    <2> QED BY <1>1, <2>2, <2>3 DEF CancelTarget, RoutingInv, OneRoutableExecutor
  <1>2. CASE active[s] # "yes"
    <2>1. /\ \A t \in listed : active[t] # "yes"
          /\ s \in Routable /\ \A t \in Routable : s <= t
      BY <1>2 DEF RouteInv
    <2>2. ExecutorSocket = First(Routable)
      BY <2>1, SMT DEF ExecutorSocket
    <2>3. First(Routable) \in Routable /\ ListOrder[First(Routable)] <= ListOrder[s]
      BY <1>0, <2>1, FirstIsLeast
    <2>4. PICK f \in Sockets : f = First(Routable)
      BY <1>0, <2>3
    <2>5. s <= f /\ ListOrder[f] <= ListOrder[s]
      BY <2>1, <2>3, <2>4
    <2>6. f = s
      BY <1>0, <2>5, ConstantsAssumption, SMT DEF OldestListedFirst, Sockets
    <2> QED BY <2>2, <2>4, <2>6 DEF CancelTarget
  <1> QED BY <1>1, <1>2

LEMMA RouteFrame ==
  ASSUME RouteInv, InFlight' \subseteq InFlight, listed' \subseteq listed, closing \subseteq closing',
         UNCHANGED <<active, sentTo>>
  PROVE  RouteInv'
  BY SMT DEF RouteInv, Routable

\* Answering callers, and nothing else, only takes calls out of flight.
LEMMA SettledLeave ==
  ASSUME NEW C, NEW r, Settle(C, r), UNCHANGED <<open, issued>>
  PROVE  InFlight' \subseteq InFlight
  BY SMT DEF Settle, InFlight

LEMMA RouteDispatches ==
  ASSUME RoutingInv, RouteInv, OldestListedFirst, NEW C \in SUBSET Callers, C \cap issued = {},
         NEW refused \in SUBSET C, Dispatch(C, refused), UNCHANGED <<open, listed, closing, active>>
  PROVE  RouteInv'
  <1>1. TypeOK
    BY DEF RoutingInv
  <1>2. PICK sent \in SUBSET C : DispatchSends(C, sent)
    BY <1>1, DispatchEffect
  <1>3. /\ issued' \subseteq issued \cup C /\ settled' = settled \cup (C \ sent)
        /\ sentTo' = [c \in Callers |-> IF c \in sent THEN ExecutorSocket ELSE sentTo[c]]
        /\ sent # {} => ExecutorSocket \in Routable \ closing
    BY <1>2, Zenon DEF DispatchSends
  <1>4. NoSocket \notin Sockets /\ Routable \subseteq Sockets
    <2>1. NoSocket \notin Sockets
      BY ConstantsAssumption, SMT DEF Sockets, NoSocket
    <2>2. Routable \subseteq Sockets
      BY <1>1, SMT DEF Routable, TypeOK
    <2> QED BY <2>1, <2>2
  <1>5. ASSUME NEW c \in InFlight', NEW s \in listed \ closing, sentTo'[c] = s
        PROVE  \/ active[s] = "yes"
               \/ /\ \A t \in listed : active[t] # "yes"
                  /\ s \in Routable /\ \A t \in Routable : s <= t
    <2>1. c \in Callers /\ c \in open /\ c \in issued' /\ c \notin settled'
      BY <1>1, <1>5, SMT DEF InFlight, TypeOK
    <2>2. CASE c \in sent
      <3>1. s = ExecutorSocket /\ s # NoSocket
        BY <1>3, <1>4, <1>5, <2>1, <2>2
      <3> QED BY <1>1, <3>1, ExecutorIsFirst
    <2>3. CASE c \notin sent
      <3>1. c \in InFlight /\ sentTo[c] = s
        BY <1>3, <1>5, <2>1, <2>3, SMT DEF InFlight
      <3> QED BY <3>1, Zenon DEF RouteInv
    <2> QED BY <2>2, <2>3
  <1>6. Routable' = Routable
    BY DEF Routable
  <1> QED BY <1>5, <1>6, Zenon DEF RouteInv

LEMMA RouteStep ==
  ASSUME PromiseInv, PhaseInv, RoutingInv, SessionInv, RouteInv, OldestListedFirst, [Next]_vars
  PROVE  RouteInv'
  <1>0. TypeOK
    BY DEF RoutingInv
  <1>1. ASSUME UNCHANGED <<open, issued, settled, listed, closing, active, sentTo>> PROVE RouteInv'
    <2>1. InFlight' \subseteq InFlight
      BY <1>1, SMT DEF InFlight
    <2> QED BY <1>1, <2>1, RouteFrame
  <1>2. CASE UNCHANGED vars
    BY <1>1, <1>2 DEF vars, executorVars, callerVars
  <1>3. CASE WorkerNext
    <2>1. ASSUME NEW c \in Callers, Call(c) PROVE RouteInv'
      <3>1. worker[c] = "idle" /\ open' = open \cup {c} /\ UNCHANGED <<issued, settled, listed, closing, active, sentTo>>
        BY <2>1, Zenon DEF Call, executorVars
      <3>2. InFlight' \subseteq InFlight
        BY <3>1, SMT DEF PhaseInv, InFlight
      <3> QED BY <3>1, <3>2, RouteFrame
    <2> QED BY <1>1, <1>3, <2>1, Zenon DEF WorkerNext, Start, Deadline, Hear, TimeOut, OpenedTooLate, Abort,
         Vanish, Finish, executorVars, callerVars
  <1>4. CASE CliNext
    BY <1>1, <1>4, CliLeavesCallers DEF executorVars, callerVars
  <1>5. CASE RelayNext
    <2>1. ASSUME NEW d \in Callers, StartMessage(d) PROVE RouteInv'
      <3>1. UNCHANGED <<open, listed, closing, active>> /\ "start" \in wire[d]
        BY <2>1, Zenon DEF StartMessage, executorVars, callerVars
      <3>2. {d} \in SUBSET Callers /\ {d} \cap issued = {}
        BY <3>1, SMT DEF PhaseInv
      <3>3. ASSUME NEW refused \in SUBSET {d}, Dispatch({d}, refused) PROVE RouteInv'
        BY <3>1, <3>2, <3>3, RouteDispatches
      <3>4. CASE UNCHANGED <<issued, settled, sentTo>>
        BY <1>1, <3>1, <3>4
      <3> QED BY <2>1, <3>3, <3>4, Zenon DEF StartMessage, callerVars
    <2>2. ASSUME NEW ok \in BOOLEAN, WakeDone(ok) PROVE RouteInv'
      <3>1. UNCHANGED <<open, listed, closing, active>>
        BY <2>2, Zenon DEF WakeDone, executorVars
      <3>2. PICK C \in SUBSET Callers : C = waking \ settled
        BY <1>0 DEF TypeOK
      <3>3. C \cap issued = {}
        BY <3>2, SMT DEF PhaseInv
      <3>4. ASSUME NEW refused \in SUBSET (waking \ settled), Dispatch(waking \ settled, refused)
            PROVE  RouteInv'
        <4>1. refused \in SUBSET C /\ Dispatch(C, refused)
          BY <3>2, <3>4
        <4> QED BY <3>1, <3>3, <4>1, RouteDispatches
      <3>5. CASE Settle(waking, "error") /\ UNCHANGED <<issued, sentTo, calls>>
        BY <3>1, <3>5, SettledLeave, RouteFrame
      <3> QED BY <2>2, <3>4, <3>5, Zenon DEF WakeDone
    <2>3. ASSUME NEW d \in Callers, CancelMessage(d) \/ CallerCloses(d) PROVE RouteInv'
      <3>1. UNCHANGED <<issued, listed, closing, active, sentTo>>
        BY <2>3, Zenon DEF CancelMessage, CallerCloses, executorVars
      <3>2. open' \subseteq open /\ settled \subseteq settled'
        BY <2>3, SMT DEF CancelMessage, CallerCloses
      <3>3. InFlight' \subseteq InFlight
        BY <3>1, <3>2, SMT DEF InFlight
      <3> QED BY <3>1, <3>3, RouteFrame
    <2>4. ASSUME NEW s \in Sockets, Accept(s) PROVE RouteInv'
      <3>1. /\ session[s] = "dialling" /\ listed' = listed \cup {s}
            /\ UNCHANGED <<open, issued, settled, closing, active, sentTo>>
        BY <2>4, Zenon DEF Accept, callerVars
      <3>2. s \notin listed /\ active[s] = "unset" /\ \A c \in Callers : sentTo[c] # s
        BY <3>1, SMT DEF RoutingInv, Unaccepted, SessionInv
      <3>3. Routable' = Routable \cup {s}
        BY <3>1, <3>2, SMT DEF Routable
      <3>4. ASSUME NEW t \in listed PROVE t <= s
        <4>1. t \in Sockets /\ session[t] # "none"
          BY <1>0, SMT DEF TypeOK, RoutingInv, Unaccepted
        <4>2. ~(s < t)
          BY <3>1, <4>1, SMT DEF SessionInv
        <4> QED BY <4>1, <4>2, ConstantsAssumption, SMT DEF Sockets
      <3>5. ASSUME NEW c \in InFlight, NEW t \in listed' \ closing, sentTo[c] = t
            PROVE  \/ active[t] = "yes"
                   \/ /\ \A u \in listed' : active[u] # "yes"
                      /\ t \in Routable' /\ \A u \in Routable' : t <= u
        <4>1. t \in listed
          BY <1>0, <3>1, <3>2, <3>5, SMT DEF InFlight, TypeOK
        <4>2. CASE active[t] = "yes"
          BY <4>2
        <4>3. CASE active[t] # "yes"
          <5>1. /\ \A u \in listed : active[u] # "yes"
                /\ t \in Routable /\ \A u \in Routable : t <= u
            BY <3>5, <4>1, <4>3, Zenon DEF RouteInv
          <5>2. \A u \in listed' : active[u] # "yes"
            BY <3>1, <3>2, <5>1
          <5>3. \A u \in Routable' : t <= u
            BY <3>3, <3>4, <4>1, <5>1, Zenon
          <5> QED BY <3>3, <5>1, <5>2, <5>3
        <4> QED BY <4>2, <4>3
      <3>6. InFlight' = InFlight
        BY <3>1 DEF InFlight
      <3> QED BY <3>1, <3>5, <3>6, Zenon DEF RouteInv
    <2>5. ASSUME NEW s \in Sockets, Hello(s) PROVE RouteInv'
      <3>1. listed' = listed /\ closing' = closing \cup (listed \ {s}) /\ active' = Activate(s)
        BY <2>5, Zenon DEF Hello
      <3>2. active'[s] = "yes"
        BY <3>1, SMT DEF Activate
      <3>3. \A t \in listed' \ closing' : t = s
        BY <3>1
      <3> QED BY <3>2, <3>3, Zenon DEF RouteInv
    <2>6. ASSUME NEW s \in Sockets, HelloUnsupported(s) PROVE RouteInv'
      <3>1. closing' = closing \cup {s} /\ UNCHANGED <<open, issued, settled, listed, active, sentTo>>
        BY <2>6, Zenon DEF HelloUnsupported, callerVars
      <3>2. InFlight' \subseteq InFlight
        BY <3>1, SMT DEF InFlight
      <3> QED BY <3>1, <3>2, RouteFrame
    <2>7. ASSUME Revoke PROVE RouteInv'
      <3>1. closing' = closing \cup listed /\ UNCHANGED <<open, issued, listed, active, sentTo>> /\ Settle(open, Offline)
        BY <2>7, Zenon DEF Revoke
      <3> QED BY <3>1, SettledLeave, RouteFrame
    <2>8. ASSUME NEW s \in Sockets, NEW c \in Callers, NEW r \in {"result", "error"}, Result(s, c, r)
          PROVE  RouteInv'
      <3>1. UNCHANGED <<open, issued, listed, closing, active, sentTo>> /\ Settle(CallerSocket(c), r)
        BY <2>8, Zenon DEF Result, executorVars
      <3> QED BY <3>1, SettledLeave, RouteFrame
    <2>9. ASSUME NEW s \in Sockets, NEW how \in {"close", "error"}, SocketEnds(s, how) PROVE RouteInv'
      <3>1. listed' = listed \ {s} /\ UNCHANGED <<open, issued, settled, closing, active, sentTo>>
        BY <2>9, Zenon DEF SocketEnds, callerVars
      <3>2. InFlight' \subseteq InFlight
        BY <3>1, SMT DEF InFlight
      <3> QED BY <3>1, <3>2, RouteFrame
    <2>10. ASSUME NEW d \in drops, DropExecutor(d) PROVE RouteInv'
      <3>1. UNCHANGED <<open, issued, listed, closing, active, sentTo>> /\ Settle(DispatchedOnly, Offline)
        BY <2>10, Zenon DEF DropExecutor
      <3> QED BY <3>1, SettledLeave, RouteFrame
    <2>11. ASSUME AwakeLapses \/ RevokeRow PROVE RouteInv'
      BY <1>1, <2>11, Zenon DEF AwakeLapses, RevokeRow, executorVars, callerVars
    <2> QED BY <1>5, <2>1, <2>2, <2>3, <2>4, <2>5, <2>6, <2>7, <2>8, <2>9, <2>10, <2>11, Zenon DEF RelayNext
  <1> QED BY <1>2, <1>3, <1>4, <1>5 DEF Next

LEMMA RouteInit == Init => RouteInv
  BY SMT DEF Init, RouteInv, InFlight

LEMMA RouteInvariant ==
  ASSUME OldestListedFirst
  PROVE  SafetySpec => [](PromiseInv /\ PhaseInv /\ RoutingInv /\ SessionInv /\ RouteInv)
  <1>1. PromiseInv /\ PhaseInv /\ RoutingInv /\ SessionInv /\ RouteInv /\ [Next]_vars => RouteInv'
    BY RouteStep
  <1> QED BY <1>1, RouteInit, SessionInvariant, PTL DEF SafetySpec

\* An action that puts no call of a cancelled caller anywhere, and takes none
\* of the ways to stop it away.
LEMMA CancelFrame ==
  ASSUME CancelReachesMachine, cancelled' = cancelled,
         \A c \in cancelled, s \in Sockets :
           /\ Holds(s, c)' => Holds(s, c)
           /\ c \in cancels[s] => c \in cancels'[s]
           /\ s \in shutdowns => s \in shutdowns'
           /\ s \in listed' => s \in listed
  PROVE  CancelReachesMachine'
  BY SMT DEF CancelReachesMachine

\* A call on a session is one that was issued to it.
LEMMA HeldWasSent ==
  ASSUME PromiseInv, NEW c \in Callers, NEW s \in Sockets, Holds(s, c)
  PROVE  sentTo[c] = s /\ c \in issued /\ session[s] = "up"
  <1>1. sentTo[c] = s /\ session[s] = "up"
    BY SMT DEF Holds, PromiseInv, RunInv
  <1>2. s # NoSocket
    BY ConstantsAssumption, SMT DEF Sockets, NoSocket
  <1> QED BY <1>1, <1>2, SMT DEF PromiseInv, SendInv

LEMMA CancelArrives ==
  ASSUME PromiseInv, RoutingInv, SessionInv, RouteInv, OldestListedFirst, CancelReachesMachine,
         NEW c \in open, c \notin settled, CancelCaller(c),
         UNCHANGED <<listed, shutdowns, session, calls, running, sentTo>>
  PROVE  CancelReachesMachine'
  <1>0. TypeOK /\ c \in Callers
    BY DEF RoutingInv, TypeOK
  <1>1. /\ cancelled' = cancelled \cup {c}
        /\ cancels' = [s \in Sockets |->
             IF s = CancelTarget /\ s \notin closing /\ Reaches(s)
             THEN cancels[s] \cup {c} ELSE cancels[s]]
    BY DEF CancelCaller
  <1>2. ASSUME NEW d \in cancelled', NEW s \in Sockets, Holds(s, d)'
        PROVE  d \in cancels'[s] \/ s \in shutdowns' \/ s \notin listed'
    <2>1. Holds(s, d)
      BY <1>2 DEF Holds
    <2>2. CASE d \in cancelled
      <3>1. d \in cancels[s] \/ s \in shutdowns \/ s \notin listed
        BY <2>1, <2>2 DEF CancelReachesMachine
      <3>2. d \in cancels[s] => d \in cancels'[s]
        BY <1>1, SMT
      <3> QED BY <3>1, <3>2
    <2>3. CASE d = c /\ s \in listed \ closing
      <3>1. sentTo[c] = s /\ c \in InFlight /\ Reaches(s)
        BY <1>0, <2>1, <2>3, HeldWasSent DEF InFlight, Reaches
      <3>2. CancelTarget = s
        BY <2>3, <3>1, CancelFindsCall
      <3> QED BY <1>1, <2>3, <3>1, <3>2, Zenon
    <2>4. CASE d = c /\ s \in closing
      <3>1. session[s] = "up"
        BY <1>0, <2>1, <2>4, HeldWasSent
      <3> QED BY <2>4, <3>1, SMT DEF SessionInv
    <2>5. CASE s \notin listed
      BY <2>5
    <2> QED BY <1>1, <1>2, <2>2, <2>3, <2>4, <2>5
  <1> QED BY <1>2 DEF CancelReachesMachine

LEMMA CancelDispatches ==
  ASSUME PromiseInv, PhaseInv, CancelReachesMachine, NEW C \in SUBSET (open \ settled), C \cap issued = {},
         NEW refused \in SUBSET C, Dispatch(C, refused),
         UNCHANGED <<cancelled, listed, shutdowns, session, running, cancels>>
  PROVE  CancelReachesMachine'
  <1>0. TypeOK /\ C \in SUBSET Callers
    BY SMT DEF PromiseInv, TypeOK
  <1>1. PICK sent \in SUBSET C : DispatchSends(C, sent)
    BY <1>0, DispatchEffect
  <1>2. \A c \in cancelled : c \notin sent /\ c \in Callers
    BY <1>0, <1>1, SMT DEF PhaseInv, TypeOK
  <1>3. /\ sentTo' = [c \in Callers |-> IF c \in sent THEN ExecutorSocket ELSE sentTo[c]]
        /\ \A s \in Sockets : calls'[s] \subseteq calls[s] \cup (IF s = ExecutorSocket THEN sent ELSE {})
    BY <1>1, Zenon DEF DispatchSends
  <1>4. \A c \in cancelled, s \in Sockets : Holds(s, c)' => Holds(s, c)
    <2> HIDE DEF ExecutorSocket
    <2> QED BY <1>2, <1>3, SMT DEF Holds
  <1> QED BY <1>4, CancelFrame

LEMMA CliCancels ==
  ASSUME PromiseInv, SessionInv, CancelReachesMachine, CliNext
  PROVE  CancelReachesMachine'
  <1>0. TypeOK /\ cancelled \subseteq Callers
    BY DEF PromiseInv, TypeOK
  <1>1. cancelled' = cancelled /\ listed' = listed /\ sentTo' = sentTo
    BY CliLeavesCallers DEF callerVars, executorVars
  <1>2. ASSUME UNCHANGED <<cancels, shutdowns>>, \A c \in cancelled, s \in Sockets : Holds(s, c)' => Holds(s, c)
        PROVE  CancelReachesMachine'
    BY <1>1, <1>2, CancelFrame, Zenon
  <1>3. ASSUME NEW s \in Sockets, NEW p \in Processes, Dial(s, p) PROVE CancelReachesMachine'
    <2>1. session' = [session EXCEPT ![s] = "dialling"] /\ UNCHANGED <<cancels, shutdowns, calls, running>>
      BY <1>3, Zenon DEF Dial, linkVars
    <2>2. \A c \in cancelled, t \in Sockets : Holds(t, c)' => Holds(t, c)
      BY <1>0, <1>1, <2>1, SMT DEF Holds, TypeOK
    <2> QED BY <1>2, <2>1, <2>2
  <1>4. ASSUME NEW s \in Sockets, NEW clean \in BOOLEAN, SessionEnds(s, clean) PROVE CancelReachesMachine'
    <2>1. /\ session' = [session EXCEPT ![s] = "over"] /\ shutdowns' = shutdowns \ {s}
          /\ calls' = [calls EXCEPT ![s] = {}] /\ cancels' = [cancels EXCEPT ![s] = {}]
      BY <1>4, Zenon DEF SessionEnds
    <2>2. running' \subseteq running
      BY <1>4, SMT DEF SessionEnds
    <2>3. ASSUME NEW c \in cancelled, NEW t \in Sockets, Holds(t, c)'
          PROVE  c \in cancels'[t] \/ t \in shutdowns' \/ t \notin listed'
      <3>1. t # s /\ Holds(t, c)
        BY <1>0, <1>1, <2>1, <2>2, <2>3, SMT DEF Holds, TypeOK, Calls
      <3>2. c \in cancels[t] \/ t \in shutdowns \/ t \notin listed
        BY <3>1 DEF CancelReachesMachine
      <3> QED BY <1>0, <1>1, <2>1, <3>1, <3>2, SMT DEF TypeOK, Calls
    <2> QED BY <1>1, <2>3 DEF CancelReachesMachine
  <1>5. ASSUME NEW s \in Sockets, NEW c \in Callers, TakeCall(s, c) PROVE CancelReachesMachine'
    <2>1. /\ session[s] = "up" /\ c \in calls[s] /\ calls' = [calls EXCEPT ![s] = @ \ {c}]
          /\ running' = running \cup {c} /\ UNCHANGED <<cancels, shutdowns, session>>
      BY <1>5, Zenon DEF TakeCall
    <2>2. sentTo[c] = s
      BY <2>1, SMT DEF PromiseInv, RunInv
    <2>3. \A d \in cancelled, t \in Sockets : Holds(t, d)' => Holds(t, d)
      BY <1>0, <1>1, <2>1, <2>2, SMT DEF Holds, TypeOK, Calls
    <2> QED BY <1>2, <2>1, <2>3
  <1>6. ASSUME NEW s \in Sockets, NEW c \in Callers, TakeCancel(s, c) PROVE CancelReachesMachine'
    <2>1. /\ c \notin calls[s] /\ cancels' = [cancels EXCEPT ![s] = @ \ {c}]
          /\ UNCHANGED <<session, calls, shutdowns>>
      BY <1>6, Zenon DEF TakeCancel
    <2>2. running' \subseteq running /\ (c \in RunningWith(s) => c \notin running')
      <3>1. CASE c \in RunningWith(s)
        BY <1>6, <3>1, SMT DEF TakeCancel, Ends
      <3>2. CASE c \notin RunningWith(s)
        BY <1>6, <3>2, Zenon DEF TakeCancel
      <3> QED BY <3>1, <3>2
    <2>3. ASSUME NEW d \in cancelled, NEW t \in Sockets, Holds(t, d)'
          PROVE  d \in cancels'[t] \/ t \in shutdowns' \/ t \notin listed'
      <3>1. Holds(t, d)
        BY <1>1, <2>1, <2>2, <2>3, SMT DEF Holds
      <3>2. d \in cancels[t] \/ t \in shutdowns \/ t \notin listed
        BY <3>1 DEF CancelReachesMachine
      <3>3. ~(t = s /\ d = c)
        <4>1. SUFFICES ASSUME t = s, d = c PROVE FALSE
          OBVIOUS
        <4>2. c \in running' /\ sentTo[c] = s
          BY <1>1, <2>1, <2>3, <4>1, Zenon DEF Holds
        <4>3. c \in RunningWith(s)
          BY <2>2, <4>2 DEF RunningWith
        <4> QED BY <2>2, <4>2, <4>3
      <3> QED BY <1>0, <1>1, <2>1, <3>2, <3>3, SMT DEF TypeOK, Calls
    <2> QED BY <1>1, <2>3 DEF CancelReachesMachine
  <1>7. ASSUME NEW c \in Callers, CallReturns(c) PROVE CancelReachesMachine'
    <2>1. running' = running \ {c} /\ UNCHANGED <<cancels, shutdowns, calls, session>>
      BY <1>7, Zenon DEF CallReturns, Ends
    <2>2. \A d \in cancelled, t \in Sockets : Holds(t, d)' => Holds(t, d)
      BY <1>1, <2>1, SMT DEF Holds
    <2> QED BY <1>2, <2>1, <2>2
  <1> QED BY <1>3, <1>4, <1>5, <1>6, <1>7, Zenon DEF CliNext, TakeShutdown

CancelInvs == PromiseInv /\ PhaseInv /\ RoutingInv /\ SessionInv /\ RouteInv

LEMMA RelayCancels ==
  ASSUME CancelInvs, StayInv, OldestListedFirst, CancelReachesMachine, RelayNext
  PROVE  CancelReachesMachine'
  <1> USE DEF CancelInvs
  <1>0. TypeOK
    BY DEF RoutingInv
  <1>1. ASSUME UNCHANGED <<cancelled, session, calls, running, sentTo, cancels>>, shutdowns \subseteq shutdowns',
               listed' \subseteq listed
        PROVE  CancelReachesMachine'
    BY <1>1, CancelFrame, SMT DEF Holds
  <1>2. ASSUME NEW d \in Callers, StartMessage(d) PROVE CancelReachesMachine'
    <2>1. UNCHANGED <<listed, session, running>> /\ "start" \in wire[d]
      BY <1>2, Zenon DEF StartMessage, executorVars, cliVars
    <2>2. CASE UNCHANGED <<cancelled, sentTo, linkVars>>
      BY <1>1, <2>1, <2>2 DEF linkVars
    <2>3. ASSUME d \notin settled, NEW refused \in SUBSET {d}, Dispatch({d}, refused),
                 UNCHANGED <<cancelled, cancels, shutdowns>>
          PROVE  CancelReachesMachine'
      <3>1. {d} \in SUBSET (open \ settled) /\ {d} \cap issued = {}
        BY <2>1, <2>3, SMT DEF PhaseInv
      <3> QED BY <2>1, <2>3, <3>1, CancelDispatches
    <2> QED BY <1>2, <2>2, <2>3, Zenon DEF StartMessage, callerVars
  <1>3. ASSUME NEW ok \in BOOLEAN, WakeDone(ok) PROVE CancelReachesMachine'
    <2>1. UNCHANGED <<listed, session, running, cancelled, cancels, shutdowns>>
      BY <1>3, Zenon DEF WakeDone, executorVars, cliVars
    <2>2. PICK C \in SUBSET Callers : C = waking \ settled
      BY <1>0 DEF TypeOK
    <2>3. C \cap issued = {} /\ C \in SUBSET (open \ settled)
      BY <2>2, SMT DEF PhaseInv, StayInv
    <2>4. ASSUME NEW refused \in SUBSET (waking \ settled), Dispatch(waking \ settled, refused)
          PROVE  CancelReachesMachine'
      <3>1. refused \in SUBSET C /\ Dispatch(C, refused)
        BY <2>2, <2>4
      <3> QED BY <2>1, <2>3, <3>1, CancelDispatches
    <2>5. CASE UNCHANGED <<issued, sentTo, calls>>
      BY <1>1, <2>1, <2>5
    <2> QED BY <1>3, <2>4, <2>5, Zenon DEF WakeDone
  <1>4. ASSUME NEW c \in Callers, CancelMessage(c) \/ CallerCloses(c) PROVE CancelReachesMachine'
    <2>1. wire[c] # {} /\ UNCHANGED <<listed, shutdowns, session, calls, running, sentTo>>
      BY <1>4, SMT DEF CancelMessage, CallerCloses, executorVars, cliVars
    <2>2. c \in open
      BY <2>1 DEF PhaseInv
    <2>3. CASE c \in settled
      <3>1. UNCHANGED <<cancelled, cancels>>
        BY <1>4, <2>3, Zenon DEF CancelMessage, CallerCloses
      <3> QED BY <1>1, <2>1, <3>1
    <2>4. CASE c \notin settled
      <3>1. CancelCaller(c)
        BY <1>4, <2>4, Zenon DEF CancelMessage, CallerCloses
      <3> QED BY <2>1, <2>2, <2>4, <3>1, CancelArrives
    <2> QED BY <2>3, <2>4
  <1>5. ASSUME NEW s \in Sockets, Accept(s) PROVE CancelReachesMachine'
    <2>1. /\ session[s] = "dialling" /\ session' = [session EXCEPT ![s] = "up"] /\ listed' = listed \cup {s}
          /\ UNCHANGED <<cancelled, calls, running, sentTo, cancels, shutdowns>>
      BY <1>5, Zenon DEF Accept, callerVars
    <2>2. ASSUME NEW c \in cancelled, NEW t \in Sockets, Holds(t, c)'
          PROVE  c \in cancels[t] \/ t \in shutdowns \/ t \notin listed'
      <3>1. c \in Callers /\ sentTo[c] = t
        BY <1>0, <2>1, <2>2, SMT DEF Holds, PromiseInv, RunInv, TypeOK
      <3>2. t # s
        BY <2>1, <3>1, SMT DEF SessionInv
      <3>3. Holds(t, c)
        BY <1>0, <2>1, <2>2, <3>2, SMT DEF Holds, TypeOK
      <3> QED BY <2>1, <3>2, <3>3 DEF CancelReachesMachine
    <2> QED BY <2>1, <2>2 DEF CancelReachesMachine
  <1>6. ASSUME NEW s \in Sockets, Hello(s) \/ HelloUnsupported(s) PROVE CancelReachesMachine'
    <2>1. UNCHANGED <<cancelled, session, calls, running, sentTo, cancels, listed>>
      BY <1>6, Zenon DEF Hello, HelloUnsupported, callerVars, cliVars
    <2>2. shutdowns \subseteq shutdowns'
      BY <1>6, Zenon DEF Hello, HelloUnsupported
    <2> QED BY <1>1, <2>1, <2>2
  <1>7. ASSUME Revoke PROVE CancelReachesMachine'
    <2>1. UNCHANGED <<cancelled, session, calls, running, sentTo, cancels, listed>>
      BY <1>7, Zenon DEF Revoke, cliVars
    <2>2. shutdowns \subseteq shutdowns'
      BY <1>7, Zenon DEF Revoke
    <2> QED BY <1>1, <2>1, <2>2
  <1>8. ASSUME NEW s \in Sockets, NEW c \in Callers, NEW r \in {"result", "error"}, Result(s, c, r)
        PROVE  CancelReachesMachine'
    BY <1>1, <1>8, Zenon DEF Result, executorVars, cliVars
  <1>9. ASSUME NEW s \in Sockets, NEW how \in {"close", "error"}, SocketEnds(s, how) PROVE CancelReachesMachine'
    <2>1. listed' = listed \ {s} /\ UNCHANGED <<cancelled, session, calls, running, sentTo, cancels, shutdowns>>
      BY <1>9, Zenon DEF SocketEnds, callerVars, cliVars
    <2> QED BY <1>1, <2>1
  <1>10. ASSUME NEW d \in drops, DropExecutor(d) PROVE CancelReachesMachine'
    BY <1>1, <1>10, Zenon DEF DropExecutor, linkVars, cliVars
  <1>11. ASSUME AwakeLapses \/ RevokeRow PROVE CancelReachesMachine'
    BY <1>1, <1>11, Zenon DEF AwakeLapses, RevokeRow, executorVars, callerVars, linkVars, cliVars
  <1> QED BY <1>2, <1>3, <1>4, <1>5, <1>6, <1>7, <1>8, <1>9, <1>10, <1>11, Zenon DEF RelayNext

LEMMA CancelStep ==
  ASSUME CancelInvs, StayInv, OldestListedFirst, CancelReachesMachine, [Next]_vars
  PROVE  CancelReachesMachine'
  <1>1. ASSUME UNCHANGED <<executorVars, callerVars, linkVars, cliVars>> PROVE CancelReachesMachine'
    BY <1>1, CancelFrame DEF executorVars, callerVars, linkVars, cliVars, Holds
  <1>2. CASE UNCHANGED vars
    BY <1>1, <1>2 DEF vars
  <1>3. CASE WorkerNext
    <2>1. UNCHANGED <<executorVars, linkVars, cliVars, sentTo, cancelled>>
      BY <1>3, Zenon DEF WorkerNext, Call, Start, Deadline, Hear, TimeOut, OpenedTooLate, Abort, Vanish, Finish, callerVars
    <2> QED BY <2>1, CancelFrame DEF executorVars, linkVars, cliVars, Holds
  <1>4. CASE RelayNext
    BY <1>4, RelayCancels
  <1>5. CASE CliNext
    BY <1>5, CliCancels DEF CancelInvs
  <1> QED BY <1>2, <1>3, <1>4, <1>5 DEF Next

\* A cancel is sent once, to whichever socket is routed to at that moment
\* (sendCancel). Yet a live session that holds the call of a caller who stopped
\* listening has it behind the call, or is being ended: as long as the runtime
\* lists sockets in the order it accepted them, and no Worker vanishes while its
\* call is parked on a wake.
THEOREM CancelsArrive ==
  OldestListedFirst => (SafetySpec /\ [][WaitersStay]_vars => []CancelReachesMachine)
  <1> SUFFICES ASSUME OldestListedFirst
               PROVE  SafetySpec /\ [][WaitersStay]_vars => []CancelReachesMachine
    OBVIOUS
  <1>1. Init => CancelReachesMachine
    BY DEF Init, CancelReachesMachine
  <1>2. Init => LogInv
    BY LogInit
  <1>3. (PromiseInv /\ PhaseInv) /\ LogInv /\ [Next]_vars /\ [WaitersStay]_vars => LogInv'
    BY LogStep DEF PromiseInv
  <1>4. (PromiseInv /\ PhaseInv /\ RoutingInv /\ SessionInv /\ RouteInv) /\ LogInv /\ CancelReachesMachine
          /\ [Next]_vars => CancelReachesMachine'
    BY CancelStep DEF CancelInvs, LogInv
  <1>5. SafetySpec => [](PromiseInv /\ PhaseInv /\ RoutingInv /\ SessionInv /\ RouteInv)
    BY RouteInvariant
  <1> QED BY <1>1, <1>2, <1>3, <1>4, <1>5, PTL DEF SafetySpec

\* On a machine that does not sleep the second condition is met.
THEOREM LocalCancelsArrive ==
  ~Cloud /\ OldestListedFirst => (SafetySpec => []CancelReachesMachine)
  <1> SUFFICES ASSUME ~Cloud, OldestListedFirst PROVE SafetySpec => []CancelReachesMachine
    OBVIOUS
  <1>1. Init => LocalInv
    BY DEF Init, LocalInv
  <1>2. LocalInv /\ [Next]_vars => LocalInv' /\ [WaitersStay]_vars
    BY LocalStep
  <1>3. SafetySpec => [][WaitersStay]_vars
    BY <1>1, <1>2, PTL DEF SafetySpec
  <1> QED BY <1>3, CancelsArrive, PTL
================================================================================
