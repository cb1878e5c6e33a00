------------------------------ MODULE DeviceRelay ------------------------------
(***************************************************************************)
(* The device relay: one Durable Object per machine, which holds the       *)
(* outbound WebSocket the Exeora CLI dials and turns the tool and          *)
(* workspace calls of many Workers into requests over it                   *)
(* (apps/gateway/src/relay-do*.ts), together with the two ends it talks    *)
(* to: the Worker waiting for an answer (relay-client.ts) and the CLI's    *)
(* connection loop (crates/exeora-cli/src/connection.rs).                  *)
(*                                                                         *)
(* Every action is one event of one of the three: a frame delivered, a     *)
(* socket that ends, a timer, a promise that resolves.  The object runs an *)
(* event to its first wait on something other than its own storage (the    *)
(* runtime delivers no event while storage is being read or written), so   *)
(* the two waits that split a handler here are the one on the machine's    *)
(* wake (`waking`) and the one on D1 when a socket ends (`drops`).         *)
(*                                                                         *)
(* A WebSocket delivers in order.  Frames of different calls commute, so   *)
(* each direction is a set per kind of frame, and the guards keep the      *)
(* orders that matter: a cancel behind its call, everything behind the     *)
(* hello, a close behind what was sent before it.                          *)
(*                                                                         *)
(* Left out: approvals, terminals, the MCP catalogs, presence rows, the    *)
(* contents of calls and answers.                                          *)
(***************************************************************************)
EXTENDS Naturals, FiniteSets

CONSTANTS
  Callers,     \* the calls; each is a caller socket with its own request id
  ToolCalls,   \* those to a native or proxied MCP tool; the rest are workspace calls
  MaxSockets,  \* how often the machine dials the relay
  Processes,   \* the CLI processes that dial it, one socket at a time each
  Outdated,    \* the dials whose CLI may speak a version that is not supported
  Broken,      \* the dials whose socket can raise an error before its close
  ListOrder,   \* each socket's place in the runtime's list, which promises no order
  Cloud,       \* whether the device starts as a cloud machine, which sleeps
  Fragile,     \* calls whose Worker can vanish without a cancel
  None         \* no reply, no outcome

ASSUME ConstantsAssumption ==
  /\ ToolCalls \subseteq Callers
  /\ MaxSockets \in Nat
  /\ Outdated \subseteq 1 .. MaxSockets /\ Broken \subseteq 1 .. MaxSockets
  /\ ListOrder \in [1 .. MaxSockets -> Nat]
  /\ Cloud \in BOOLEAN
  /\ Fragile \subseteq Callers
  /\ None \notin {"result", "error", "offline", "timeout", "cancelled"}

Sockets == 1 .. MaxSockets
NoSocket == 0
Replies == {"result", "error", "offline"}
Outcomes == Replies \cup {"timeout", "cancelled"}

VARIABLES
  \* The object's executor side: what its socket list and attachments say.
  listed,     \* executor sockets the runtime lists
  active,     \* the attachment's `active`: "unset" until hello, "no" if replaced
  closing,    \* sockets the object has closed; sending on one throws
  failed,     \* sockets that raised an error and may still deliver a close
  drops,      \* ends of a last executor, waiting on the presence write
  cloud,      \* a cloud configuration is stored
  awake,      \* the machine is known to be up: now < awakeUntil
  revoked,    \* "no", "row" once D1 says so, "told" once the object was
  \* The object's caller side.
  open,       \* caller sockets the runtime lists
  settled,    \* the attachment's `settled`
  issued,     \* the attachment's `issuedAt` is set
  waking,     \* start handlers parked on ensureAwake
  reply,      \* what was sent to the caller, if anything
  logView,    \* what a tab on the Logs view shows of the call
  sentTo,     \* history: the socket the call went down
  cancelled,  \* history: the machine was told its caller had stopped listening
  \* The wire between the object and each CLI session, one set per frame kind.
  hellos, calls, cancels, shutdowns, results,
  \* The CLI: one session per socket, one in_flight map per process.
  session,    \* "none", "dialling" once the Worker let it through, "up", "over"
  dialer,     \* the process each session belongs to
  running,    \* in_flight, of every process: the calls being executed
  runs,       \* history: how often the machine took each call
  \* The Worker that made each call, and its wire to the object.
  worker,     \* "idle", "dialling", "waiting" or "done"
  outcome,    \* what the call returned to the rest of the gateway
  expired,    \* calls whose expiresAt has passed
  wire        \* frames to the object: "start", "cancel", "close"

executorVars == <<listed, active, closing, failed, drops, revoked>>
cloudVars == <<cloud, awake>>
callerVars == <<open, settled, issued, waking, reply, logView, sentTo, cancelled>>
linkVars == <<hellos, calls, cancels, shutdowns, results>>
cliVars == <<session, dialer, running, runs>>
workerVars == <<worker, outcome, expired, wire>>
vars == <<executorVars, cloudVars, callerVars, linkVars, cliVars, workerVars>>

----------------------------------------------------------------------------
(* Reading the socket list *)

\* sockets.find: the one listed first.
First(S) == CHOOSE s \in S : \A t \in S : ListOrder[s] <= ListOrder[t]

Routable == {s \in listed : active[s] # "no"}

\* The newest validated session, or, before any, the first not yet replaced.
ExecutorSocket ==
  LET greeted == {s \in listed : active[s] = "yes"}
  IN  CASE greeted # {}                    -> First(greeted)
        [] greeted = {} /\ Routable # {}   -> First(Routable)
        [] OTHER                           -> NoSocket

HasOtherExecutor(s) == Routable \ {s} # {}

NeedsWake == cloud /\ ~awake

\* A frame sent while the CLI has already gone is lost without an error.
Reaches(s) == session[s] = "up"

\* A reply sent to a Worker that has finished is lost the same way.
Listens(c) == worker[c] \in {"dialling", "waiting"}

\* Dispatched callers still owed an answer; an unlisted one cannot be found.
InFlight == (open \cap issued) \ settled

----------------------------------------------------------------------------
(* Answering callers *)

\* Mutant: failCallers without dispatchedOnly.
EveryCaller == open

DispatchedOnly == InFlight

\* Mutant: an answer the Worker cannot decode.
Unreachable == "unreachable"

Offline == "offline"

\* settleCaller, for a set of callers: once each, ending what the log shows.
Settle(C, r) ==
  LET fresh == C \ settled
  IN  /\ settled' = settled \cup C
      /\ reply' = [c \in Callers |-> IF c \in fresh /\ Listens(c) THEN r ELSE reply[c]]
      /\ logView' = [c \in Callers |->
           IF c \in fresh /\ logView[c] = "running" THEN "ended" ELSE logView[c]]

LogEnd(c) == logView' = [logView EXCEPT ![c] = IF @ = "running" THEN "ended" ELSE @]

\* Mutant: the cancel goes to the first socket listed, replaced or not.
FirstListed == IF listed = {} THEN NoSocket ELSE First(listed)

CancelTarget == ExecutorSocket

\* Mutant: a cancelled call is not shown ending.
CancelUnlogged(c) ==
  /\ cancelled' = cancelled \cup {c}
  /\ cancels' = [s \in Sockets |->
       IF s = CancelTarget /\ s \notin closing /\ Reaches(s)
       THEN cancels[s] \cup {c} ELSE cancels[s]]
  /\ UNCHANGED logView

\* cancelCaller: best effort, to whichever executor would be routed to now.
CancelCaller(c) ==
  /\ cancelled' = cancelled \cup {c}
  /\ cancels' = [s \in Sockets |->
       IF s = CancelTarget /\ s \notin closing /\ Reaches(s)
       THEN cancels[s] \cup {c} ELSE cancels[s]]
  /\ LogEnd(c)

(* The start handlers, run for every caller of C in one turn.  A call past  *)
(* its deadline, without an executor, or asking for what that executor did  *)
(* not announce is answered at once; capabilities only exist after a hello. *)
Dispatch(C, refused) ==
  LET e == ExecutorSocket
      fresh == C \ issued
      ready == IF e = NoSocket THEN {} ELSE (fresh \ expired) \ refused
      sent == IF e \in closing THEN {} ELSE ready
      unmet == fresh \ sent
  IN  /\ refused \subseteq fresh
      /\ e # NoSocket /\ active[e] = "unset" =>
           fresh \ ToolCalls \subseteq refused
      /\ issued' = issued \cup ready
      /\ settled' = settled \cup unmet
      /\ reply' = [c \in Callers |->
           IF c \in unmet /\ Listens(c)
           THEN IF c \in expired \/ (c \in refused /\ e # NoSocket)
                THEN "error" ELSE Offline
           ELSE reply[c]]
      /\ calls' = [s \in Sockets |-> IF s = e /\ Reaches(s) THEN calls[s] \cup sent ELSE calls[s]]
      /\ sentTo' = [c \in Callers |-> IF c \in sent THEN e ELSE sentTo[c]]
      /\ logView' = [c \in Callers |->
           IF c \in sent \cap ToolCalls THEN "running" ELSE logView[c]]

----------------------------------------------------------------------------
(* The Worker: callRelayTool, callRelayMcpTool, callRelayWorkspace *)

\* Dials the caller socket; the object lists it.
Call(c) ==
  /\ worker[c] = "idle"
  /\ worker' = [worker EXCEPT ![c] = "dialling"]
  /\ open' = open \cup {c}
  /\ UNCHANGED <<executorVars, cloudVars, linkVars, cliVars, outcome, expired, wire>>
  /\ UNCHANGED <<settled, issued, waking, reply, logView, sentTo, cancelled>>

\* The socket is open: the request goes down it.
Start(c) ==
  /\ worker[c] = "dialling"
  /\ worker' = [worker EXCEPT ![c] = "waiting"]
  /\ wire' = [wire EXCEPT ![c] = {"start"}]
  /\ UNCHANGED <<executorVars, cloudVars, callerVars, linkVars, cliVars, outcome, expired>>

\* expiresAt passes; nobody looks at it once the call is on its way.
Deadline(c) ==
  /\ c \notin expired
  /\ Listens(c) \/ "start" \in wire[c] \/ c \in waking
  /\ expired' = expired \cup {c}
  /\ UNCHANGED <<executorVars, cloudVars, callerVars, linkVars, cliVars>>
  /\ UNCHANGED <<worker, outcome, wire>>

\* finish: once, closing the socket behind whatever was sent on it.
Finish(c, o, frames) ==
  /\ worker' = [worker EXCEPT ![c] = "done"]
  /\ outcome' = [outcome EXCEPT ![c] = o]
  /\ wire' = [wire EXCEPT ![c] = frames]
  /\ reply' = [reply EXCEPT ![c] = None]
  /\ UNCHANGED <<executorVars, cloudVars, linkVars, cliVars, expired>>
  /\ UNCHANGED <<open, settled, issued, waking, logView, sentTo, cancelled>>

\* An answer that arrived is taken even when the deadline has passed.
Hear(c) ==
  /\ worker[c] = "waiting" /\ reply[c] # None
  /\ Finish(c, reply[c], wire[c] \cup {"close"})

\* Mutant: a Worker that times out leaves its socket as it is.
TimeOutSilently(c) ==
  /\ worker[c] = "waiting" /\ c \in expired
  /\ Finish(c, "timeout", wire[c])

TimeOut(c) ==
  /\ worker[c] = "waiting" /\ c \in expired
  /\ Finish(c, "timeout", wire[c] \cup {"cancel", "close"})

\* The deadline passed before the socket opened: it is closed unused, though
\* a workspace call is sent even then.
OpenedTooLate(c) ==
  /\ c \in ToolCalls /\ worker[c] = "dialling" /\ c \in expired
  /\ Finish(c, "timeout", {"close"})

\* The client hung up, perhaps before the request was sent.
Abort(c) == Listens(c) /\ Finish(c, "cancelled", wire[c] \cup {"cancel", "close"})

\* The Worker, or its link to the object, is gone: nothing in flight arrives.
Vanish(c) == c \in Fragile /\ Listens(c) /\ Finish(c, "offline", {"close"})

----------------------------------------------------------------------------
(* The object, hearing from callers: handleCallerMessage, webSocketClose *)

StartMessage(c) ==
  /\ "start" \in wire[c]
  /\ wire' = [wire EXCEPT ![c] = @ \ {"start"}]
  /\ \/ /\ c \in settled
        /\ UNCHANGED <<callerVars, linkVars>>
     \/ /\ c \notin settled
        /\ NeedsWake
        /\ waking' = waking \cup {c}
        /\ UNCHANGED <<open, settled, issued, reply, logView, sentTo, cancelled, linkVars>>
     \/ /\ c \notin settled
        /\ ~NeedsWake
        /\ \E refused \in SUBSET {c} : Dispatch({c}, refused)
        /\ UNCHANGED <<open, waking, cancelled, hellos, cancels, shutdowns, results>>
  /\ UNCHANGED <<executorVars, cloudVars, cliVars, worker, outcome, expired>>

\* The one wake in flight resolves; every caller that shared it continues,
\* re-reading its own attachment first.
WakeDone(ok) ==
  /\ waking # {}
  /\ waking' = {}
  /\ awake' = (ok \/ awake)
  /\ \/ /\ ok
        /\ \E refused \in SUBSET (waking \ settled) : Dispatch(waking \ settled, refused)
     \/ /\ ~ok
        /\ Settle(waking, "error")
        /\ UNCHANGED <<issued, sentTo, calls>>
  /\ UNCHANGED <<executorVars, cliVars, workerVars, cloud>>
  /\ UNCHANGED <<open, cancelled, hellos, cancels, shutdowns, results>>

\* The grace after a wake or a result frame runs out.
AwakeLapses ==
  /\ awake
  /\ awake' = FALSE
  /\ UNCHANGED <<executorVars, callerVars, linkVars, cliVars, workerVars, cloud>>

CancelMessage(c) ==
  /\ "cancel" \in wire[c] /\ "start" \notin wire[c]
  /\ wire' = [wire EXCEPT ![c] = @ \ {"cancel"}]
  /\ IF c \in settled
     THEN UNCHANGED <<settled, logView, cancelled, cancels>>
     ELSE settled' = settled \cup {c} /\ CancelCaller(c)
  /\ UNCHANGED <<open, issued, waking, reply, sentTo, hellos, calls, shutdowns, results>>
  /\ UNCHANGED <<executorVars, cloudVars, cliVars, worker, outcome, expired>>

CallerCloses(c) ==
  /\ wire[c] = {"close"}
  /\ wire' = [wire EXCEPT ![c] = {}]
  /\ open' = open \ {c}
  /\ IF c \in settled THEN UNCHANGED <<logView, cancelled, cancels>> ELSE CancelCaller(c)
  /\ UNCHANGED <<settled, issued, waking, reply, sentTo, hellos, calls, shutdowns, results>>
  /\ UNCHANGED <<executorVars, cloudVars, cliVars, worker, outcome, expired>>

----------------------------------------------------------------------------
(* The object, hearing from executors *)

\* The Worker reads the device row and lets a process's next socket through.
Dial(s, p) ==
  /\ revoked = "no"
  /\ session[s] = "none"
  /\ \A t \in Sockets : t < s => session[t] \in {"up", "over"}
  /\ \A t \in Sockets : session[t] = "up" => dialer[t] # p
  /\ session' = [session EXCEPT ![s] = "dialling"]
  /\ dialer' = [dialer EXCEPT ![s] = p]
  /\ UNCHANGED <<executorVars, cloudVars, callerVars, linkVars, workerVars, running, runs>>

\* fetch: the object accepts it, and asks nobody about the row again.
Accept(s) ==
  /\ session[s] = "dialling"
  /\ session' = [session EXCEPT ![s] = "up"]
  /\ listed' = listed \cup {s}
  /\ hellos' = hellos \cup {s}
  /\ UNCHANGED <<active, closing, failed, drops, revoked, cloudVars, callerVars, workerVars>>
  /\ UNCHANGED <<calls, cancels, shutdowns, results, dialer, running, runs>>

\* Mutant: the sockets a hello supersedes stay routable.
ActivateOnly(s) == [active EXCEPT ![s] = "yes"]

Activate(s) ==
  [t \in Sockets |-> CASE t = s           -> "yes"
                       [] t \in listed \ {s} -> "no"
                       [] OTHER            -> active[t]]

(* handleHello for a supported version, with replaceOtherExecutors: every   *)
(* other socket the runtime still lists is deactivated, told to shut down   *)
(* and closed, and if there was one, every dispatched caller is answered.   *)
Hello(s) ==
  /\ s \in hellos /\ s \in listed
  /\ hellos' = hellos \ {s}
  /\ LET others == listed \ {s}
     IN  /\ active' = Activate(s)
         /\ closing' = closing \cup others
         /\ shutdowns' = shutdowns \cup {t \in others \ closing : Reaches(t)}
         /\ IF others = {} THEN UNCHANGED <<settled, reply, logView>>
                           ELSE Settle(DispatchedOnly, Offline)
  /\ UNCHANGED <<listed, failed, drops, revoked, cloudVars, cliVars, workerVars>>
  /\ UNCHANGED <<open, issued, waking, sentTo, cancelled, calls, cancels, results>>

\* handleHello for a version outside the range: nothing else is touched.
HelloUnsupported(s) ==
  /\ s \in hellos \cap Outdated /\ s \in listed
  /\ hellos' = hellos \ {s}
  /\ closing' = closing \cup {s}
  /\ shutdowns' = shutdowns \cup {t \in {s} \ closing : Reaches(t)}
  /\ UNCHANGED <<listed, active, failed, drops, revoked, cloudVars, callerVars, cliVars>>
  /\ UNCHANGED <<workerVars, calls, cancels, results>>

\* Mutant: a result answers whoever is waiting.
AnyCaller(c) == IF c \in open THEN InFlight ELSE {}

\* The caller a request id names; a settled one is found by nobody.
CallerSocket(c) == {c} \cap (open \ settled)

\* tool.result, mcp.result, workspace.result, or one that does not decode.  A
\* readable one from a CLI that holds itself awake extends the grace.
Result(s, c, r) ==
  /\ c \in results[s] /\ s \in listed /\ s \notin hellos
  /\ results' = [results EXCEPT ![s] = @ \ {c}]
  /\ Settle(CallerSocket(c), r)
  /\ awake' = (awake \/ (cloud /\ r = "result"))
  /\ UNCHANGED <<executorVars, cliVars, workerVars, cloud, open, issued, waking, sentTo>>
  /\ UNCHANGED <<cancelled, hellos, calls, cancels, shutdowns>>

(* webSocketClose and webSocketError: the handler decides whether the       *)
(* machine is still here, and if not, waits for the presence write before   *)
(* it fails the calls.  An error may or may not be followed by a close.     *)
SocketEnds(s, how) ==
  /\ s \in listed \/ (s \in failed /\ how = "close")
  /\ how = "error" => s \in Broken
  /\ listed' = listed \ {s}
  /\ failed' = IF how = "error" THEN failed \cup {s} ELSE failed \ {s}
  /\ drops' = IF HasOtherExecutor(s) THEN drops ELSE drops \cup {<<s, how>>}
  /\ hellos' = hellos \ {s}
  /\ results' = [results EXCEPT ![s] = {}]
  /\ UNCHANGED <<active, closing, revoked, cloudVars, callerVars, cliVars, workerVars>>
  /\ UNCHANGED <<calls, cancels, shutdowns>>

\* dropExecutor after the presence write: failCallers with dispatchedOnly.
DropExecutor(d) ==
  /\ d \in drops
  /\ drops' = drops \ {d}
  /\ Settle(DispatchedOnly, Offline)
  /\ UNCHANGED <<listed, active, closing, failed, revoked, cloudVars, linkVars, cliVars>>
  /\ UNCHANGED <<workerVars, open, issued, waking, sentTo, cancelled>>

\* revokeDevice: the row first, then the object.
RevokeRow ==
  /\ revoked = "no"
  /\ revoked' = "row"
  /\ UNCHANGED <<listed, active, closing, failed, drops, cloudVars, callerVars, linkVars>>
  /\ UNCHANGED <<cliVars, workerVars>>

\* revoke: failCallers without dispatchedOnly, and the cloud config forgotten.
Revoke ==
  /\ revoked = "row"
  /\ revoked' = "told"
  /\ closing' = closing \cup listed
  /\ shutdowns' = shutdowns \cup {t \in listed \ closing : Reaches(t)}
  /\ Settle(open, Offline)
  /\ cloud' = FALSE /\ awake' = FALSE
  /\ UNCHANGED <<listed, active, failed, drops, cliVars, workerVars>>
  /\ UNCHANGED <<open, issued, waking, sentTo, cancelled, hellos, calls, cancels, results>>

----------------------------------------------------------------------------
(* The CLI's connection loop: connect_once *)

\* Mutant: a process keeps no record of what it is running.
NoneRunning(s) == {}

\* The calls in flight in the process that holds session s.
RunningWith(s) == {c \in running : dialer[sentTo[c]] = dialer[s]}

\* spawn_tool_call, spawn_mcp_call, spawn_workspace_call.
TakeCall(s, c) ==
  /\ session[s] = "up" /\ c \in calls[s]
  /\ calls' = [calls EXCEPT ![s] = @ \ {c}]
  /\ running' = running \cup {c}
  /\ runs' = [runs EXCEPT ![c] = @ + 1]
  /\ UNCHANGED <<executorVars, cloudVars, callerVars, workerVars, session, dialer>>
  /\ UNCHANGED <<hellos, cancels, shutdowns, results>>

\* A call leaves in_flight, and its result the session it came in on, if that
\* session still has a socket.
Ends(c) ==
  /\ running' = running \ {c}
  /\ results' = [s \in Sockets |->
       IF s = sentTo[c] /\ session[s] = "up" /\ s \in listed
       THEN results[s] \cup {c} ELSE results[s]]

CallReturns(c) ==
  /\ c \in running
  /\ Ends(c)
  /\ UNCHANGED <<executorVars, cloudVars, callerVars, workerVars, session, dialer, runs>>
  /\ UNCHANGED <<hellos, calls, cancels, shutdowns>>

\* A cancel ends the call if the process has it in flight, as CANCELLED.
TakeCancel(s, c) ==
  /\ session[s] = "up" /\ c \in cancels[s] /\ c \notin calls[s]
  /\ cancels' = [cancels EXCEPT ![s] = @ \ {c}]
  /\ IF c \in RunningWith(s) THEN Ends(c) ELSE UNCHANGED <<running, results>>
  /\ UNCHANGED <<executorVars, cloudVars, callerVars, workerVars, session, dialer, runs>>
  /\ UNCHANGED <<hellos, calls, shutdowns>>

(* The session ends.  By a close, a shutdown frame, a resume or a signal,   *)
(* cancel_all empties in_flight; by an error on the socket, connect_once    *)
(* returns through `?` and in_flight keeps what it had.                     *)
SessionEnds(s, clean) ==
  /\ session[s] = "up"
  /\ session' = [session EXCEPT ![s] = "over"]
  /\ running' = IF clean THEN running \ RunningWith(s) ELSE running
  /\ shutdowns' = shutdowns \ {s}
  /\ calls' = [calls EXCEPT ![s] = {}]
  /\ cancels' = [cancels EXCEPT ![s] = {}]
  /\ UNCHANGED <<executorVars, cloudVars, callerVars, workerVars, hellos, results>>
  /\ UNCHANGED <<dialer, runs>>

TakeShutdown(s) == s \in shutdowns /\ SessionEnds(s, TRUE)

\* The heartbeat the relay no longer answers, or an error on the next write.
LinkLost(s) == s \notin listed /\ SessionEnds(s, TRUE)

----------------------------------------------------------------------------
Init ==
  /\ listed = {} /\ closing = {} /\ failed = {} /\ drops = {}
  /\ active = [s \in Sockets |-> "unset"]
  /\ cloud = Cloud /\ awake = FALSE /\ revoked = "no"
  /\ open = {} /\ settled = {} /\ issued = {} /\ waking = {} /\ cancelled = {}
  /\ reply = [c \in Callers |-> None]
  /\ logView = [c \in Callers |-> "none"]
  /\ sentTo = [c \in Callers |-> NoSocket]
  /\ hellos = {} /\ shutdowns = {}
  /\ calls = [s \in Sockets |-> {}]
  /\ cancels = [s \in Sockets |-> {}]
  /\ results = [s \in Sockets |-> {}]
  /\ session = [s \in Sockets |-> "none"]
  /\ dialer = [s \in Sockets |-> None]
  /\ running = {}
  /\ runs = [c \in Callers |-> 0]
  /\ worker = [c \in Callers |-> "idle"]
  /\ outcome = [c \in Callers |-> None]
  /\ expired = {}
  /\ wire = [c \in Callers |-> {}]

WorkerNext ==
  \E c \in Callers :
    \/ Call(c) \/ Start(c) \/ OpenedTooLate(c)
    \/ Deadline(c) \/ Hear(c) \/ TimeOut(c) \/ Abort(c) \/ Vanish(c)

RelayNext ==
  \/ \E c \in Callers : StartMessage(c) \/ CancelMessage(c) \/ CallerCloses(c)
  \/ \E ok \in BOOLEAN : WakeDone(ok)
  \/ AwakeLapses
  \/ \E s \in Sockets : Accept(s) \/ Hello(s) \/ HelloUnsupported(s)
  \/ \E s \in Sockets, c \in Callers, r \in {"result", "error"} : Result(s, c, r)
  \/ \E s \in Sockets, how \in {"close", "error"} : SocketEnds(s, how)
  \/ \E d \in drops : DropExecutor(d)
  \/ RevokeRow
  \/ Revoke

CliNext ==
  \/ \E s \in Sockets, p \in Processes : Dial(s, p)
  \/ \E s \in Sockets : TakeShutdown(s)
  \/ \E s \in Sockets, clean \in BOOLEAN : SessionEnds(s, clean)
  \/ \E s \in Sockets, c \in Callers : TakeCall(s, c) \/ TakeCancel(s, c)
  \/ \E c \in Callers : CallReturns(c)

Next == WorkerNext \/ RelayNext \/ CliNext

SafetySpec == Init /\ [][Next]_vars

(* Timers fire, frames that were sent are delivered or their socket ends,   *)
(* and a promise on the wake resolves within its deadline.  Nothing says    *)
(* that a person dials again, that a call ever returns, or that a Worker    *)
(* hears its answer before its deadline.                                    *)
Fairness ==
  /\ \A c \in Callers :
       /\ WF_vars(Deadline(c)) /\ WF_vars(TimeOut(c))
       /\ WF_vars(StartMessage(c)) /\ WF_vars(CancelMessage(c)) /\ WF_vars(CallerCloses(c))
  /\ WF_vars(\E ok \in BOOLEAN : WakeDone(ok))
  /\ \A s \in Sockets, c \in Callers : WF_vars(TakeCall(s, c)) /\ WF_vars(TakeCancel(s, c))
  /\ \A s \in Sockets : WF_vars(TakeShutdown(s)) /\ WF_vars(LinkLost(s))

Spec == SafetySpec /\ Fairness
----------------------------------------------------------------------------
(* Types *)

Calls == [Sockets -> SUBSET Callers]

\* What each piece of relay, CLI and Worker state can hold.
TypeOK ==
  /\ listed \subseteq Sockets /\ closing \subseteq Sockets /\ failed \subseteq Sockets
  /\ active \in [Sockets -> {"unset", "yes", "no"}]
  /\ drops \subseteq Sockets \X {"close", "error"}
  /\ cloud \in BOOLEAN /\ awake \in BOOLEAN /\ revoked \in {"no", "row", "told"}
  /\ open \subseteq Callers /\ settled \subseteq Callers /\ issued \subseteq Callers
  /\ waking \subseteq Callers /\ cancelled \subseteq Callers
  /\ reply \in [Callers -> Replies \cup {None}]
  /\ logView \in [Callers -> {"none", "running", "ended"}]
  /\ sentTo \in [Callers -> Sockets \cup {NoSocket}]
  /\ hellos \subseteq Sockets /\ shutdowns \subseteq Sockets
  /\ calls \in Calls /\ cancels \in Calls /\ results \in Calls
  /\ session \in [Sockets -> {"none", "dialling", "up", "over"}]
  /\ dialer \in [Sockets -> Processes \cup {None}]
  /\ running \subseteq Callers
  /\ runs \in [Callers -> Nat]
  /\ worker \in [Callers -> {"idle", "dialling", "waiting", "done"}]
  /\ outcome \in [Callers -> Outcomes \cup {None}]
  /\ expired \subseteq Callers
  /\ wire \in [Callers -> SUBSET {"start", "cancel", "close"}]

(* Safety *)

\* However reconnects, late hellos and late closes interleave, at most one
\* listed socket is the validated executor, so routing never has two answers.
OneRoutableExecutor ==
  \A s, t \in listed : active[s] = "yes" /\ active[t] = "yes" => s = t

\* The Logs view shows a tool call running exactly while its caller is listed,
\* dispatched and unanswered: every line that starts is ended, on every path.
LogShowsWhatRuns ==
  \A c \in Callers :
    logView[c] = "running" <=> c \in ToolCalls \cap InFlight

\* The call is with a live session: on its way down, or being executed.
Holds(s, c) == session[s] = "up" /\ (c \in calls[s] \/ (c \in running /\ sentTo[c] = s))

\* A caller that stopped listening has its call stopped: a live session that
\* holds the call has the cancel behind it, or is itself being ended.
CancelReachesMachine ==
  \A c \in cancelled, s \in Sockets :
    Holds(s, c) => c \in cancels[s] \/ s \in shutdowns \/ s \notin listed

\* What the gateway is told is what happened: the call ended "result" only if
\* the machine took it, and no call is taken twice (see CallPromise).
Promise == INSTANCE CallPromise
  WITH asked <- {c \in Callers : worker[c] # "idle"},
       sent <- {c \in Callers : sentTo[c] # NoSocket}

ImplementsPromise == Promise!Spec

(* Action properties *)

\* A caller parked on a wake loses nothing to a reconnect: only its own cancel,
\* the wake's outcome or a revocation ends it (failCallers, dispatchedOnly).
WaitingOutlivesReconnect ==
  [][\A c \in (waking \cap waking') \ settled :
       c \in settled' => c \in cancelled' \/ revoked' = "told"]_vars

(* Liveness *)

\* Every dispatched caller is answered, cancelled or gone in the end, whatever
\* the machine does.
EveryCallLeaves == \A c \in Callers : c \in InFlight ~> c \notin InFlight

\* Work of a session that left connect_once through `?`: in_flight keeps it, and
\* only its own end or a cancel over the process's next session takes it out.
Abandoned(c) == c \in running /\ session[sentTo[c]] = "over"

\* A call whose caller stopped listening is stopped: it is on its way down no
\* socket and no process has it in flight, whichever sessions came and went.
\* The one exception is named: work that an error on its socket left behind,
\* which cancel_all never saw.
CancelledCallStops ==
  \A c \in Callers :
    c \in cancelled ~> \/ c \notin running /\ \A s \in Sockets : c \notin calls[s]
                       \/ Abandoned(c)
================================================================================
