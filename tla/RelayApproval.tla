----------------------------- MODULE RelayApproval -----------------------------
(***************************************************************************)
(* Questions to a person: a tool call that a project wants confirmed asks  *)
(* through the device relay, which shows the question on the dashboard and *)
(* on the machine's terminal when it has one, and passes the first answer  *)
(* back (relay-client.ts requestRelayApproval, relay-do*.ts, connection.rs *)
(* handle_approval).                                                       *)
(*                                                                         *)
(* The executor sockets are those of DeviceRelay, reduced to what a        *)
(* question sees of them: which one executorSocket returns, and whether a  *)
(* frame can still travel on it.  As there, a handler is one step up to    *)
(* its wait on the machine's wake or on the presence write.                *)
(***************************************************************************)
EXTENDS Naturals, FiniteSets

CONSTANTS
  Questions,   \* each a caller socket with its own id
  MaxSockets,  \* how often the machine dials the relay
  Terminals,   \* the dials of a CLI that can prompt at a terminal
  Cloud,       \* whether the machine is one that sleeps
  Broken,      \* sockets that may fail before they close
  Fragile,     \* questions whose Worker can vanish without a cancel
  None         \* no reply, no outcome

ASSUME ConstantsAssumption ==
  /\ MaxSockets \in Nat
  /\ Terminals \subseteq 1 .. MaxSockets
  /\ Cloud \in BOOLEAN
  /\ Broken \subseteq 1 .. MaxSockets
  /\ Fragile \subseteq Questions
  /\ None \notin {"approved", "declined", "unanswered", "error"}

Sockets == 1 .. MaxSockets
NoSocket == 0
Answers == {"approved", "declined"}
Outcomes == Answers \cup {"unanswered", "error"}

VARIABLES
  \* The object.
  link,      \* each executor socket: not yet dialled, its attachment's `active`, ended
  hellos,    \* hello frames on their way
  closing,   \* sockets the object has closed
  drops,     \* ends of a last executor, waiting on the presence write
  revoked,   \* the device was revoked
  awake,     \* the machine is known to be up
  open,      \* approval sockets the runtime lists
  settled,   \* the attachment's `settled`
  viewed,    \* the attachment's `view` is set
  waking,    \* start handlers parked on ensureAwake
  reply,     \* what was sent to the Worker
  \* The CLI.
  asks,      \* approval.request frames on their way, by socket
  prompts,   \* questions at the terminal, by the session that brought them
  answers,   \* approval.answer frames on their way, by socket
  \* The Worker.
  asker,     \* "idle", "dialling", "waiting" or "done"
  outcome,   \* what requestRelayApproval returned
  expired,   \* questions whose expiresAt has passed
  wire,      \* frames to the object: "start", "cancel", "close"
  \* History.
  said,      \* what people answered, wherever they did
  verdict,   \* the answer settleApproval accepted
  told       \* the answer a dashboard was told counted

executorVars == <<link, hellos, closing, drops, revoked>>
questionVars == <<open, settled, viewed, waking, reply>>
objectVars == <<executorVars, awake, questionVars>>
cliVars == <<asks, prompts, answers>>
workerVars == <<asker, outcome, expired, wire>>
history == <<said, verdict, told>>
vars == <<objectVars, cliVars, workerVars, history>>

----------------------------------------------------------------------------
Listed == {s \in Sockets : link[s] \in {"undefined", "true", "false"}}
Routable == {s \in Listed : link[s] # "false"}

\* The session that said hello, or, before any, one that was not replaced.
Executors ==
  LET greeted == {s \in Listed : link[s] = "true"}
  IN  IF greeted # {} THEN greeted ELSE Routable

\* Whether the terminal at the other end of a socket is asked: the hello that
\* announced it was heard, and the object can still send.
Prompts(s) == s \in Terminals /\ link[s] = "true" /\ s \notin closing

Listens(q) == asker[q] \in {"dialling", "waiting"}

\* Mutant: an answer is accepted for a question that has had one.
AnyCaller(q) == {q} \cap open

CallerSocket(q) == {q} \cap (open \ settled)

\* listApprovals: what the dashboard shows.
Shown == (open \cap viewed) \ settled

\* Mutant: the object has a word of its own for a question nobody answered.
TimedOut == "expired"

\* What the object settles a question with that nobody answered.
Unanswered == "unanswered"

Settle(Q, r) ==
  /\ settled' = settled \cup Q
  /\ reply' = [q \in Questions |-> IF q \in Q \ settled /\ Listens(q) THEN r ELSE reply[q]]

\* Mutant: failCallers without dispatchedOnly.
EveryQuestion == open

\* failCallers with dispatchedOnly.
Asked == Shown

----------------------------------------------------------------------------
(* The Worker: requestRelayApproval *)

Dial(q) ==
  /\ asker[q] = "idle"
  /\ asker' = [asker EXCEPT ![q] = "dialling"]
  /\ open' = open \cup {q}
  /\ UNCHANGED <<executorVars, awake, settled, viewed, waking, reply>>
  /\ UNCHANGED <<cliVars, outcome, expired, wire, history>>

Start(q) ==
  /\ asker[q] = "dialling" /\ q \notin expired
  /\ asker' = [asker EXCEPT ![q] = "waiting"]
  /\ wire' = [wire EXCEPT ![q] = {"start"}]
  /\ UNCHANGED <<objectVars, cliVars, outcome, expired, history>>

Deadline(q) ==
  /\ q \notin expired /\ asker[q] # "idle"
  /\ expired' = expired \cup {q}
  /\ UNCHANGED <<objectVars, cliVars, asker, outcome, wire, history>>

Finish(q, o, frames) ==
  /\ asker' = [asker EXCEPT ![q] = "done"]
  /\ outcome' = [outcome EXCEPT ![q] = o]
  /\ wire' = [wire EXCEPT ![q] = frames]
  /\ UNCHANGED <<objectVars, cliVars, expired, history>>

\* An answer that arrived is taken even past the deadline.
Hear(q) ==
  /\ asker[q] = "waiting" /\ reply[q] # None
  /\ Finish(q, reply[q], wire[q] \cup {"close"})

\* Mutant: the deadline ends the wait and leaves the socket as it is.
TimeOutSilently(q) ==
  /\ asker[q] = "waiting" /\ q \in expired
  /\ Finish(q, "unanswered", wire[q])

TimeOut(q) ==
  /\ asker[q] = "waiting" /\ q \in expired
  /\ Finish(q, "unanswered", wire[q] \cup {"cancel", "close"})

OpenedTooLate(q) ==
  /\ asker[q] = "dialling" /\ q \in expired
  /\ Finish(q, "unanswered", {"close"})

\* The socket's own close or error event, with what was on it lost.
Vanish(q, o) ==
  /\ q \in Fragile /\ asker[q] = "waiting"
  /\ Finish(q, o, {"close"})

----------------------------------------------------------------------------
(* The object, hearing from Workers *)

\* Mutant: a question is only kept where a terminal is asked as well.
KeptIfPrompted(s, Q) == IF s \in Terminals THEN Q ELSE {}

Kept(s, Q) == Q

(* handleApprovalCallerMessage, for every question of Q in one turn.  The   *)
(* terminal is asked only after a hello that announced one, and a send      *)
(* that fails is left to the dashboard.                                     *)
Question(Q) ==
  LET fresh == Q \ viewed
      live == fresh \ expired
  IN  \/ /\ Executors = {}
         /\ settled' = settled \cup fresh
         /\ reply' = [q \in Questions |->
              IF q \in fresh /\ Listens(q)
              THEN IF q \in expired THEN Unanswered ELSE "error"
              ELSE reply[q]]
         /\ UNCHANGED <<viewed, asks>>
      \/ \E s \in Executors :
           /\ settled' = settled \cup (fresh \cap expired)
           /\ reply' = [q \in Questions |->
                IF q \in fresh \cap expired /\ Listens(q) THEN Unanswered ELSE reply[q]]
           /\ viewed' = viewed \cup Kept(s, live)
           /\ asks' = IF Prompts(s)
                      THEN [asks EXCEPT ![s] = @ \cup live] ELSE asks

NeedsWake == Cloud /\ ~revoked /\ ~awake

StartMessage(q) ==
  /\ "start" \in wire[q]
  /\ wire' = [wire EXCEPT ![q] = @ \ {"start"}]
  /\ \/ q \in settled /\ UNCHANGED <<settled, reply, viewed, asks, waking>>
     \/ /\ q \notin settled /\ NeedsWake
        /\ waking' = waking \cup {q}
        /\ UNCHANGED <<settled, reply, viewed, asks>>
     \/ q \notin settled /\ ~NeedsWake /\ Question({q}) /\ UNCHANGED waking
  /\ UNCHANGED <<executorVars, awake, open, prompts, answers>>
  /\ UNCHANGED <<asker, outcome, expired, history>>

WakeDone(ok) ==
  /\ waking # {}
  /\ waking' = {}
  /\ awake' = (ok \/ awake)
  /\ \/ ok /\ Question(waking \ settled)
     \/ ~ok /\ Settle(waking, "error") /\ UNCHANGED <<viewed, asks>>
  /\ UNCHANGED <<executorVars, open, prompts, answers, workerVars, history>>

AwakeLapses ==
  /\ awake
  /\ awake' = FALSE
  /\ UNCHANGED <<executorVars, questionVars, cliVars, workerVars, history>>

\* resolveTerminalApproval sends a frame here that the CLI does nothing with.
CancelMessage(q) ==
  /\ "cancel" \in wire[q] /\ "start" \notin wire[q]
  /\ wire' = [wire EXCEPT ![q] = @ \ {"cancel"}]
  /\ settled' = settled \cup {q}
  /\ UNCHANGED <<executorVars, awake, open, viewed, waking, reply>>
  /\ UNCHANGED <<cliVars, asker, outcome, expired, history>>

CallerCloses(q) ==
  /\ wire[q] = {"close"}
  /\ wire' = [wire EXCEPT ![q] = {}]
  /\ open' = open \ {q}
  /\ UNCHANGED <<executorVars, awake, settled, viewed, waking, reply>>
  /\ UNCHANGED <<cliVars, asker, outcome, expired, history>>

----------------------------------------------------------------------------
(* Answers: settleApproval, from the terminal and from the dashboard *)

\* Whether an answer counts: the question is known, open and in time.
Counts(q) == CallerSocket(q) # {} /\ q \in viewed /\ q \notin expired

SettleApproval(q, a) ==
  IF Counts(q)
  THEN Settle({q}, a) /\ verdict' = [verdict EXCEPT ![q] = a]
  ELSE /\ Settle(CallerSocket(q) \cap viewed, Unanswered)
       /\ UNCHANGED verdict

AnswerFrame(s, q, a) ==
  /\ <<q, a>> \in answers[s] /\ s \in Listed
  /\ answers' = [answers EXCEPT ![s] = @ \ {<<q, a>>}]
  /\ SettleApproval(q, a)
  /\ UNCHANGED <<executorVars, awake, open, viewed, waking>>
  /\ UNCHANGED <<asks, prompts, workerVars, said, told>>

\* Somebody who sees the question in the dashboard answers it.
AnswerInDashboard(q, a) ==
  /\ q \in viewed
  /\ SettleApproval(q, a)
  /\ said' = said \cup {<<q, a>>}
  /\ told' = IF Counts(q) THEN [told EXCEPT ![q] = a] ELSE told
  /\ UNCHANGED <<executorVars, awake, open, viewed, waking, cliVars, workerVars>>

----------------------------------------------------------------------------
(* Executors coming and going *)

\* The row is read at the dial, so a revocation does not stop a dial before it.
Accept(s) ==
  /\ link[s] = "none" /\ \A t \in Sockets : t < s => link[t] # "none"
  /\ link' = [link EXCEPT ![s] = "undefined"]
  /\ hellos' = hellos \cup {s}
  /\ UNCHANGED <<closing, drops, revoked, awake, questionVars>>
  /\ UNCHANGED <<cliVars, workerVars, history>>

\* A hello replaces every other socket and leaves the questions open.
Hello(s) ==
  /\ s \in hellos
  /\ hellos' = hellos \ {s}
  /\ link' = [t \in Sockets |->
       IF t = s THEN "true" ELSE IF t \in Listed THEN "false" ELSE link[t]]
  /\ closing' = closing \cup (Listed \ {s})
  /\ UNCHANGED <<drops, revoked, awake, questionVars>>
  /\ UNCHANGED <<cliVars, workerVars, history>>

\* A close, or an error that a close may follow; its frames are lost.
SocketEnds(s, how) ==
  /\ s \in Listed \/ (link[s] = "failed" /\ how = "close")
  /\ how = "error" => s \in Broken
  /\ link' = [link EXCEPT ![s] = IF how = "error" THEN "failed" ELSE "gone"]
  /\ hellos' = hellos \ {s}
  /\ drops' = IF Routable \ {s} = {} THEN drops \cup {<<s, how>>} ELSE drops
  /\ asks' = [asks EXCEPT ![s] = {}]
  /\ answers' = [answers EXCEPT ![s] = {}]
  /\ UNCHANGED <<closing, revoked, awake, questionVars, prompts, workerVars, history>>

DropExecutor(d) ==
  /\ d \in drops
  /\ drops' = drops \ {d}
  /\ Settle(Asked, Unanswered)
  /\ UNCHANGED <<link, hellos, closing, revoked, awake, open, viewed, waking>>
  /\ UNCHANGED <<cliVars, workerVars, history>>

Revoke ==
  /\ ~revoked
  /\ revoked' = TRUE /\ awake' = FALSE
  /\ closing' = closing \cup Listed
  /\ Settle(open, Unanswered)
  /\ UNCHANGED <<link, hellos, drops, open, viewed, waking, cliVars, workerVars, history>>

----------------------------------------------------------------------------
(* The CLI: handle_approval, one task per question *)

TakeAsk(s, q) ==
  /\ q \in asks[s]
  /\ asks' = [asks EXCEPT ![s] = @ \ {q}]
  /\ prompts' = [prompts EXCEPT ![s] = @ \cup {q}]
  /\ UNCHANGED <<objectVars, answers, workerVars, history>>

\* Somebody answers at the terminal, however late; what the task sends is lost
\* if its session is over.
AnswerAtTerminal(s, q, a) ==
  /\ q \in prompts[s]
  /\ prompts' = [prompts EXCEPT ![s] = @ \ {q}]
  /\ answers' = IF s \in Listed THEN [answers EXCEPT ![s] = @ \cup {<<q, a>>}] ELSE answers
  /\ said' = said \cup {<<q, a>>}
  /\ UNCHANGED <<objectVars, asks, workerVars, verdict, told>>

----------------------------------------------------------------------------
Init ==
  /\ link = [s \in Sockets |-> "none"]
  /\ hellos = {} /\ closing = {} /\ drops = {}
  /\ revoked = FALSE /\ awake = FALSE
  /\ open = {} /\ settled = {} /\ viewed = {} /\ waking = {}
  /\ reply = [q \in Questions |-> None]
  /\ asks = [s \in Sockets |-> {}]
  /\ prompts = [s \in Sockets |-> {}]
  /\ answers = [s \in Sockets |-> {}]
  /\ asker = [q \in Questions |-> "idle"]
  /\ outcome = [q \in Questions |-> None]
  /\ expired = {}
  /\ wire = [q \in Questions |-> {}]
  /\ said = {}
  /\ verdict = [q \in Questions |-> None]
  /\ told = [q \in Questions |-> None]

WorkerNext ==
  \E q \in Questions :
    \/ Dial(q) \/ Start(q) \/ Deadline(q) \/ Hear(q) \/ TimeOut(q) \/ OpenedTooLate(q)
    \/ \E o \in {"unanswered", "error"} : Vanish(q, o)

RelayNext ==
  \/ \E q \in Questions : StartMessage(q) \/ CancelMessage(q) \/ CallerCloses(q)
  \/ \E ok \in BOOLEAN : WakeDone(ok)
  \/ AwakeLapses
  \/ \E s \in Sockets : Accept(s) \/ Hello(s)
  \/ \E s \in Sockets, how \in {"close", "error"} : SocketEnds(s, how)
  \/ \E d \in drops : DropExecutor(d)
  \/ Revoke
  \/ \E s \in Sockets, q \in Questions, a \in Answers : AnswerFrame(s, q, a)

PeopleNext ==
  \/ \E q \in Questions, a \in Answers : AnswerInDashboard(q, a)
  \/ \E s \in Sockets, q \in Questions, a \in Answers : AnswerAtTerminal(s, q, a)

CliNext == \E s \in Sockets, q \in Questions : TakeAsk(s, q)

Next == WorkerNext \/ RelayNext \/ PeopleNext \/ CliNext

SafetySpec == Init /\ [][Next]_vars

(* Timers fire, frames are delivered and a wake ends; nobody has to answer. *)
Fairness ==
  /\ \A q \in Questions :
       /\ WF_vars(Deadline(q)) /\ WF_vars(TimeOut(q)) /\ WF_vars(OpenedTooLate(q))
       /\ WF_vars(StartMessage(q)) /\ WF_vars(CancelMessage(q)) /\ WF_vars(CallerCloses(q))
  /\ WF_vars(\E ok \in BOOLEAN : WakeDone(ok))
  /\ \A s \in Sockets, q \in Questions : WF_vars(TakeAsk(s, q))

Spec == SafetySpec /\ Fairness
----------------------------------------------------------------------------
(* Types *)

Frames == [Sockets -> SUBSET Questions]

\* What the object, the CLI, the Workers and the history can hold.
TypeOK ==
  /\ link \in [Sockets -> {"none", "undefined", "true", "false", "failed", "gone"}]
  /\ hellos \subseteq Listed /\ closing \subseteq Sockets
  /\ drops \subseteq Sockets \X {"close", "error"} /\ awake \in BOOLEAN /\ revoked \in BOOLEAN
  /\ open \subseteq Questions /\ settled \subseteq Questions
  /\ viewed \subseteq Questions /\ waking \subseteq Questions
  /\ reply \in [Questions -> Outcomes \cup {None}]
  /\ asks \in Frames /\ prompts \in Frames
  /\ answers \in [Sockets -> SUBSET (Questions \X Answers)]
  /\ asker \in [Questions -> {"idle", "dialling", "waiting", "done"}]
  /\ outcome \in [Questions -> Outcomes \cup {None}]
  /\ expired \subseteq Questions
  /\ wire \in [Questions -> SUBSET {"start", "cancel", "close"}]
  /\ said \subseteq Questions \X Answers
  /\ verdict \in [Questions -> Answers \cup {None}]
  /\ told \in [Questions -> Answers \cup {None}]

(* Safety *)

\* A question whose call still waits can be answered: it is on the dashboard,
\* or its end is on the way (handleApprovalCallerMessage: always visible).
AskedIsVisible ==
  \A q \in Questions :
    asker[q] = "waiting" /\ "start" \notin wire[q] /\ q \notin waking =>
      q \in Shown \/ reply[q] # None

\* One answer counts, whoever else answers, and the call and the dashboard are
\* told that one (see OneAnswer).
Promise == INSTANCE OneAnswer WITH asked <- {q \in Questions : asker[q] # "idle"}

ImplementsOneAnswer == Promise!Spec

(* Action properties *)

\* A question parked on a wake is not failed by the reconnect the wake causes
\* (failCallers, dispatchedOnly).
UnaskedOutlivesReconnect ==
  [][\A q \in (waking \cap waking') \ settled :
       q \in settled' => asker[q] = "done" \/ revoked']_vars

(* Liveness *)

\* No question stays on the dashboard for ever, answered or not.
EveryQuestionLeaves == \A q \in Questions : q \in Shown ~> q \notin Shown
================================================================================
