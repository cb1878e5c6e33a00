-------------------------- MODULE RelayApprovalProofs --------------------------
(***************************************************************************)
(* What RelayApproval guarantees for any number of questions and           *)
(* connections: its types, that it implements OneAnswer, that no question  *)
(* is lost, and that those parked on a wake stand.                         *)
(***************************************************************************)
EXTENDS RelayApproval, TLAPS

----------------------------------------------------------------------------
(* The invariant *)

Dialled == {q \in Questions : asker[q] # "idle"}

\* Only a question that was put to the relay is anywhere in it.
KnownInv ==
  /\ \A q \in Questions : wire[q] # {} => q \in Dialled
  /\ waking \subseteq Dialled /\ viewed \subseteq Dialled
  /\ \A s \in Sockets : asks[s] \subseteq Dialled /\ prompts[s] \subseteq Dialled

\* What travels was said, and what counts as the verdict is what is replied.
AnswerInv ==
  /\ TypeOK
  /\ KnownInv
  /\ \A s \in Sockets : answers[s] \subseteq said
  /\ \A q \in Questions : asker[q] # "done" => outcome[q] = None
  /\ \A q \in Questions : verdict[q] # None => q \in settled
  /\ \A q \in Questions : reply[q] \in Answers => reply[q] = verdict[q]

\* What a step of an action has to show besides its types.
Implemented ==
  /\ KnownInv'
  /\ \A s \in Sockets : answers'[s] \subseteq said'
  /\ \A q \in Questions : asker'[q] # "done" => outcome'[q] = None
  /\ \A q \in Questions : verdict'[q] # None => q \in settled'
  /\ \A q \in Questions : reply'[q] \in Answers => reply'[q] = verdict'[q]
  /\ [Promise!Next]_(Promise!vars)

----------------------------------------------------------------------------
(* Types *)

RepliesKeepTypes ==
  /\ settled' \subseteq Questions
  /\ reply' \in [Questions -> Outcomes \cup {None}]

QuestionKeepsTypes ==
  /\ RepliesKeepTypes
  /\ viewed' \subseteq Questions
  /\ asks' \in Frames

LEMMA SettleType ==
  ASSUME TypeOK, NEW Q \in SUBSET Questions, NEW r \in Outcomes, Settle(Q, r)
  PROVE  RepliesKeepTypes
  BY SMT DEF TypeOK, Settle, RepliesKeepTypes

LEMMA QuestionType ==
  ASSUME TypeOK, NEW Q \in SUBSET Questions, Question(Q)
  PROVE  QuestionKeepsTypes
  <1> DEFINE fresh == Q \ viewed
  <1>1. RepliesKeepTypes
    BY SMT DEF Question, TypeOK, RepliesKeepTypes, Outcomes, Unanswered
  <1>2. viewed' \subseteq Questions
    BY SMT DEF Question, TypeOK, Kept
  <1>3. asks' \in Frames
    BY SMT DEF Question, TypeOK, Frames, Executors, Routable, Listed
  <1> QED BY <1>1, <1>2, <1>3 DEF QuestionKeepsTypes

LEMMA AnswerType ==
  ASSUME TypeOK, NEW q \in Questions, NEW a \in Answers, SettleApproval(q, a)
  PROVE  RepliesKeepTypes /\ verdict' \in [Questions -> Answers \cup {None}]
  BY SMT DEF TypeOK, SettleApproval, Settle, RepliesKeepTypes, Outcomes, Unanswered, CallerSocket

LEMMA WorkerType ==
  ASSUME TypeOK, WorkerNext
  PROVE  TypeOK'
  <1> USE DEF TypeOK, Frames, Listed, Outcomes, Answers,
              objectVars, executorVars, questionVars, cliVars, history
  <1>1. ASSUME NEW q \in Questions, Dial(q) PROVE TypeOK'
    BY <1>1, SMT DEF Dial
  <1>2. ASSUME NEW q \in Questions, Start(q) PROVE TypeOK'
    BY <1>2, SMT DEF Start
  <1>3. ASSUME NEW q \in Questions, Deadline(q) PROVE TypeOK'
    BY <1>3, SMT DEF Deadline
  <1>4. ASSUME NEW q \in Questions, NEW o \in Outcomes, NEW frames \in SUBSET {"start", "cancel", "close"},
               Finish(q, o, frames)
        PROVE  TypeOK'
    BY <1>4, SMT DEF Finish
  <1>5. ASSUME NEW q \in Questions, Hear(q) PROVE TypeOK'
    <2>1. reply[q] \in Outcomes /\ wire[q] \cup {"close"} \in SUBSET {"start", "cancel", "close"}
      BY <1>5, SMT DEF Hear
    <2> QED BY <1>4, <1>5, <2>1 DEF Hear
  <1>6. ASSUME NEW q \in Questions, TimeOut(q) PROVE TypeOK'
    BY <1>4, <1>6, SMT DEF TimeOut
  <1>7. ASSUME NEW q \in Questions, OpenedTooLate(q) PROVE TypeOK'
    BY <1>4, <1>7, SMT DEF OpenedTooLate
  <1>8. ASSUME NEW q \in Questions, NEW o \in {"unanswered", "error"}, Vanish(q, o) PROVE TypeOK'
    BY <1>4, <1>8, SMT DEF Vanish
  <1> QED BY <1>1, <1>2, <1>3, <1>5, <1>6, <1>7, <1>8 DEF WorkerNext

LEMMA RelayType ==
  ASSUME TypeOK, RelayNext
  PROVE  TypeOK'
  <1> USE DEF executorVars, questionVars, cliVars, workerVars, history, Listed
  <1>0. "unanswered" \in Outcomes /\ "error" \in Outcomes /\ Unanswered \in Outcomes
    BY DEF Outcomes, Unanswered
  <1>1. ASSUME NEW q \in Questions, StartMessage(q) PROVE TypeOK'
    <2>1. wire' \in [Questions -> SUBSET {"start", "cancel", "close"}]
      BY <1>1, SMT DEF StartMessage, TypeOK
    <2>2. QuestionKeepsTypes /\ waking' \subseteq Questions
      <3>1. CASE Question({q}) /\ UNCHANGED waking
        <4>1. {q} \in SUBSET Questions
          OBVIOUS
        <4> QED BY <3>1, <4>1, QuestionType DEF TypeOK
      <3>2. CASE UNCHANGED <<settled, reply, viewed, asks>> /\ waking' \in {waking, waking \cup {q}}
        BY <3>2, SMT DEF TypeOK, QuestionKeepsTypes, RepliesKeepTypes
      <3> QED BY <1>1, <3>1, <3>2, Zenon DEF StartMessage
    <2> QED BY <1>1, <2>1, <2>2, SMT DEF StartMessage, TypeOK, QuestionKeepsTypes, RepliesKeepTypes
  <1>2. ASSUME NEW q \in Questions, CancelMessage(q) \/ CallerCloses(q) PROVE TypeOK'
    BY <1>2, SMT DEF CancelMessage, CallerCloses, TypeOK, Frames
  <1>3. ASSUME NEW ok \in BOOLEAN, WakeDone(ok) PROVE TypeOK'
    <2>1. QuestionKeepsTypes
      <3>1. CASE Question(waking \ settled)
        <4>1. waking \ settled \in SUBSET Questions
          BY DEF TypeOK
        <4> QED BY <3>1, <4>1, QuestionType
      <3>2. CASE Settle(waking, "error") /\ UNCHANGED <<viewed, asks>>
        <4>1. RepliesKeepTypes
          BY <1>0, <3>2, SettleType DEF TypeOK
        <4> QED BY <3>2, <4>1, SMT DEF TypeOK, QuestionKeepsTypes
      <3> QED BY <1>3, <3>1, <3>2 DEF WakeDone
    <2>2. awake' \in BOOLEAN
      BY <1>3, Zenon DEF WakeDone, TypeOK
    <2> QED BY <1>3, <2>1, <2>2, SMT DEF WakeDone, TypeOK, QuestionKeepsTypes, RepliesKeepTypes
  <1>4. ASSUME AwakeLapses PROVE TypeOK'
    <2>1. awake' \in BOOLEAN /\ UNCHANGED <<executorVars, questionVars, cliVars, workerVars, history>>
      BY <1>4, Zenon DEF AwakeLapses
    <2> QED BY <2>1, SMT DEF TypeOK, Frames
  <1>5. ASSUME NEW s \in Sockets, Accept(s) PROVE TypeOK'
    BY <1>5, SMT DEF Accept, TypeOK
  <1>6. ASSUME NEW s \in Sockets, Hello(s) PROVE TypeOK'
    BY <1>6, SMT DEF Hello, TypeOK
  <1>7. ASSUME NEW s \in Sockets, NEW how \in {"close", "error"}, SocketEnds(s, how) PROVE TypeOK'
    BY <1>7, SMT DEF SocketEnds, TypeOK, Frames
  <1>8. ASSUME NEW d \in drops, DropExecutor(d) PROVE TypeOK'
    <2>1. RepliesKeepTypes
      BY <1>0, <1>8, SettleType DEF DropExecutor, TypeOK, Asked, Shown
    <2> QED BY <1>8, <2>1, SMT DEF DropExecutor, TypeOK, RepliesKeepTypes
  <1>9. ASSUME Revoke PROVE TypeOK'
    <2>1. RepliesKeepTypes
      BY <1>0, <1>9, SettleType DEF Revoke, TypeOK
    <2>2. awake' \in BOOLEAN /\ revoked' \in BOOLEAN
      BY <1>9, Zenon DEF Revoke
    <2>3. closing' \subseteq Sockets
      BY <1>9, SMT DEF Revoke, TypeOK
    <2>4. UNCHANGED <<link, hellos, drops, open, viewed, waking, cliVars, workerVars, history>>
      BY <1>9, Zenon DEF Revoke
    <2> QED BY <2>1, <2>2, <2>3, <2>4, SMT DEF TypeOK, RepliesKeepTypes
  <1>10. ASSUME NEW s \in Sockets, NEW q \in Questions, NEW a \in Answers, AnswerFrame(s, q, a)
         PROVE  TypeOK'
    <2>1. RepliesKeepTypes /\ verdict' \in [Questions -> Answers \cup {None}]
      BY <1>10, AnswerType DEF AnswerFrame
    <2> QED BY <1>10, <2>1, SMT DEF AnswerFrame, TypeOK, RepliesKeepTypes
  <1> QED BY <1>1, <1>2, <1>3, <1>4, <1>5, <1>6, <1>7, <1>8, <1>9, <1>10 DEF RelayNext

LEMMA PeopleType ==
  ASSUME TypeOK, PeopleNext \/ CliNext
  PROVE  TypeOK'
  <1> USE DEF objectVars, executorVars, questionVars, cliVars, workerVars, history, Listed, Frames
  <1>1. ASSUME NEW q \in Questions, NEW a \in Answers, AnswerInDashboard(q, a) PROVE TypeOK'
    <2>1. RepliesKeepTypes /\ verdict' \in [Questions -> Answers \cup {None}]
      BY <1>1, AnswerType DEF AnswerInDashboard
    <2> QED BY <1>1, <2>1, SMT DEF AnswerInDashboard, TypeOK, RepliesKeepTypes
  <1>2. ASSUME NEW s \in Sockets, NEW q \in Questions, NEW a \in Answers, AnswerAtTerminal(s, q, a)
        PROVE  TypeOK'
    BY <1>2, SMT DEF AnswerAtTerminal, TypeOK
  <1>3. ASSUME NEW s \in Sockets, NEW q \in Questions, TakeAsk(s, q) PROVE TypeOK'
    BY <1>3, SMT DEF TakeAsk, TypeOK
  <1> QED BY <1>1, <1>2, <1>3 DEF PeopleNext, CliNext

LEMMA TypeStep ==
  ASSUME TypeOK, [Next]_vars
  PROVE  TypeOK'
  <1>1. CASE UNCHANGED vars
    BY <1>1, SMT DEF TypeOK, Listed, vars, objectVars, executorVars, questionVars, cliVars, workerVars, history
  <1> QED BY <1>1, WorkerType, RelayType, PeopleType DEF Next

LEMMA InitType ==
  ASSUME Init
  PROVE  TypeOK
  <1>1. awake \in BOOLEAN /\ revoked \in BOOLEAN
    BY Zenon DEF Init
  <1>2. hellos = {} /\ closing = {} /\ drops = {} /\ link = [s \in Sockets |-> "none"]
    BY Zenon DEF Init
  <1>3. /\ open = {} /\ settled = {} /\ viewed = {} /\ waking = {} /\ expired = {} /\ said = {}
        /\ reply = [q \in Questions |-> None] /\ outcome = [q \in Questions |-> None]
        /\ verdict = [q \in Questions |-> None] /\ told = [q \in Questions |-> None]
        /\ asker = [q \in Questions |-> "idle"] /\ wire = [q \in Questions |-> {}]
    BY Zenon DEF Init
  <1>4. asks = [s \in Sockets |-> {}] /\ prompts = [s \in Sockets |-> {}] /\ answers = [s \in Sockets |-> {}]
    BY Zenon DEF Init
  <1> QED BY <1>1, <1>2, <1>3, <1>4, SMT DEF TypeOK, Frames

\* Every reachable state has the types RelayApproval declares: no reply is one
\* the Worker cannot read, and no frame is for something that is no question.
THEOREM TypeCorrect == SafetySpec => []TypeOK
  BY InitType, TypeStep, PTL DEF SafetySpec

----------------------------------------------------------------------------
(* One answer *)

\* A step that ends no call, says nothing and decides nothing.
LEMMA QuietStep ==
  ASSUME AnswerInv,
         UNCHANGED <<asker, outcome, said, verdict, told>>,
         \A q \in Questions : wire'[q] # {} => wire[q] # {},
         waking' \subseteq Dialled, viewed' \subseteq Dialled,
         \A s \in Sockets : asks'[s] \subseteq Dialled /\ prompts'[s] \subseteq Dialled,
         \A s \in Sockets : answers'[s] \subseteq answers[s],
         settled \subseteq settled',
         \A q \in Questions : reply'[q] \in Answers => reply'[q] = reply[q]
  PROVE  Implemented
  <1>1. Dialled' = Dialled
    BY Zenon DEF Dialled
  <1>2. KnownInv'
    BY <1>1, Zenon DEF KnownInv, AnswerInv
  <1>3. \A s \in Sockets : answers'[s] \subseteq said'
    BY SMT DEF AnswerInv
  <1>4. \A q \in Questions : verdict'[q] # None => q \in settled'
    BY SMT DEF AnswerInv
  <1>5. \A q \in Questions : reply'[q] \in Answers => reply'[q] = verdict'[q]
    BY Zenon DEF AnswerInv
  <1>6. \A q \in Questions : asker'[q] # "done" => outcome'[q] = None
    BY Zenon DEF AnswerInv
  <1>7. UNCHANGED Promise!vars
    BY <1>1, Zenon DEF Promise!vars, Dialled
  <1> QED BY <1>2, <1>3, <1>4, <1>5, <1>6, <1>7 DEF Implemented

\* Settling without an answer gives nobody one.
LEMMA SettleReplies ==
  ASSUME TypeOK, NEW Q \in SUBSET Questions, NEW r, r \notin Answers, Settle(Q, r)
  PROVE  /\ settled \subseteq settled'
         /\ \A q \in Questions : reply'[q] \in Answers => reply'[q] = reply[q]
  BY SMT DEF TypeOK, Settle

\* Asking shows and prompts only what it is given, and answers nothing.
LEMMA QuestionStep ==
  ASSUME AnswerInv, NEW Q \in SUBSET Dialled, Question(Q)
  PROVE  /\ settled \subseteq settled'
         /\ \A q \in Questions : reply'[q] \in Answers => reply'[q] = reply[q]
         /\ viewed' \subseteq Dialled
         /\ \A s \in Sockets : asks'[s] \subseteq Dialled
  <1>1. \A q \in Questions : reply'[q] \in Answers => reply'[q] = reply[q]
    BY SMT DEF Question, Unanswered, Answers, AnswerInv, TypeOK
  <1>2. settled \subseteq settled'
    BY SMT DEF Question
  <1>3. viewed' \subseteq Dialled
    BY SMT DEF Question, Kept, AnswerInv, KnownInv
  <1>4. \A s \in Sockets : asks'[s] \subseteq Dialled
    BY SMT DEF Question, AnswerInv, KnownInv, TypeOK, Frames
  <1> QED BY <1>1, <1>2, <1>3, <1>4

\* An answer that counts becomes the verdict and the reply, and any other
\* answer changes neither.
LEMMA AnswerStep ==
  ASSUME AnswerInv, NEW q \in Questions, NEW a \in Answers, SettleApproval(q, a)
  PROVE  /\ settled \subseteq settled'
         /\ \A x \in Questions : verdict'[x] # None => x \in settled'
         /\ \A x \in Questions : reply'[x] \in Answers => reply'[x] = verdict'[x]
         /\ Counts(q) => verdict[q] = None /\ verdict' = [verdict EXCEPT ![q] = a]
         /\ ~Counts(q) => verdict' = verdict
  <1> USE DEF AnswerInv, TypeOK
  <1>1. CASE Counts(q)
    <2>1. Settle({q}, a) /\ verdict' = [verdict EXCEPT ![q] = a]
      BY <1>1 DEF SettleApproval
    <2>2. q \notin settled /\ verdict[q] = None
      BY <1>1, SMT DEF Counts, CallerSocket
    <2>3. settled' = settled \cup {q}
      BY <2>1 DEF Settle
    <2>4. \A x \in Questions : x # q => reply'[x] = reply[x] /\ verdict'[x] = verdict[x]
      BY <2>1, SMT DEF Settle
    <2>5. reply'[q] \in {a, reply[q]} /\ verdict'[q] = a
      BY <2>1, SMT DEF Settle
    <2>6. reply[q] \notin Answers
      BY <2>2, ConstantsAssumption, SMT DEF Answers
    <2> QED BY <1>1, <2>1, <2>2, <2>3, <2>4, <2>5, <2>6
  <1>2. CASE ~Counts(q)
    <2>1. Settle(CallerSocket(q) \cap viewed, Unanswered) /\ verdict' = verdict
      BY <1>2 DEF SettleApproval
    <2>2. PICK Q \in SUBSET Questions : Q = CallerSocket(q) \cap viewed
      BY DEF CallerSocket
    <2>3. Settle(Q, Unanswered) /\ Unanswered \notin Answers
      BY <2>1, <2>2, Zenon DEF Settle, Unanswered, Answers
    <2>4. settled \subseteq settled' /\ \A x \in Questions : reply'[x] \in Answers => reply'[x] = reply[x]
      BY <2>3, SettleReplies
    <2> QED BY <1>2, <2>1, <2>4, SMT
  <1> QED BY <1>1, <1>2

LEMMA FinishStep ==
  ASSUME AnswerInv, NEW q \in Questions, NEW o \in Outcomes, NEW frames, Finish(q, o, frames),
         Listens(q), o \in Answers => o = verdict[q]
  PROVE  Implemented
  <1>1. /\ asker' = [asker EXCEPT ![q] = "done"] /\ outcome' = [outcome EXCEPT ![q] = o]
        /\ wire' = [wire EXCEPT ![q] = frames]
        /\ UNCHANGED <<waking, viewed, asks, prompts, answers, said, settled, reply, verdict, told>>
    BY Zenon DEF Finish, objectVars, questionVars, cliVars, history
  <1>2. Dialled' = Dialled /\ q \in Dialled
    BY <1>1, SMT DEF Dialled, Listens, AnswerInv, TypeOK
  <1>3. KnownInv'
    BY <1>1, <1>2, SMT DEF KnownInv, AnswerInv, TypeOK
  <1>4. \A x \in Questions : asker'[x] # "done" => outcome'[x] = None
    BY <1>1, SMT DEF AnswerInv, TypeOK
  <1>5. Promise!Next
    <2>1. outcome[q] = None
      BY SMT DEF AnswerInv, Listens
    <2>2. Promise!End(q, o)
      BY <1>1, <1>2, <2>1, Zenon DEF Promise!End, Dialled
    <2> QED BY <2>2 DEF Promise!Next
  <1>6. /\ \A s \in Sockets : answers'[s] \subseteq said'
        /\ \A x \in Questions : verdict'[x] # None => x \in settled'
        /\ \A x \in Questions : reply'[x] \in Answers => reply'[x] = verdict'[x]
    BY <1>1, Zenon DEF AnswerInv
  <1> QED BY <1>3, <1>4, <1>5, <1>6 DEF Implemented

LEMMA WorkerAnswers ==
  ASSUME AnswerInv, WorkerNext
  PROVE  Implemented
  <1> USE DEF objectVars, questionVars, cliVars, workerVars, history
  <1>1. ASSUME NEW q \in Questions, Dial(q) PROVE Implemented
    <2>1. /\ asker[q] = "idle" /\ asker' = [asker EXCEPT ![q] = "dialling"]
          /\ UNCHANGED <<wire, waking, viewed, asks, prompts, answers, said, settled, reply, verdict, told, outcome>>
      BY <1>1, Zenon DEF Dial
    <2>2. Dialled' = Dialled \cup {q} /\ q \notin Dialled
      BY <2>1, SMT DEF Dialled, AnswerInv, TypeOK
    <2>3. KnownInv'
      BY <2>1, <2>2, SMT DEF KnownInv, AnswerInv
    <2>4. \A x \in Questions : asker'[x] # "done" => outcome'[x] = None
      BY <2>1, SMT DEF AnswerInv, TypeOK
    <2>5. Promise!Ask(q)
      BY <2>1, <2>2, Zenon DEF Promise!Ask, Dialled
    <2>6. /\ \A s \in Sockets : answers'[s] \subseteq said'
          /\ \A x \in Questions : verdict'[x] # None => x \in settled'
          /\ \A x \in Questions : reply'[x] \in Answers => reply'[x] = verdict'[x]
      BY <2>1, Zenon DEF AnswerInv
    <2> QED BY <2>3, <2>4, <2>5, <2>6 DEF Implemented, Promise!Next
  <1>2. ASSUME NEW q \in Questions, Start(q) PROVE Implemented
    <2>1. /\ asker[q] = "dialling" /\ asker' = [asker EXCEPT ![q] = "waiting"]
          /\ wire' = [wire EXCEPT ![q] = {"start"}]
          /\ UNCHANGED <<waking, viewed, asks, prompts, answers, said, settled, reply, verdict, told, outcome>>
      BY <1>2, Zenon DEF Start
    <2>2. Dialled' = Dialled /\ q \in Dialled
      BY <2>1, SMT DEF Dialled, AnswerInv, TypeOK
    <2>3. KnownInv'
      BY <2>1, <2>2, SMT DEF KnownInv, AnswerInv, TypeOK
    <2>4. \A x \in Questions : asker'[x] # "done" => outcome'[x] = None
      BY <2>1, SMT DEF AnswerInv, TypeOK
    <2>5. UNCHANGED Promise!vars
      BY <2>1, <2>2, Zenon DEF Promise!vars, Dialled
    <2>6. /\ \A s \in Sockets : answers'[s] \subseteq said'
          /\ \A x \in Questions : verdict'[x] # None => x \in settled'
          /\ \A x \in Questions : reply'[x] \in Answers => reply'[x] = verdict'[x]
      BY <2>1, Zenon DEF AnswerInv
    <2> QED BY <2>3, <2>4, <2>5, <2>6 DEF Implemented
  <1>3. ASSUME NEW q \in Questions, Deadline(q) PROVE Implemented
    <2>1. UNCHANGED <<asker, outcome, wire, waking, viewed, asks, prompts, answers, said, settled, reply, verdict, told>>
      BY <1>3, Zenon DEF Deadline
    <2> QED BY <2>1, QuietStep, SMT DEF AnswerInv, KnownInv
  <1>4. ASSUME NEW q \in Questions, Hear(q) PROVE Implemented
    <2>1. reply[q] \in Outcomes /\ Listens(q) /\ (reply[q] \in Answers => reply[q] = verdict[q])
      BY <1>4, SMT DEF Hear, AnswerInv, TypeOK, Listens
    <2>2. PICK o \in Outcomes : o = reply[q]
      BY <2>1
    <2>3. PICK frames : frames = wire[q] \cup {"close"}
      OBVIOUS
    <2>4. Finish(q, o, frames)
      BY <1>4, <2>2, <2>3, Zenon DEF Hear, Finish
    <2> QED BY <2>1, <2>2, <2>4, FinishStep
  <1>5. "unanswered" \in Outcomes \ Answers /\ "error" \in Outcomes \ Answers
    BY DEF Outcomes, Answers
  <1>6. ASSUME NEW q \in Questions, NEW o \in {"unanswered", "error"}, NEW frames,
               Listens(q), Finish(q, o, frames)
        PROVE  Implemented
    BY <1>5, <1>6, FinishStep, Zenon
  <1>7. ASSUME NEW q \in Questions, TimeOut(q) PROVE Implemented
    <2>1. PICK frames : frames = wire[q] \cup {"cancel", "close"}
      OBVIOUS
    <2>2. Finish(q, "unanswered", frames)
      BY <1>7, <2>1, Zenon DEF TimeOut, Finish
    <2> QED BY <1>6, <1>7, <2>2 DEF TimeOut, Listens
  <1>8. ASSUME NEW q \in Questions, OpenedTooLate(q) PROVE Implemented
    BY <1>6, <1>8 DEF OpenedTooLate, Listens
  <1>9. ASSUME NEW q \in Questions, NEW o \in {"unanswered", "error"}, Vanish(q, o) PROVE Implemented
    BY <1>6, <1>9 DEF Vanish, Listens
  <1> QED BY <1>1, <1>2, <1>3, <1>4, <1>7, <1>8, <1>9 DEF WorkerNext

LEMMA RelayAnswers ==
  ASSUME AnswerInv, RelayNext
  PROVE  Implemented
  <1> USE DEF executorVars, questionVars, cliVars, workerVars, history
  <1> DEFINE still == <<asker, outcome, said, verdict, told, prompts>>
  <1>0. TypeOK /\ "error" \notin Answers /\ Unanswered \notin Answers
    BY DEF AnswerInv, Answers, Unanswered
  <1>1. ASSUME UNCHANGED still, UNCHANGED <<waking, viewed>>,
               \A q \in Questions : wire'[q] \subseteq wire[q],
               \A s \in Sockets : asks'[s] \subseteq asks[s] /\ answers'[s] \subseteq answers[s],
               settled \subseteq settled',
               \A q \in Questions : reply'[q] \in Answers => reply'[q] = reply[q]
        PROVE  Implemented
    BY <1>1, QuietStep, SMT DEF AnswerInv, KnownInv
  <1>2. ASSUME NEW q \in Questions, StartMessage(q) PROVE Implemented
    <2>1. /\ "start" \in wire[q] /\ wire' = [wire EXCEPT ![q] = @ \ {"start"}]
          /\ UNCHANGED still /\ UNCHANGED answers
      BY <1>2, Zenon DEF StartMessage
    <2>2. q \in Dialled /\ \A x \in Questions : wire'[x] # {} => wire[x] # {}
      BY <2>1, SMT DEF AnswerInv, KnownInv, TypeOK
    <2>3. CASE UNCHANGED <<settled, reply, viewed, asks>> /\ waking' \in {waking, waking \cup {q}}
      BY <2>1, <2>2, <2>3, QuietStep, SMT DEF AnswerInv, KnownInv
    <2>4. CASE Question({q}) /\ UNCHANGED waking
      <3>1. {q} \in SUBSET Dialled
        BY <2>2
      <3>2. /\ settled \subseteq settled' /\ viewed' \subseteq Dialled
            /\ \A x \in Questions : reply'[x] \in Answers => reply'[x] = reply[x]
            /\ \A s \in Sockets : asks'[s] \subseteq Dialled
        BY <2>4, <3>1, QuestionStep
      <3> QED BY <2>1, <2>2, <2>4, <3>2, QuietStep, SMT DEF AnswerInv, KnownInv
    <2> QED BY <1>2, <2>3, <2>4, Zenon DEF StartMessage
  <1>3. ASSUME NEW q \in Questions, CancelMessage(q) \/ CallerCloses(q) PROVE Implemented
    <2>1. UNCHANGED still /\ UNCHANGED <<waking, viewed, asks, answers, reply>>
      BY <1>3, Zenon DEF CancelMessage, CallerCloses
    <2>2. settled \subseteq settled' /\ \A x \in Questions : wire'[x] \subseteq wire[x]
      BY <1>3, SMT DEF CancelMessage, CallerCloses, AnswerInv, TypeOK
    <2> QED BY <1>1, <2>1, <2>2
  <1>4. ASSUME NEW ok \in BOOLEAN, WakeDone(ok) PROVE Implemented
    <2>1. waking' = {} /\ UNCHANGED still /\ UNCHANGED <<answers, wire>>
      BY <1>4, Zenon DEF WakeDone
    <2>2. CASE Question(waking \ settled)
      <3>1. waking \ settled \in SUBSET Dialled
        BY DEF AnswerInv, KnownInv
      <3>2. PICK Q \in SUBSET Dialled : Q = waking \ settled
        BY <3>1
      <3>3. Question(Q)
        BY <2>2, <3>2
      <3>4. /\ settled \subseteq settled' /\ viewed' \subseteq Dialled
            /\ \A x \in Questions : reply'[x] \in Answers => reply'[x] = reply[x]
            /\ \A s \in Sockets : asks'[s] \subseteq Dialled
        BY <3>3, QuestionStep
      <3> QED BY <2>1, <3>4, QuietStep, SMT DEF AnswerInv, KnownInv
    <2>3. CASE Settle(waking, "error") /\ UNCHANGED <<viewed, asks>>
      <3>1. PICK Q \in SUBSET Questions : Q = waking
        BY <1>0 DEF TypeOK
      <3>2. Settle(Q, "error")
        BY <2>3, <3>1, Zenon DEF Settle
      <3>3. settled \subseteq settled' /\ \A x \in Questions : reply'[x] \in Answers => reply'[x] = reply[x]
        BY <1>0, <3>2, SettleReplies
      <3> QED BY <2>1, <2>3, <3>3, QuietStep, SMT DEF AnswerInv, KnownInv
    <2> QED BY <1>4, <2>2, <2>3, Zenon DEF WakeDone
  <1>5. ASSUME NEW s \in Sockets, Accept(s) \/ Hello(s) PROVE Implemented
    <2>1. UNCHANGED still /\ UNCHANGED <<waking, viewed, wire, asks, answers, settled, reply>>
      BY <1>5, Zenon DEF Accept, Hello
    <2> QED BY <1>1, <2>1
  <1>6. ASSUME AwakeLapses PROVE Implemented
    <2>1. UNCHANGED still /\ UNCHANGED <<waking, viewed, wire, asks, answers, settled, reply>>
      BY <1>6, Zenon DEF AwakeLapses
    <2> QED BY <1>1, <2>1
  <1>7. ASSUME NEW s \in Sockets, NEW how \in {"close", "error"}, SocketEnds(s, how) PROVE Implemented
    <2>1. /\ asks' = [asks EXCEPT ![s] = {}] /\ answers' = [answers EXCEPT ![s] = {}]
          /\ UNCHANGED still /\ UNCHANGED <<waking, viewed, wire, settled, reply>>
      BY <1>7, Zenon DEF SocketEnds
    <2>2. \A t \in Sockets : asks'[t] \subseteq asks[t] /\ answers'[t] \subseteq answers[t]
      BY <1>0, <2>1, SMT DEF TypeOK, Frames
    <2> QED BY <1>1, <2>1, <2>2
  <1>8. ASSUME NEW d \in drops, DropExecutor(d) PROVE Implemented
    <2>1. UNCHANGED still /\ UNCHANGED <<waking, viewed, wire, asks, answers>>
      BY <1>8, Zenon DEF DropExecutor
    <2>2. PICK Q \in SUBSET Questions : Q = Asked
      BY <1>0 DEF TypeOK, Asked, Shown
    <2>3. Settle(Q, Unanswered)
      BY <1>8, <2>2, Zenon DEF DropExecutor, Settle
    <2>4. settled \subseteq settled' /\ \A x \in Questions : reply'[x] \in Answers => reply'[x] = reply[x]
      BY <1>0, <2>3, SettleReplies
    <2> QED BY <1>1, <2>1, <2>4
  <1>9. ASSUME Revoke PROVE Implemented
    <2>1. UNCHANGED still /\ UNCHANGED <<waking, viewed, wire, asks, answers>>
      BY <1>9, Zenon DEF Revoke
    <2>2. PICK Q \in SUBSET Questions : Q = open
      BY <1>0 DEF TypeOK
    <2>3. Settle(Q, Unanswered)
      BY <1>9, <2>2, Zenon DEF Revoke, Settle
    <2>4. settled \subseteq settled' /\ \A x \in Questions : reply'[x] \in Answers => reply'[x] = reply[x]
      BY <1>0, <2>3, SettleReplies
    <2> QED BY <1>1, <2>1, <2>4
  <1>10. ASSUME NEW s \in Sockets, NEW q \in Questions, NEW a \in Answers, AnswerFrame(s, q, a)
         PROVE  Implemented
    <2>1. /\ <<q, a>> \in answers[s] /\ SettleApproval(q, a)
          /\ answers' = [answers EXCEPT ![s] = @ \ {<<q, a>>}]
          /\ UNCHANGED <<asker, outcome, said, told, prompts, waking, viewed, wire, asks>>
      BY <1>10, Zenon DEF AnswerFrame
    <2>2. <<q, a>> \in said /\ \A t \in Sockets : answers'[t] \subseteq said'
      BY <2>1, SMT DEF AnswerInv, TypeOK
    <2>3. /\ settled \subseteq settled'
          /\ \A x \in Questions : verdict'[x] # None => x \in settled'
          /\ \A x \in Questions : reply'[x] \in Answers => reply'[x] = verdict'[x]
          /\ Counts(q) => verdict[q] = None /\ verdict' = [verdict EXCEPT ![q] = a]
          /\ ~Counts(q) => verdict' = verdict
      BY <2>1, AnswerStep
    <2>4. Dialled' = Dialled
      BY <2>1, Zenon DEF Dialled
    <2>5. KnownInv'
      BY <2>1, <2>4, Zenon DEF KnownInv, AnswerInv
    <2>6. [Promise!Next]_(Promise!vars)
      <3>1. CASE Counts(q)
        <4>1. Promise!Decide(q, a)
          BY <2>1, <2>2, <2>3, <2>4, <3>1, Zenon DEF Promise!Decide, Dialled
        <4> QED BY <4>1 DEF Promise!Next
      <3>2. CASE ~Counts(q)
        BY <2>1, <2>3, <2>4, <3>2, Zenon DEF Promise!vars, Dialled
      <3> QED BY <3>1, <3>2
    <2>7. \A x \in Questions : asker'[x] # "done" => outcome'[x] = None
      BY <2>1, Zenon DEF AnswerInv
    <2> QED BY <2>2, <2>3, <2>5, <2>6, <2>7 DEF Implemented
  <1> QED BY <1>2, <1>3, <1>4, <1>5, <1>6, <1>7, <1>8, <1>9, <1>10 DEF RelayNext

LEMMA PeopleAnswer ==
  ASSUME AnswerInv, PeopleNext \/ CliNext
  PROVE  Implemented
  <1> USE DEF objectVars, executorVars, questionVars, cliVars, workerVars, history
  <1>1. ASSUME NEW q \in Questions, NEW a \in Answers, AnswerInDashboard(q, a) PROVE Implemented
    <2>1. /\ q \in viewed /\ SettleApproval(q, a) /\ said' = said \cup {<<q, a>>}
          /\ told' = IF Counts(q) THEN [told EXCEPT ![q] = a] ELSE told
          /\ UNCHANGED <<asker, outcome, wire, waking, viewed, asks, prompts, answers>>
      BY <1>1, Zenon DEF AnswerInDashboard
    <2>2. /\ \A x \in Questions : verdict'[x] # None => x \in settled'
          /\ \A x \in Questions : reply'[x] \in Answers => reply'[x] = verdict'[x]
          /\ Counts(q) => verdict[q] = None /\ verdict' = [verdict EXCEPT ![q] = a]
          /\ ~Counts(q) => verdict' = verdict
      BY <2>1, AnswerStep
    <2>3. Dialled' = Dialled /\ q \in Dialled
      BY <2>1, Zenon DEF Dialled, AnswerInv, KnownInv
    <2>4. KnownInv'
      BY <2>1, <2>3, Zenon DEF KnownInv, AnswerInv
    <2>5. [Promise!Next]_(Promise!vars)
      <3>1. CASE Counts(q)
        <4>1. Promise!DecideInDashboard(q, a)
          BY <2>1, <2>2, <2>3, <3>1, Zenon DEF Promise!DecideInDashboard, Dialled
        <4> QED BY <4>1 DEF Promise!Next
      <3>2. CASE ~Counts(q)
        <4>1. Promise!Say(q, a)
          BY <2>1, <2>2, <2>3, <3>2, Zenon DEF Promise!Say, Dialled
        <4> QED BY <4>1 DEF Promise!Next
      <3> QED BY <3>1, <3>2
    <2>6. \A s \in Sockets : answers'[s] \subseteq said'
      BY <2>1, SMT DEF AnswerInv
    <2>7. \A x \in Questions : asker'[x] # "done" => outcome'[x] = None
      BY <2>1, Zenon DEF AnswerInv
    <2> QED BY <2>2, <2>4, <2>5, <2>6, <2>7 DEF Implemented
  <1>2. ASSUME NEW s \in Sockets, NEW q \in Questions, NEW a \in Answers, AnswerAtTerminal(s, q, a)
        PROVE  Implemented
    <2>1. /\ q \in prompts[s] /\ said' = said \cup {<<q, a>>}
          /\ prompts' = [prompts EXCEPT ![s] = @ \ {q}]
          /\ answers' \in {answers, [answers EXCEPT ![s] = @ \cup {<<q, a>>}]}
          /\ UNCHANGED <<asker, outcome, wire, waking, viewed, asks, settled, reply, verdict, told>>
      BY <1>2, SMT DEF AnswerAtTerminal
    <2>2. Dialled' = Dialled /\ q \in Dialled
      BY <2>1, Zenon DEF Dialled, AnswerInv, KnownInv
    <2>3. KnownInv'
      BY <2>1, <2>2, SMT DEF KnownInv, AnswerInv, TypeOK, Frames
    <2>4. \A t \in Sockets : answers'[t] \subseteq said'
      BY <2>1, SMT DEF AnswerInv, TypeOK
    <2>5. Promise!Say(q, a)
      BY <2>1, <2>2, Zenon DEF Promise!Say, Dialled
    <2>6. /\ \A x \in Questions : asker'[x] # "done" => outcome'[x] = None
          /\ \A x \in Questions : verdict'[x] # None => x \in settled'
          /\ \A x \in Questions : reply'[x] \in Answers => reply'[x] = verdict'[x]
      BY <2>1, Zenon DEF AnswerInv
    <2> QED BY <2>3, <2>4, <2>5, <2>6 DEF Implemented, Promise!Next
  <1>3. ASSUME NEW s \in Sockets, NEW q \in Questions, TakeAsk(s, q) PROVE Implemented
    <2>1. /\ q \in asks[s] /\ asks' = [asks EXCEPT ![s] = @ \ {q}]
          /\ prompts' = [prompts EXCEPT ![s] = @ \cup {q}]
          /\ UNCHANGED <<asker, outcome, wire, waking, viewed, answers, settled, reply, said, verdict, told>>
      BY <1>3, Zenon DEF TakeAsk
    <2>2. \A t \in Sockets : asks'[t] \subseteq Dialled /\ prompts'[t] \subseteq Dialled
      BY <2>1, SMT DEF AnswerInv, KnownInv, TypeOK, Frames
    <2> QED BY <2>1, <2>2, QuietStep, SMT DEF AnswerInv, KnownInv
  <1> QED BY <1>1, <1>2, <1>3 DEF PeopleNext, CliNext

LEMMA AnswerInvStep ==
  ASSUME AnswerInv, [Next]_vars
  PROVE  AnswerInv' /\ [Promise!Next]_(Promise!vars)
  <1>1. TypeOK'
    BY TypeStep DEF AnswerInv
  <1>2. Implemented
    <2>1. CASE UNCHANGED vars
      <3>1. UNCHANGED <<asker, outcome, wire, waking, viewed, asks, prompts, answers, settled, reply, said, verdict, told>>
        BY <2>1, Zenon DEF vars, objectVars, questionVars, cliVars, workerVars, history
      <3> QED BY <3>1, QuietStep, SMT DEF AnswerInv, KnownInv
    <2>2. CASE Next
      BY <2>2, WorkerAnswers, RelayAnswers, PeopleAnswer DEF Next
    <2> QED BY <2>1, <2>2
  <1> QED BY <1>1, <1>2 DEF Implemented, AnswerInv

LEMMA AnswerInvInit ==
  ASSUME Init
  PROVE  AnswerInv /\ Promise!Init
  <1>1. TypeOK
    BY InitType
  <1>2. Dialled = {}
    BY SMT DEF Init, Dialled
  <1>3. /\ KnownInv
        /\ \A s \in Sockets : answers[s] \subseteq said
        /\ \A q \in Questions : asker[q] # "done" => outcome[q] = None
        /\ \A q \in Questions : verdict[q] # None => q \in settled
    BY <1>2, SMT DEF Init, KnownInv
  <1>4. \A q \in Questions : reply[q] \in Answers => reply[q] = verdict[q]
    BY SMT DEF Init
  <1>5. Promise!Init
    BY <1>2, SMT DEF Init, Promise!Init, Dialled
  <1> QED BY <1>1, <1>3, <1>4, <1>5 DEF AnswerInv

\* At most one of the answers people give to a question counts, and both the
\* call and the dashboard are told that one, whoever answers, wherever, however
\* late, and whatever happens to the machine's connection.
THEOREM OneAnswerKept == SafetySpec => ImplementsOneAnswer
  BY AnswerInvInit, AnswerInvStep, PTL DEF SafetySpec, ImplementsOneAnswer, Promise!Spec

----------------------------------------------------------------------------
(* No question is lost *)

\* A question is on its way to the relay, parked on a wake, shown or settled,
\* in that order, and is settled with a word to the call that waits.
PlaceInv ==
  \A q \in Questions :
    /\ asker[q] = "idle" => q \notin open /\ q \notin settled
    /\ asker[q] \in {"idle", "dialling"} => wire[q] = {} /\ q \notin viewed /\ q \notin waking
    /\ Listens(q) => q \in open /\ wire[q] \subseteq {"start"}
    /\ Listens(q) /\ q \in settled => reply[q] # None
    /\ "start" \in wire[q] => q \notin viewed /\ q \notin waking
    /\ q \in waking => q \notin viewed
    /\ asker[q] = "waiting" => "start" \in wire[q] \/ q \in waking \/ q \in viewed \/ q \in settled

\* What a step may settle, and what it says then.
Answered ==
  /\ settled \subseteq settled' /\ settled' \subseteq settled \cup Dialled
  /\ \A q \in Questions : Listens(q) /\ q \in settled' => reply'[q] # None

LEMMA OutcomesAreWords ==
  Unanswered # None /\ "error" # None /\ \A a \in Answers : a # None
  BY ConstantsAssumption DEF Unanswered, Answers

LEMMA SettleAnswers ==
  ASSUME TypeOK, PlaceInv, NEW Q \in SUBSET Dialled, NEW r, r # None, Settle(Q, r)
  PROVE  Answered
  <1>1. /\ settled' = settled \cup Q
        /\ reply' = [q \in Questions |-> IF q \in Q \ settled /\ Listens(q) THEN r ELSE reply[q]]
    BY Zenon DEF Settle
  <1>2. \A q \in Questions : Listens(q) /\ q \in settled' => reply'[q] # None
    BY <1>1, Zenon DEF PlaceInv
  <1> QED BY <1>1, <1>2 DEF Answered

LEMMA OpenDialled ==
  ASSUME TypeOK, PlaceInv
  PROVE  open \subseteq Dialled /\ settled \subseteq Dialled
  BY SMT DEF TypeOK, PlaceInv, Dialled

\* Each question that is put is shown, or its end is on its way.
LEMMA QuestionPlaces ==
  ASSUME TypeOK, PlaceInv, NEW Q \in SUBSET Dialled, Question(Q)
  PROVE  /\ Answered /\ settled' \subseteq settled \cup Q
         /\ viewed \subseteq viewed' /\ viewed' \subseteq viewed \cup Q /\ Q \subseteq viewed' \cup settled'
  <1>0. Q \subseteq Questions
    BY DEF Dialled
  <1>1. CASE /\ settled' = settled \cup (Q \ viewed)
             /\ reply' = [q \in Questions |->
                  IF q \in Q \ viewed /\ Listens(q)
                  THEN IF q \in expired THEN Unanswered ELSE "error"
                  ELSE reply[q]]
             /\ viewed' = viewed
    <2>1. \A q \in Questions : q \in Q \ viewed /\ Listens(q) => reply'[q] \in {Unanswered, "error"}
      BY <1>1
    <2>2. \A q \in Questions : q \notin Q \ viewed => reply'[q] = reply[q]
      BY <1>1
    <2>3. \A q \in Questions : Listens(q) /\ q \in settled' => reply'[q] # None
      <3> SUFFICES ASSUME NEW q \in Questions, Listens(q), q \in settled' PROVE reply'[q] # None
        OBVIOUS
      <3>1. CASE q \in Q \ viewed
        BY <2>1, <3>1, OutcomesAreWords
      <3>2. CASE q \notin Q \ viewed
        BY <1>1, <2>2, <3>2 DEF PlaceInv
      <3> QED BY <3>1, <3>2
    <2> QED BY <1>1, <2>3 DEF Answered
  <1>2. CASE /\ settled' = settled \cup ((Q \ viewed) \cap expired)
             /\ reply' = [q \in Questions |->
                  IF q \in (Q \ viewed) \cap expired /\ Listens(q) THEN Unanswered ELSE reply[q]]
             /\ viewed' = viewed \cup ((Q \ viewed) \ expired)
    <2>1. \A q \in Questions : Listens(q) /\ q \in settled' => reply'[q] # None
      <3> SUFFICES ASSUME NEW q \in Questions, Listens(q), q \in settled' PROVE reply'[q] # None
        OBVIOUS
      <3>1. CASE q \in (Q \ viewed) \cap expired
        BY <1>2, <3>1, OutcomesAreWords
      <3>2. CASE q \notin (Q \ viewed) \cap expired
        BY <1>2, <3>2 DEF PlaceInv
      <3> QED BY <3>1, <3>2
    <2> QED BY <1>2, <2>1 DEF Answered
  <1> QED BY <1>1, <1>2, Zenon DEF Question, Kept

\* A step that moves no question on its way, and settles what it settles with a
\* word.
LEMMA PlacesStay ==
  ASSUME TypeOK, PlaceInv, UNCHANGED <<asker, open, wire, viewed, waking>>, Answered
  PROVE  PlaceInv'
  <1>1. \A q \in Questions : Listens(q)' = Listens(q)
    BY Zenon DEF Listens
  <1>2. \A q \in Questions : asker[q] = "idle" => q \notin Dialled
    BY Zenon DEF Dialled
  <1> QED BY <1>1, <1>2, SMT DEF PlaceInv, Answered

LEMMA NothingSettled ==
  ASSUME PlaceInv, UNCHANGED <<settled, reply>>
  PROVE  Answered
  BY Zenon DEF PlaceInv, Answered

\* An answer settles a shown question, whether it counts or comes too late.
LEMMA AnswerPlaces ==
  ASSUME TypeOK, PlaceInv, NEW q \in Questions, NEW a \in Answers, SettleApproval(q, a)
  PROVE  Answered /\ settled' \subseteq settled \cup viewed
  <1>1. CallerSocket(q) \subseteq Dialled /\ CallerSocket(q) \subseteq {q}
    BY OpenDialled DEF CallerSocket
  <1>2. CASE Counts(q)
    <2>1. {q} \in SUBSET Dialled /\ q \in viewed /\ Settle({q}, a)
      BY <1>1, <1>2 DEF SettleApproval, Counts, CallerSocket
    <2> QED BY <2>1, OutcomesAreWords, SettleAnswers DEF Settle
  <1>3. CASE ~Counts(q)
    <2>1. Settle(CallerSocket(q) \cap viewed, Unanswered)
      BY <1>3 DEF SettleApproval
    <2>2. PICK Q \in SUBSET Dialled : Q = CallerSocket(q) \cap viewed
      BY <1>1
    <2>3. Settle(Q, Unanswered)
      BY <2>1, <2>2, Zenon DEF Settle
    <2> QED BY <2>2, <2>3, OutcomesAreWords, SettleAnswers DEF Settle
  <1> QED BY <1>2, <1>3

LEMMA WorkerPlaces ==
  ASSUME AnswerInv, PlaceInv, WorkerNext
  PROVE  PlaceInv'
  <1> USE DEF AnswerInv, TypeOK, objectVars, questionVars
  <1>1. ASSUME NEW q \in Questions, Dial(q) PROVE PlaceInv'
    <2>1. /\ asker[q] = "idle" /\ asker'[q] = "dialling" /\ \A x \in Questions : x # q => asker'[x] = asker[x]
          /\ open' = open \cup {q} /\ UNCHANGED <<settled, viewed, waking, reply, wire>>
      BY <1>1 DEF Dial
    <2> QED BY <2>1, SMT DEF PlaceInv, Listens
  <1>2. ASSUME NEW q \in Questions, Start(q) PROVE PlaceInv'
    <2>1. /\ asker[q] = "dialling" /\ asker'[q] = "waiting" /\ \A x \in Questions : x # q => asker'[x] = asker[x]
          /\ wire'[q] = {"start"} /\ \A x \in Questions : x # q => wire'[x] = wire[x]
          /\ UNCHANGED <<open, settled, viewed, waking, reply>>
      BY <1>2 DEF Start
    <2> QED BY <2>1, SMT DEF PlaceInv, Listens
  <1>3. ASSUME NEW q \in Questions, Deadline(q) PROVE PlaceInv'
    <2>1. UNCHANGED <<asker, open, wire, viewed, waking, settled, reply>>
      BY <1>3 DEF Deadline
    <2> QED BY <2>1, NothingSettled, PlacesStay
  <1>4. ASSUME NEW q \in Questions, NEW o, NEW frames, Finish(q, o, frames),
               Listens(q), "start" \in frames => "start" \in wire[q]
        PROVE  PlaceInv'
    <2>1. /\ asker'[q] = "done" /\ \A x \in Questions : x # q => asker'[x] = asker[x]
          /\ wire'[q] = frames /\ \A x \in Questions : x # q => wire'[x] = wire[x]
          /\ UNCHANGED <<open, settled, viewed, waking, reply>>
      BY <1>4 DEF Finish
    <2> QED BY <1>4, <2>1, SMT DEF PlaceInv, Listens
  <1>5. ASSUME NEW q \in Questions, Hear(q) \/ TimeOut(q) \/ OpenedTooLate(q)
        PROVE  PlaceInv'
    <2>1. PICK o, frames : Finish(q, o, frames) /\ frames \subseteq wire[q] \cup {"cancel", "close"}
      <3>1. CASE Hear(q)
        <4>1. Finish(q, reply[q], wire[q] \cup {"close"}) /\ wire[q] \cup {"close"} \subseteq wire[q] \cup {"cancel", "close"}
          BY <3>1 DEF Hear
        <4> QED BY <4>1, Zenon
      <3>2. CASE TimeOut(q)
        BY <3>2, Zenon DEF TimeOut
      <3>3. CASE OpenedTooLate(q)
        <4>1. Finish(q, "unanswered", {"close"}) /\ {"close"} \subseteq wire[q] \cup {"cancel", "close"}
          BY <3>3 DEF OpenedTooLate
        <4> QED BY <4>1
      <3> QED BY <1>5, <3>1, <3>2, <3>3
    <2>2. Listens(q)
      BY <1>5 DEF Hear, TimeOut, OpenedTooLate, Listens
    <2> QED BY <1>4, <2>1, <2>2
  <1>6. ASSUME NEW q \in Questions, NEW o \in {"unanswered", "error"}, Vanish(q, o) PROVE PlaceInv'
    BY <1>4, <1>6 DEF Vanish, Listens
  <1> QED BY <1>1, <1>2, <1>3, <1>5, <1>6 DEF WorkerNext

LEMMA RelayPlaces ==
  ASSUME AnswerInv, PlaceInv, RelayNext
  PROVE  PlaceInv'
  <1> USE DEF executorVars, questionVars, cliVars, workerVars, history
  <1>0. TypeOK /\ open \subseteq Dialled /\ settled \subseteq Dialled /\ waking \subseteq Dialled
    BY OpenDialled DEF AnswerInv, KnownInv
  <1>1. ASSUME NEW q \in Questions, StartMessage(q) PROVE PlaceInv'
    <2>1. /\ "start" \in wire[q] /\ wire' = [wire EXCEPT ![q] = @ \ {"start"}]
          /\ UNCHANGED <<open, asker>>
          /\ \/ q \in settled /\ UNCHANGED <<settled, reply, viewed, waking>>
             \/ waking' = waking \cup {q} /\ UNCHANGED <<settled, reply, viewed>>
             \/ Question({q}) /\ UNCHANGED waking
      BY <1>1, Zenon DEF StartMessage
    <2>2. /\ wire'[q] = wire[q] \ {"start"} /\ \A x \in Questions : x # q => wire'[x] = wire[x]
          /\ \A x \in Questions : Listens(x)' = Listens(x)
      BY <1>0, <2>1 DEF TypeOK, Listens
    <2>3. q \in Dialled /\ {q} \in SUBSET Dialled
      BY <2>1 DEF AnswerInv, KnownInv
    <2>4. CASE (q \in settled \/ q \in waking') /\ UNCHANGED <<settled, reply, viewed>> /\ waking' \in {waking, waking \cup {q}}
      BY <2>1, <2>2, <2>4, SMT DEF PlaceInv
    <2>5. CASE Question({q}) /\ UNCHANGED waking
      <3>1. /\ Answered /\ settled' \subseteq settled \cup {q}
            /\ viewed \subseteq viewed' /\ viewed' \subseteq viewed \cup {q} /\ {q} \subseteq viewed' \cup settled'
        BY <1>0, <2>3, <2>5, QuestionPlaces
      <3> QED BY <2>1, <2>2, <2>3, <2>5, <3>1, SMT DEF PlaceInv, Answered, Dialled
    <2> QED BY <2>1, <2>4, <2>5, Zenon
  <1>2. ASSUME NEW ok \in BOOLEAN, WakeDone(ok) PROVE PlaceInv'
    <2>1. /\ waking' = {} /\ UNCHANGED <<open, asker, wire>>
          /\ Question(waking \ settled) \/ (Settle(waking, "error") /\ UNCHANGED viewed)
      BY <1>2, Zenon DEF WakeDone
    <2>2. \A x \in Questions : Listens(x)' = Listens(x)
      BY <2>1 DEF Listens
    <2>3. /\ Answered /\ viewed \subseteq viewed' /\ viewed' \subseteq viewed \cup waking
          /\ waking \subseteq viewed' \cup settled'
      <3>1. CASE Question(waking \ settled)
        <4>1. PICK Q \in SUBSET Dialled : Q = waking \ settled
          BY <1>0
        <4>2. Question(Q)
          BY <3>1, <4>1
        <4>3. /\ Answered /\ viewed \subseteq viewed' /\ viewed' \subseteq viewed \cup Q /\ Q \subseteq viewed' \cup settled'
          BY <1>0, <4>2, QuestionPlaces
        <4> QED BY <4>1, <4>3 DEF Answered
      <3>2. CASE Settle(waking, "error") /\ UNCHANGED viewed
        <4>1. PICK Q \in SUBSET Dialled : Q = waking
          BY <1>0
        <4>2. Settle(Q, "error")
          BY <3>2, <4>1, Zenon DEF Settle
        <4>3. Answered /\ settled' = settled \cup Q
          BY <1>0, <4>2, OutcomesAreWords, SettleAnswers DEF Settle
        <4> QED BY <3>2, <4>1, <4>3
      <3> QED BY <2>1, <3>1, <3>2
    <2> QED BY <2>1, <2>2, <2>3, SMT DEF PlaceInv, Answered, Dialled
  <1>3. ASSUME NEW q \in Questions, CancelMessage(q) \/ CallerCloses(q) PROVE PlaceInv'
    <2>1. /\ UNCHANGED <<viewed, waking, reply, asker>>
          /\ wire'[q] \subseteq wire[q] /\ \A x \in Questions : x # q => wire'[x] = wire[x]
          /\ wire[q] \cap {"cancel", "close"} # {} /\ "start" \notin wire[q]
          /\ settled \subseteq settled' /\ settled' \subseteq settled \cup {q}
          /\ open \subseteq open' \cup {q} /\ open' \subseteq open
      BY <1>0, <1>3, SMT DEF CancelMessage, CallerCloses, TypeOK
    <2>2. asker[q] = "done" /\ ~Listens(q)
      BY <2>1, SMT DEF PlaceInv, Listens, AnswerInv, TypeOK
    <2>3. \A x \in Questions : Listens(x)' = Listens(x)
      BY <2>1 DEF Listens
    <2> QED BY <2>1, <2>2, <2>3, SMT DEF PlaceInv
  <1>4. ASSUME NEW s \in Sockets, Accept(s) \/ Hello(s) PROVE PlaceInv'
    <2>1. UNCHANGED <<asker, open, wire, viewed, waking, settled, reply>>
      BY <1>4, Zenon DEF Accept, Hello
    <2> QED BY <1>0, <2>1, NothingSettled, PlacesStay
  <1>5. ASSUME AwakeLapses \/ \E s \in Sockets, how \in {"close", "error"} : SocketEnds(s, how) PROVE PlaceInv'
    <2>1. UNCHANGED <<asker, open, wire, viewed, waking, settled, reply>>
      BY <1>5, Zenon DEF AwakeLapses, SocketEnds
    <2> QED BY <1>0, <2>1, NothingSettled, PlacesStay
  <1>6. ASSUME NEW Q, Q \subseteq open, Settle(Q, Unanswered), UNCHANGED <<asker, open, wire, viewed, waking>>
        PROVE  PlaceInv'
    <2>1. Q \in SUBSET Dialled
      BY <1>0, <1>6
    <2> QED BY <1>0, <1>6, <2>1, OutcomesAreWords, SettleAnswers, PlacesStay
  <1>7. ASSUME NEW d \in drops, DropExecutor(d) PROVE PlaceInv'
    <2>1. Settle(Asked, Unanswered) /\ UNCHANGED <<asker, open, wire, viewed, waking>>
      BY <1>7, Zenon DEF DropExecutor
    <2>2. Asked \subseteq open
      BY DEF Asked, Shown
    <2> QED BY <1>6, <2>1, <2>2
  <1>8. ASSUME Revoke PROVE PlaceInv'
    BY <1>6, <1>8 DEF Revoke
  <1>9. ASSUME NEW s \in Sockets, NEW q \in Questions, NEW a \in Answers, AnswerFrame(s, q, a) PROVE PlaceInv'
    <2>1. SettleApproval(q, a) /\ UNCHANGED <<asker, open, wire, viewed, waking>>
      BY <1>9, Zenon DEF AnswerFrame
    <2> QED BY <1>0, <2>1, AnswerPlaces, PlacesStay
  <1> QED BY <1>1, <1>2, <1>3, <1>4, <1>5, <1>7, <1>8, <1>9 DEF RelayNext

LEMMA PeoplePlaces ==
  ASSUME AnswerInv, PlaceInv, PeopleNext \/ CliNext
  PROVE  PlaceInv'
  <1> USE DEF objectVars, executorVars, questionVars, cliVars, workerVars, history
  <1>0. TypeOK
    BY DEF AnswerInv
  <1>1. ASSUME NEW q \in Questions, NEW a \in Answers, AnswerInDashboard(q, a) PROVE PlaceInv'
    <2>1. SettleApproval(q, a) /\ UNCHANGED <<asker, open, wire, viewed, waking>>
      BY <1>1, Zenon DEF AnswerInDashboard
    <2> QED BY <1>0, <2>1, AnswerPlaces, PlacesStay
  <1>2. ASSUME NEW s \in Sockets, NEW q \in Questions, TakeAsk(s, q) \/ \E a \in Answers : AnswerAtTerminal(s, q, a)
        PROVE  PlaceInv'
    <2>1. UNCHANGED <<asker, open, wire, viewed, waking, settled, reply>>
      BY <1>2, Zenon DEF TakeAsk, AnswerAtTerminal
    <2> QED BY <1>0, <2>1, NothingSettled, PlacesStay
  <1> QED BY <1>1, <1>2 DEF PeopleNext, CliNext

LEMMA PlaceStep ==
  ASSUME AnswerInv, PlaceInv, [Next]_vars
  PROVE  PlaceInv'
  <1>1. CASE UNCHANGED vars
    <2>1. UNCHANGED <<asker, open, wire, viewed, waking, settled, reply>>
      BY <1>1, Zenon DEF vars, objectVars, questionVars, workerVars
    <2> QED BY <2>1, NothingSettled, PlacesStay DEF AnswerInv
  <1> QED BY <1>1, WorkerPlaces, RelayPlaces, PeoplePlaces DEF Next

LEMMA PlaceInit == Init => PlaceInv
  BY SMT DEF Init, PlaceInv, Listens

LEMMA PlaceInvariant == SafetySpec => [](AnswerInv /\ PlaceInv)
  BY AnswerInvInit, AnswerInvStep, PlaceInit, PlaceStep, PTL DEF SafetySpec

\* A question whose call waits is on the dashboard or its end is on its way,
\* whatever sockets came and went and however the wake went: it is parked,
\* shown or settled in the turn that takes it, and settled with a word
\* (relay-do-callers.ts, handleApprovalCallerMessage).
THEOREM NoQuestionIsLost == SafetySpec => []AskedIsVisible
  <1>1. AnswerInv /\ PlaceInv => AskedIsVisible
    BY SMT DEF PlaceInv, AskedIsVisible, Shown, Listens
  <1> QED BY <1>1, PlaceInvariant, PTL

\* A question that waits for its machine to wake is not failed by the
\* connections that come and go meanwhile: they settle what was shown alone,
\* and it is not shown yet (failCallers, dispatchedOnly).
THEOREM ParkedQuestionsStand == SafetySpec => UnaskedOutlivesReconnect
  <1> DEFINE Stands == \A q \in (waking \cap waking') \ settled : q \in settled' => asker[q] = "done" \/ revoked'
  <1> USE DEF executorVars, questionVars, objectVars, cliVars, workerVars, history
  <1>1. ASSUME AnswerInv, PlaceInv, settled' \subseteq settled \cup viewed PROVE Stands
    BY <1>1, SMT DEF PlaceInv, AnswerInv, TypeOK
  <1>2. ASSUME AnswerInv, PlaceInv, WorkerNext \/ UNCHANGED vars PROVE Stands
    <2>1. settled' = settled
      BY <1>2, Zenon DEF WorkerNext, Dial, Start, Deadline, Hear, TimeOut, OpenedTooLate, Vanish, Finish, vars
    <2> QED BY <1>1, <1>2, <2>1
  <1>3. ASSUME AnswerInv, PlaceInv, RelayNext PROVE Stands
    <2>0. TypeOK
      BY <1>3 DEF AnswerInv
    <2>1. ASSUME NEW q \in Questions, StartMessage(q) PROVE Stands
      <3>1. "start" \in wire[q] /\ (settled' = settled \/ Question({q}))
        BY <2>1, Zenon DEF StartMessage
      <3>2. q \notin waking
        BY <1>3, <3>1 DEF PlaceInv
      <3>3. settled' \subseteq settled \cup {q}
        BY <3>1, SMT DEF Question
      <3> QED BY <3>2, <3>3
    <2>2. ASSUME NEW ok \in BOOLEAN, WakeDone(ok) PROVE Stands
      BY <2>2 DEF WakeDone
    <2>3. ASSUME NEW q \in Questions, CancelMessage(q) PROVE Stands
      <3>1. "cancel" \in wire[q] /\ settled' = settled \cup {q}
        BY <2>3, Zenon DEF CancelMessage
      <3>2. asker[q] = "done"
        BY <1>3, <2>0, <3>1, SMT DEF PlaceInv, Listens, TypeOK
      <3> QED BY <3>1, <3>2
    <2>4. ASSUME Revoke PROVE Stands
      BY <2>4, Zenon DEF Revoke
    <2>5. ASSUME NEW d \in drops, DropExecutor(d) PROVE Stands
      <3>1. settled' = settled \cup Asked /\ Asked \subseteq viewed
        BY <2>5, Zenon DEF DropExecutor, Settle, Asked, Shown
      <3> QED BY <1>1, <1>3, <3>1
    <2>6. ASSUME NEW s \in Sockets, NEW q \in Questions, NEW a \in Answers, AnswerFrame(s, q, a) PROVE Stands
      <3>1. settled' \subseteq settled \cup viewed
        BY <1>3, <2>0, <2>6, AnswerPlaces DEF AnswerFrame
      <3> QED BY <1>1, <1>3, <3>1
    <2>7. CASE settled' = settled
      BY <2>7
    <2>8. ASSUME \/ AwakeLapses \/ \E q \in Questions : CallerCloses(q)
                 \/ \E s \in Sockets : Accept(s) \/ Hello(s)
                 \/ \E s \in Sockets, how \in {"close", "error"} : SocketEnds(s, how)
          PROVE  settled' = settled
      BY <2>8, Zenon DEF AwakeLapses, CallerCloses, Accept, Hello, SocketEnds
    <2> QED BY <1>3, <2>1, <2>2, <2>3, <2>4, <2>5, <2>6, <2>7, <2>8, Zenon DEF RelayNext
  <1>4. ASSUME AnswerInv, PlaceInv, PeopleNext \/ CliNext PROVE Stands
    <2>1. ASSUME NEW q \in Questions, NEW a \in Answers, AnswerInDashboard(q, a) PROVE Stands
      <3>1. settled' \subseteq settled \cup viewed
        BY <1>4, <2>1, AnswerPlaces DEF AnswerInDashboard, AnswerInv
      <3> QED BY <1>1, <1>4, <3>1
    <2>2. ASSUME NEW s \in Sockets, NEW q \in Questions, TakeAsk(s, q) \/ \E a \in Answers : AnswerAtTerminal(s, q, a)
          PROVE  Stands
      BY <2>2, Zenon DEF TakeAsk, AnswerAtTerminal
    <2> QED BY <1>4, <2>1, <2>2 DEF PeopleNext, CliNext
  <1>5. AnswerInv /\ PlaceInv /\ [Next]_vars => Stands
    BY <1>2, <1>3, <1>4, Zenon DEF Next
  <1> QED BY <1>5, PlaceInvariant, PTL DEF SafetySpec, UnaskedOutlivesReconnect
================================================================================
